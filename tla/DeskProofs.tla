----------------------------- MODULE DeskProofs -----------------------------
(***************************************************************************)
(* Proofs about the parts behind the user's own pages, each for itself, as *)
(* MCDesk checks them: the profile and its cache, the PDFs, the board of   *)
(* applications, the bell, the rows of the profile, and the text of a      *)
(* resume.                                                                 *)
(***************************************************************************)
EXTENDS Desk, ResumeText, OrderingsProofs, SequenceTheorems, TLAPS

-----------------------------------------------------------------------------
(* The profile and its cache *)

USE DEF Versions

LEMMA EditPlansAreSequences ==
    \A p \in EditPlans : p \in Seq(Topics) /\ p # <<>>
  <1>1. ASSUME NEW t \in Topics PROVE <<t>> \in Seq(Topics) /\ <<t>> # <<>>
    OBVIOUS
  <1>2. ImportOrder \in Seq(Topics) /\ ImportOrder # <<>>
    BY CacheAssumption
  <1> QED
    BY <1>1, <1>2 DEF EditPlans

\* A request at work stands at a topic of its plan, and so does a reader.
LEMMA EditorShape ==
    ASSUME TypeOK, NEW e \in Editors, editor[e] # Idle
    PROVE  /\ editor[e] \in Editing
           /\ editor[e].plan \in EditPlans
           /\ editor[e].plan \in Seq(Topics)
           /\ editor[e].pos \in 1..Len(editor[e].plan)
           /\ Standing(editor[e]) \in Topics
  <1>1. editor[e] \in Editing
    BY DEF TypeOK
  <1>2. /\ editor[e].plan \in EditPlans
        /\ editor[e].pos \in 1..Len(editor[e].plan)
    BY <1>1 DEF Editing
  <1> QED
    BY <1>1, <1>2, EditPlansAreSequences DEF Standing

LEMMA ReaderShape ==
    ASSUME TypeOK, NEW r \in Readers, reader[r] # Idle
    PROVE  /\ reader[r] \in Reading
           /\ reader[r].plan \in ReadPlans
           /\ reader[r].plan \in Seq(Topics)
           /\ reader[r].pos \in 1..Len(reader[r].plan)
           /\ reader[r].seen \in Versions
           /\ Topic(r) \in Topics
  <1>1. reader[r] \in Reading
    BY DEF TypeOK
  <1>2. /\ reader[r].plan \in ReadPlans
        /\ reader[r].pos \in 1..Len(reader[r].plan)
        /\ reader[r].seen \in Versions
    BY <1>1 DEF Reading
  <1>3. \A p \in ReadPlans : p \in Seq(Topics)
    BY CacheAssumption
  <1> QED
    BY <1>1, <1>2, <1>3 DEF Topic, Standing

\* Moving on to the next topic of a plan keeps the shape.
LEMMA EditRestShape ==
    ASSUME TypeOK, NEW e \in Editors, editor[e] # Idle
    PROVE  EditRest(e) \in {Idle} \cup Editing
  <1>1. CASE editor[e].pos = Len(editor[e].plan)
    BY <1>1 DEF EditRest
  <1>2. CASE editor[e].pos # Len(editor[e].plan)
    <2>1. PICK p \in EditPlans :
             editor[e] \in [at: {"invalidate"}, plan: {p}, pos: 1..Len(p)]
      BY EditorShape DEF Editing
    <2>2. Len(p) \in Nat
      BY <2>1, EditorShape
    <2>3. editor[e].pos + 1 \in 1..Len(p)
      BY <1>2, <2>1, <2>2
    <2>4. [editor[e] EXCEPT !.pos = @ + 1] \in
             [at: {"invalidate"}, plan: {p}, pos: 1..Len(p)]
      BY <2>1, <2>3
    <2> QED
      BY <1>2, <2>4 DEF EditRest, Editing
  <1> QED
    BY <1>1, <1>2

LEMMA ReadRestShape ==
    ASSUME TypeOK, NEW r \in Readers, reader[r] # Idle
    PROVE  ReadRest(r) \in {Idle} \cup Reading
  <1>1. CASE reader[r].pos = Len(reader[r].plan)
    BY <1>1 DEF ReadRest
  <1>2. CASE reader[r].pos # Len(reader[r].plan)
    <2>1. PICK p \in ReadPlans :
             reader[r] \in [at: {"get", "select", "set"}, plan: {p}, pos: 1..Len(p),
                            seen: Versions]
      BY ReaderShape DEF Reading
    <2>2. Len(p) \in Nat
      BY <2>1, ReaderShape
    <2>3. reader[r].pos + 1 \in 1..Len(p)
      BY <1>2, <2>1, <2>2
    <2>4. [reader[r] EXCEPT !.at = "get", !.pos = @ + 1] \in
             [at: {"get", "select", "set"}, plan: {p}, pos: 1..Len(p), seen: Versions]
      BY <2>1, <2>3
    <2> QED
      BY <1>2, <2>4 DEF ReadRest, Reading
  <1> QED
    BY <1>1, <1>2

\* A reader between two calls keeps its plan and its place in it.
LEMMA ReaderMoves ==
    ASSUME TypeOK, NEW r \in Readers, reader[r] # Idle,
           NEW at \in {"get", "select", "set"}, NEW v \in Versions
    PROVE  /\ [reader[r] EXCEPT !.at = at] \in Reading
           /\ [reader[r] EXCEPT !.at = at, !.seen = v] \in Reading
  <1>1. PICK p \in ReadPlans :
           reader[r] \in [at: {"get", "select", "set"}, plan: {p}, pos: 1..Len(p),
                          seen: Versions]
    BY ReaderShape DEF Reading
  <1> QED
    BY <1>1 DEF Reading

-----------------------------------------------------------------------------
LEMMA CacheTypeInit == Init => TypeOK
BY CacheAssumption DEF Init, TypeOK

LEMMA CacheTypeStep == TypeOK /\ [Next]_vars => TypeOK'
<1> SUFFICES ASSUME TypeOK, [Next]_vars PROVE TypeOK'
  OBVIOUS
<1> USE CacheAssumption
<1>1. ASSUME NEW e \in Editors, Write(e) PROVE TypeOK'
  <2>1. PICK plan \in EditPlans :
          /\ db' = [t \in Topics |-> IF t \in Touched(plan) THEN writes + 1 ELSE db[t]]
          /\ editor' = [editor EXCEPT ![e] =
                          [at |-> "invalidate", plan |-> plan, pos |-> 1]]
    BY <1>1 DEF Write
  <2>2. writes + 1 \in Versions
    BY <1>1 DEF Write, TypeOK
  <2>3. plan \in Seq(Topics) /\ plan # <<>>
    BY EditPlansAreSequences
  <2>4. 1 \in 1..Len(plan)
    BY <2>3
  <2>5. [at |-> "invalidate", plan |-> plan, pos |-> 1] \in Editing
    BY <2>2, <2>4 DEF Editing
  <2>6. editor' \in [Editors -> {Idle} \cup Editing]
    BY <2>1, <2>5 DEF TypeOK
  <2>7. db' \in [Topics -> Versions]
    BY <2>1, <2>2 DEF TypeOK
  <2> QED
    BY <1>1, <2>2, <2>6, <2>7 DEF Write, TypeOK
<1>2. ASSUME NEW e \in Editors, Invalidate(e) PROVE TypeOK'
  <2>1. editor[e] # Idle
    BY <1>2 DEF Invalidate
  <2>2. editor' \in [Editors -> {Idle} \cup Editing]
    BY <1>2, <2>1, EditRestShape DEF Invalidate, TypeOK
  <2>3. cache' \in [Topics -> Versions \cup {NoEntry}]
    BY <1>2 DEF Invalidate, TypeOK
  <2>5. faults' \in 0..MaxFaults
    BY <1>2 DEF Invalidate, Fault, TypeOK
  <2> QED
    BY <1>2, <2>2, <2>3, <2>5 DEF Invalidate, TypeOK
<1>3. ASSUME NEW e \in Editors, EditInterrupted(e) PROVE TypeOK'
  BY <1>3 DEF EditInterrupted, Fault, TypeOK
<1>4. ASSUME NEW r \in Readers, StartRead(r) PROVE TypeOK'
  <2>1. PICK plan \in ReadPlans :
          reader' = [reader EXCEPT ![r] = [at |-> "get", plan |-> plan, pos |-> 1, seen |-> 0]]
    BY <1>4 DEF StartRead
  <2>2. 1 \in 1..Len(plan)
    OBVIOUS
  <2>3. [at |-> "get", plan |-> plan, pos |-> 1, seen |-> 0] \in Reading
    BY <2>2 DEF Reading
  <2> QED
    BY <1>4, <2>1, <2>3 DEF StartRead, TypeOK
<1>5. ASSUME NEW r \in Readers, GetHit(r) PROVE TypeOK'
  BY <1>5, ReadRestShape DEF GetHit, Reads, TypeOK
<1>6. ASSUME NEW r \in Readers, GetMiss(r) PROVE TypeOK'
  <2>1. [reader[r] EXCEPT !.at = "select"] \in Reading
    <3>1. reader[r] # Idle /\ 0 \in Versions
      BY <1>6 DEF GetMiss, Reads
    <3> QED
      BY <3>1, ReaderMoves
  <2> QED
    BY <1>6, <2>1 DEF GetMiss, Fault, TypeOK
<1>7. ASSUME NEW r \in Readers, Select(r) PROVE TypeOK'
  <2>1. db[Topic(r)] \in Versions
    BY <1>7, ReaderShape DEF Select, Reads, TypeOK
  <2>2. [reader[r] EXCEPT !.at = "set", !.seen = db[Topic(r)]] \in Reading
    BY <1>7, <2>1, ReaderMoves DEF Select, Reads
  <2> QED
    BY <1>7, <2>2 DEF Select, TypeOK
<1>8. ASSUME NEW r \in Readers, SelectFails(r) PROVE TypeOK'
  BY <1>8 DEF SelectFails, Fault, TypeOK
<1>9. ASSUME NEW r \in Readers, SetTyped(r) PROVE TypeOK'
  <2>1. reader[r] # Idle
    BY <1>9 DEF SetTyped, Reads
  <2>2. Topic(r) \in Topics /\ reader[r].seen \in Versions
    BY <2>1, ReaderShape
  <2>3. cache' \in [Topics -> Versions \cup {NoEntry}]
    BY <1>9, <2>2 DEF SetTyped, TypeOK
  <2>4. reader' \in [Readers -> {Idle} \cup Reading]
    BY <1>9, <2>1, ReadRestShape DEF SetTyped, TypeOK
  <2>5. faults' \in 0..MaxFaults
    BY <1>9 DEF SetTyped, Fault, TypeOK
  <2> QED
    BY <1>9, <2>3, <2>4, <2>5 DEF SetTyped, TypeOK
<1>10. ASSUME NEW t \in Topics, Expire(t) PROVE TypeOK'
  BY <1>10 DEF Expire, TypeOK
<1>11. CASE UNCHANGED vars
  BY <1>11 DEF vars, TypeOK
<1> QED
  BY <1>1, <1>2, <1>3, <1>4, <1>5, <1>6, <1>7, <1>8, <1>9, <1>10, <1>11 DEF Next

\* The state has the shape that Redis, Postgres and the plans give it.
THEOREM CacheTypeCorrect == Spec => []TypeOK
BY CacheTypeInit, CacheTypeStep, PTL DEF Spec

-----------------------------------------------------------------------------
\* A request gives up no topic but the one it stands at.
LEMMA OwedAfterInvalidate ==
    ASSUME TypeOK, NEW e \in Editors, Invalidate(e), NEW t \in Topics,
           Owed(t), t # Standing(editor[e])
    PROVE  Owed(t)'
<1>1. PICK f \in Editors :
        /\ editor[f] # Idle
        /\ \E i \in editor[f].pos..Len(editor[f].plan) : editor[f].plan[i] = t
  BY DEF Owed
<1>2. CASE f # e
  <2>1. editor'[f] = editor[f]
    BY <1>2 DEF Invalidate, TypeOK
  <2> QED
    BY <1>1, <2>1 DEF Owed
<1>3. CASE f = e
  <2>1. PICK i \in editor[e].pos..Len(editor[e].plan) : editor[e].plan[i] = t
    BY <1>1, <1>3
  <2>2. editor[e].pos \in 1..Len(editor[e].plan) /\ Len(editor[e].plan) \in Nat
    BY <1>1, <1>3, EditorShape
  <2>3. i # editor[e].pos
    BY <2>1 DEF Standing
  <2>4. editor[e].pos # Len(editor[e].plan) /\ i \in (editor[e].pos + 1)..Len(editor[e].plan)
    BY <2>2, <2>3
  <2>5. editor'[e] = [editor[e] EXCEPT !.pos = @ + 1]
    BY <2>4 DEF Invalidate, EditRest, TypeOK
  <2>6. editor[e] \in Editing
    BY <1>1, <1>3, EditorShape
  <2>7. /\ editor'[e].pos = editor[e].pos + 1
        /\ editor'[e].plan = editor[e].plan
        /\ editor'[e].at = "invalidate"
    BY <2>5, <2>6 DEF Editing
  <2>8. editor'[e] # Idle
    BY <2>5, <2>6 DEF Editing, Idle
  <2> QED
    BY <2>1, <2>4, <2>7, <2>8 DEF Owed
<1> QED
  BY <1>2, <1>3

\* A topic goes stale only by a fault or by a late set: a write owes the
\* deletion of whatever it makes outdated, and that debt is paid topic by topic.
THEOREM StaleHasACauseHolds == Spec => StaleHasACause
<1> DEFINE Caused == \A t \in Topics : Stale(t)' /\ ~Stale(t) => faults' > faults \/ LateSet(t)
<1>1. TypeOK /\ [Next]_vars => Caused
  <2> SUFFICES ASSUME TypeOK, [Next]_vars, NEW t \in Topics, Stale(t)', ~Stale(t)
               PROVE  faults' > faults \/ LateSet(t)
    OBVIOUS
  <2>1. ASSUME NEW e \in Editors, Write(e) PROVE FALSE
    <3>1. PICK plan \in EditPlans :
            /\ db' = [u \in Topics |-> IF u \in Touched(plan) THEN writes + 1 ELSE db[u]]
            /\ editor' = [editor EXCEPT ![e] =
                            [at |-> "invalidate", plan |-> plan, pos |-> 1]]
      BY <2>1 DEF Write
    <3>2. CASE t \in Touched(plan)
      <4>1. /\ editor'[e].plan = plan /\ editor'[e].pos = 1
            /\ editor'[e].at = "invalidate"
        BY <3>1 DEF TypeOK
      <4>2. editor'[e] # Idle
        BY <3>1 DEF TypeOK, Idle
      <4>3. Owed(t)'
        BY <3>2, <4>1, <4>2 DEF Owed, Touched
      <4> QED
        BY <4>3 DEF Stale
    <3>3. CASE t \notin Touched(plan)
      <4>1. db'[t] = db[t] /\ cache'[t] = cache[t]
        BY <2>1, <3>1, <3>3 DEF Write
      <4>2. Owed(t)
        BY <4>1 DEF Stale
      <4>3. PICK f \in Editors :
              /\ editor[f] # Idle
              /\ \E i \in editor[f].pos..Len(editor[f].plan) : editor[f].plan[i] = t
        BY <4>2 DEF Owed
      <4>4. editor'[f] = editor[f]
        BY <2>1, <3>1, <4>3 DEF Write, TypeOK
      <4>5. Owed(t)'
        BY <4>3, <4>4 DEF Owed
      <4> QED
        BY <4>5 DEF Stale
    <3> QED
      BY <3>2, <3>3
  <2>2. ASSUME NEW e \in Editors, Invalidate(e) PROVE faults' > faults
    <3>1. CASE Fault
      BY <3>1 DEF Fault, TypeOK
    <3>2. CASE ~Fault
      <4>1. /\ editor[e] # Idle
            /\ cache' = [cache EXCEPT ![Standing(editor[e])] = NoEntry]
            /\ db' = db
        BY <2>2, <3>2 DEF Invalidate
      <4>2. t # Standing(editor[e])
        BY <4>1 DEF Stale, TypeOK
      <4>3. ~Owed(t)
        BY <2>2, <4>2, OwedAfterInvalidate DEF Stale
      <4> QED
        BY <4>1, <4>2, <4>3 DEF Stale, TypeOK
    <3> QED
      BY <3>1, <3>2
  <2>3. ASSUME NEW e \in Editors, EditInterrupted(e) PROVE faults' > faults
    BY <2>3 DEF EditInterrupted, Fault, TypeOK
  <2>4. ASSUME NEW r \in Readers, SetTyped(r) PROVE faults' > faults \/ LateSet(t)
    <3>1. CASE Fault
      BY <3>1 DEF Fault, TypeOK
    <3>2. CASE ~Fault
      <4>1. cache' = [cache EXCEPT ![Topic(r)] = reader[r].seen] /\ Reads(r, "set")
        BY <2>4, <3>2 DEF SetTyped
      <4>2. Owed(t)' <=> Owed(t)
        BY <2>4 DEF SetTyped, Owed
      <4>3. db' = db
        BY <2>4 DEF SetTyped
      <4>4. Topic(r) = t
        BY <4>1, <4>2, <4>3 DEF Stale, TypeOK
      <4>5. cache'[t] = reader[r].seen
        BY <4>1, <4>4 DEF TypeOK
      <4>6. reader[r].seen # db[t]
        BY <4>3, <4>5 DEF Stale
      <4> QED
        BY <4>1, <4>4, <4>5, <4>6 DEF LateSet
    <3> QED
      BY <3>1, <3>2
  <2>5. ASSUME NEW u \in Topics, Expire(u) PROVE FALSE
    <3>1. Owed(t)' <=> Owed(t)
      BY <2>5 DEF Expire, Owed
    <3> QED
      BY <2>5, <3>1 DEF Expire, Stale, TypeOK
  <2>6. ASSUME UNCHANGED <<db, cache, editor>> PROVE FALSE
    <3>1. Owed(t)' <=> Owed(t)
      BY <2>6 DEF Owed
    <3> QED
      BY <2>6, <3>1 DEF Stale
  <2>7. ASSUME NEW r \in Readers,
               StartRead(r) \/ GetHit(r) \/ GetMiss(r) \/ Select(r) \/ SelectFails(r)
        PROVE  UNCHANGED <<db, cache, editor>>
    BY <2>7 DEF StartRead, GetHit, GetMiss, Select, SelectFails
  <2> QED
    BY <2>1, <2>2, <2>3, <2>4, <2>5, <2>6, <2>7 DEF Next, vars
<1>2. TypeOK /\ [Next]_vars => [Caused]_vars
  BY <1>1
<1> QED
  BY <1>2, CacheTypeCorrect, PTL DEF Spec, StaleHasACause

-----------------------------------------------------------------------------
(* The PDFs.  A request takes whatever line comes out of the process as    *)
(* its own.  What makes it so is that at most one line is anywhere between *)
(* the two pipes and the goroutines that scan: nobody writes before the    *)
(* line of the last one was taken, or the process was started again.       *)

PdfSteps == {"idle", "waits", "writes", "reads", "saves", "done", "failed"}
PdfQuiet == todo = <<>> /\ out = <<>> /\ readers = {}
PdfLine(r, ok) == Pdf!Line(r, ok)
PdfAnswerOf(r, line) == \E ok \in BOOLEAN : line = PdfLine(r, ok) /\ (ok => r \in made)

\* Where the line of the request that reads may be.
PdfSent(r) == alive /\ todo = <<r>> /\ out = <<>> /\ readers = {r} /\ ch[r] = Pdf!Nothing
PdfServed(r) ==
    /\ todo = <<>> /\ readers = {r} /\ ch[r] = Pdf!Nothing
    /\ \E line \in {PdfLine(r, ok) : ok \in BOOLEAN} : out = <<line>> /\ PdfAnswerOf(r, line)
PdfLost(r) == ~alive /\ todo = <<>> /\ out = <<>> /\ readers = {r} /\ ch[r] = Pdf!Nothing
PdfScanned(r) == PdfQuiet /\ (ch[r] = Pdf!EOF \/ PdfAnswerOf(r, ch[r]))

PdfShape ==
    /\ req \in [PdfRequests -> PdfSteps]
    /\ DOMAIN ch = PdfRequests
    /\ ch = [r \in PdfRequests |-> ch[r]]
    /\ \A r \in PdfRequests : req[r] \in {"writes", "reads"} <=> lock = r
    /\ \A r \in PdfRequests : req[r] \in {"idle", "waits", "writes"} => ch[r] = Pdf!Nothing

PdfInv ==
    /\ PdfShape
    /\ (\A r \in PdfRequests : req[r] # "reads") => PdfQuiet
    /\ \A r \in PdfRequests :
         req[r] = "reads" => PdfSent(r) \/ PdfServed(r) \/ PdfLost(r) \/ PdfScanned(r)
    /\ \A r \in PdfRequests : req[r] = "saves" => r \in made
    /\ PathHasItsFile

\* A pipe with one line in it.
LEMMA OneLine ==
    ASSUME NEW x
    PROVE  /\ <<x>> # <<>> /\ Head(<<x>>) = x /\ Tail(<<x>>) = <<>>
           /\ Append(<<>>, x) = <<x>>
  OBVIOUS

LEMMA PdfInit == Pdf!Init => PdfInv
  BY NobodyAsks DEF Pdf!Init, PdfInv, PdfShape, PdfSteps, PdfQuiet, PathHasItsFile, Pdf!PathHasItsFile

\* Steps that leave pipes, goroutines and whoever reads as they are.
LEMMA PdfAside ==
    ASSUME PdfInv, NEW r \in PdfRequests,
           Pdf!Ask(r) \/ Pdf!Deadline(r) \/ Pdf!Lock(r) \/ Pdf!Save(r)
    PROVE  PdfInv'
  <1> USE NobodyAsks DEF PdfInv, PdfShape, PdfSteps, Pdf!process
  <1>1. UNCHANGED <<alive, todo, out, readers, ch, made>>
    BY DEF Pdf!Ask, Pdf!Deadline, Pdf!Lock, Pdf!Save
  <1>2. PdfShape'
    BY DEF Pdf!Ask, Pdf!Deadline, Pdf!Lock, Pdf!Save, Pdf!Leaves
  <1>3. \A q \in PdfRequests : req'[q] = "reads" <=> req[q] = "reads"
    BY DEF Pdf!Ask, Pdf!Deadline, Pdf!Lock, Pdf!Save, Pdf!Leaves
  <1>4. \A q \in PdfRequests : req'[q] = "saves" => req[q] = "saves"
    BY DEF Pdf!Ask, Pdf!Deadline, Pdf!Lock, Pdf!Save, Pdf!Leaves
  <1>5. saved' \subseteq made
    BY DEF Pdf!Ask, Pdf!Deadline, Pdf!Lock, Pdf!Save, PathHasItsFile, Pdf!PathHasItsFile
  <1> QED
    BY <1>1, <1>2, <1>3, <1>4, <1>5
       DEF PdfQuiet, PdfSent, PdfServed, PdfLost, PdfScanned, PdfAnswerOf, PathHasItsFile, Pdf!PathHasItsFile

\* The request that holds the mutex is the only one that reads.
LEMMA PdfAlone ==
    ASSUME PdfInv, NEW r \in PdfRequests, lock = r,
           NEW q \in PdfRequests, req[q] = "reads"
    PROVE  q = r
  BY DEF PdfInv, PdfShape

LEMMA PdfWrites ==
    ASSUME PdfInv, NEW r \in PdfRequests,
           Pdf!Write(r) \/ Pdf!WriteFails(r)
    PROVE  PdfInv'
  <1> USE NobodyAsks DEF PdfInv
  <1>1. req[r] = "writes" /\ lock = r
    BY DEF Pdf!Write, Pdf!WriteFails, PdfShape
  <1>2. PdfQuiet
    BY <1>1, PdfAlone
  <1>3. PdfShape'
    BY <1>1 DEF Pdf!Write, Pdf!WriteFails, Pdf!Leaves, PdfShape, PdfSteps
  <1>4. \A q \in PdfRequests : req'[q] = "reads" => q = r
    BY <1>1, PdfAlone DEF Pdf!Write, Pdf!WriteFails, Pdf!Leaves, PdfShape
  <1>5. \/ req'[r] = "reads" /\ PdfSent(r)'
        \/ req'[r] = "failed" /\ PdfQuiet'
    <2>1. CASE Pdf!Write(r)
      <3>1. todo' = <<r>> /\ readers' = {r}
        BY <1>2, <2>1, OneLine DEF Pdf!Write, PdfQuiet
      <3> QED
        BY <1>1, <1>2, <2>1, <3>1 DEF Pdf!Write, PdfSent, PdfQuiet, PdfShape
    <2>2. CASE Pdf!WriteFails(r)
      BY <1>1, <2>2 DEF Pdf!WriteFails, Pdf!Leaves, PdfSent, PdfQuiet, PdfShape
    <2> QED
      BY <2>1, <2>2
  <1>6. UNCHANGED <<made, saved>> /\ \A q \in PdfRequests : req'[q] = "saves" => req[q] = "saves"
    BY DEF Pdf!Write, Pdf!WriteFails, Pdf!Leaves, PdfShape
  <1> QED
    BY <1>3, <1>4, <1>5, <1>6 DEF PathHasItsFile, Pdf!PathHasItsFile

\* What the process and the goroutine of the request do with its line.
LEMMA PdfServes ==
    ASSUME PdfInv,
           \/ \E ok \in BOOLEAN : Pdf!Serve(ok)
           \/ Pdf!Dies
           \/ \E q \in PdfRequests : Pdf!Scan(q)
    PROVE  PdfInv'
  <1> USE NobodyAsks DEF PdfInv
  <1>1. todo # <<>> \/ out # <<>> \/ readers # {} \/ Pdf!Dies
    BY DEF Pdf!Serve, Pdf!Scan
  <1>2. CASE \A q \in PdfRequests : req[q] # "reads"
    <2>1. PdfQuiet /\ Pdf!Dies
      BY <1>1, <1>2 DEF PdfQuiet
    <2> QED
      BY <1>2, <2>1 DEF Pdf!Dies, PdfQuiet, PdfShape, PathHasItsFile, Pdf!PathHasItsFile
  <1>3. ASSUME NEW r \in PdfRequests, req[r] = "reads" PROVE PdfInv'
    <2>1. lock = r
      BY <1>3 DEF PdfShape
    <2>2. \A q \in PdfRequests : req[q] = "reads" => q = r
      BY <2>1, PdfAlone
    <2>3. UNCHANGED <<req, lock, saved>>
      BY DEF Pdf!Serve, Pdf!Dies, Pdf!Scan
    <2>4. made \subseteq made'
      BY DEF Pdf!Serve, Pdf!Dies, Pdf!Scan
    <2>5. \A q \in readers : q = r
      BY <1>3, <2>1 DEF PdfSent, PdfServed, PdfLost, PdfScanned, PdfQuiet
    <2>6. PdfShape'
      BY <1>3, <2>3, <2>5 DEF Pdf!Serve, Pdf!Dies, Pdf!Scan, PdfShape
    <2>7. PdfSent(r)' \/ PdfServed(r)' \/ PdfLost(r)' \/ PdfScanned(r)'
      <3>1. CASE PdfSent(r)
        <4>1. ASSUME NEW ok \in BOOLEAN, Pdf!Serve(ok) PROVE PdfServed(r)'
          <5>1. todo' = <<>> /\ out' = <<PdfLine(r, ok)>> /\ (ok => r \in made')
            BY <3>1, <4>1, OneLine DEF PdfSent, Pdf!Serve, PdfLine
          <5> QED
            BY <3>1, <4>1, <5>1 DEF PdfSent, Pdf!Serve, PdfServed, PdfAnswerOf
        <4>2. Pdf!Dies => PdfLost(r)'
          BY <3>1 DEF PdfSent, Pdf!Dies, PdfLost
        <4>3. ~ \E q \in PdfRequests : Pdf!Scan(q)
          BY <3>1 DEF PdfSent, Pdf!Scan
        <4> QED
          BY <4>1, <4>2, <4>3
      <3>2. CASE PdfServed(r)
        <4>1. ASSUME NEW ok \in BOOLEAN, Pdf!Serve(ok) PROVE FALSE
          BY <3>2, <4>1 DEF PdfServed, Pdf!Serve
        <4>2. Pdf!Dies => PdfServed(r)'
          BY <3>2 DEF PdfServed, Pdf!Dies, PdfAnswerOf
        <4>3. ASSUME NEW q \in PdfRequests, Pdf!Scan(q) PROVE PdfScanned(r)'
          <5>1. PICK line \in {PdfLine(r, ok) : ok \in BOOLEAN} :
                   out = <<line>> /\ PdfAnswerOf(r, line)
            BY <3>2 DEF PdfServed
          <5>2. q = r /\ out # <<>> /\ Head(out) = line /\ Tail(out) = <<>>
            BY <2>5, <4>3, <5>1, OneLine DEF Pdf!Scan
          <5>3. out' = <<>> /\ ch'[r] = line
            BY <4>3, <5>2 DEF Pdf!Scan, PdfShape
          <5> QED
            BY <3>2, <4>3, <5>1, <5>2, <5>3
               DEF PdfServed, Pdf!Scan, PdfScanned, PdfQuiet, PdfAnswerOf
        <4> QED
          BY <4>1, <4>2, <4>3
      <3>3. CASE PdfLost(r)
        <4>1. ASSUME NEW q \in PdfRequests, Pdf!Scan(q) PROVE PdfScanned(r)'
          BY <2>5, <3>3, <4>1 DEF PdfLost, Pdf!Scan, PdfScanned, PdfQuiet, PdfShape
        <4> QED
          BY <3>3, <4>1 DEF PdfLost, Pdf!Serve, Pdf!Dies
      <3>4. CASE PdfScanned(r)
        BY <3>4 DEF PdfScanned, PdfQuiet, Pdf!Serve, Pdf!Dies, Pdf!Scan, PdfAnswerOf
      <3> QED
        BY <1>3, <3>1, <3>2, <3>3, <3>4
    <2> QED
      BY <1>3, <2>2, <2>3, <2>4, <2>6, <2>7 DEF PathHasItsFile, Pdf!PathHasItsFile
  <1> QED
    BY <1>2, <1>3

LEMMA PdfEnds ==
    ASSUME PdfInv, NEW r \in PdfRequests,
           Pdf!Answered(r) \/ Pdf!AnswerEnds(r) \/ Pdf!Expires(r)
    PROVE  PdfInv'
  <1> USE NobodyAsks DEF PdfInv
  <1>1. req[r] = "reads" /\ lock = r
    BY DEF Pdf!Answered, Pdf!AnswerEnds, Pdf!Expires, PdfShape
  <1>2. PdfShape'
    BY <1>1 DEF Pdf!Answered, Pdf!AnswerEnds, Pdf!Expires, Pdf!Leaves, PdfShape, PdfSteps
  <1>3. \A q \in PdfRequests : req'[q] # "reads"
    BY <1>1, PdfAlone DEF Pdf!Answered, Pdf!AnswerEnds, Pdf!Expires, Pdf!Leaves, PdfShape
  <1>4. UNCHANGED <<made, saved>> /\ \A q \in PdfRequests \ {r} : req'[q] = req[q]
    BY DEF Pdf!Answered, Pdf!AnswerEnds, Pdf!Expires, Pdf!Leaves, PdfShape
  <1>5. PdfQuiet' /\ (req'[r] = "saves" => r \in made)
    <2>1. CASE Pdf!Answered(r)
      <3>1. ch[r].is = "line"
        BY <2>1 DEF Pdf!Answered
      <3>2. PdfScanned(r) /\ PdfAnswerOf(r, ch[r])
        BY <1>1, <3>1 DEF PdfSent, PdfServed, PdfLost, PdfScanned, Pdf!Nothing, Pdf!EOF
      <3>3. PICK ok \in BOOLEAN : ch[r] = PdfLine(r, ok) /\ (ok => r \in made)
        BY <3>2 DEF PdfAnswerOf
      <3>4. ch[r].ok = ok
        BY <3>3 DEF PdfLine, Pdf!Line
      <3> QED
        BY <1>1, <2>1, <3>2, <3>3, <3>4
           DEF Pdf!Answered, Pdf!Leaves, Pdf!process, PdfScanned, PdfQuiet, PdfShape
    <2>2. CASE Pdf!AnswerEnds(r) \/ Pdf!Expires(r)
      BY <1>1, <2>2 DEF Pdf!AnswerEnds, Pdf!Expires, Pdf!Restart, Pdf!Leaves, PdfQuiet, PdfShape
    <2> QED
      BY <2>1, <2>2
  <1> QED
    BY <1>2, <1>3, <1>4, <1>5 DEF PathHasItsFile, Pdf!PathHasItsFile

\* However requests expire, the process dies or is started again, the path that
\* GeneratePDF saves (handler/generate_resume.go) is that of a PDF that was made:
\* the answer a request takes from PDFService is its own.
THEOREM PathHasItsFileHolds == Pdf!Spec => []PathHasItsFile
  <1>1. Pdf!Init => PdfInv
    BY PdfInit
  <1>2. PdfInv /\ [Pdf!Next]_(Pdf!vars) => PdfInv'
    <2> SUFFICES ASSUME PdfInv, [Pdf!Next]_(Pdf!vars) PROVE PdfInv'
      OBVIOUS
    <2>1. CASE UNCHANGED Pdf!vars
      BY <2>1 DEF Pdf!vars, PdfInv, PdfShape, PdfQuiet, PdfSent, PdfServed, PdfLost,
                  PdfScanned, PdfAnswerOf, PathHasItsFile, Pdf!PathHasItsFile
    <2>2. CASE Pdf!Next
      BY <2>2, PdfAside, PdfWrites, PdfServes, PdfEnds DEF Pdf!Next
    <2> QED
      BY <2>1, <2>2
  <1>3. PdfInv => PathHasItsFile
    BY DEF PdfInv
  <1> QED
    BY <1>1, <1>2, <1>3, PTL DEF Pdf!Spec

-----------------------------------------------------------------------------
(* The bell.  The mark takes the moment of the request, so what the list   *)
(* had to have must be on the screen by then.  It is, because every new    *)
(* post that had to be in the list was in it (ExpectedIsListed), and what  *)
(* becomes new afterwards is a row with an id of its own.                  *)

BellShape ==
    /\ births \in Nat
    /\ \A i \in catalogue : i.post \in Posts /\ i.n \in Nat /\ i.n <= births
    /\ \A i \in due : i.n \in Nat /\ i.n <= births
    /\ active \subseteq catalogue

BellInv ==
    /\ BellShape
    /\ due \cap fresh \subseteq page \cup shown
    /\ SeenWasShown

\* Posts that rankedJobs groups are posts of one vacancy.
LEMMA KeyTellsVacancies ==
    ASSUME NEW p, NEW q, Bell!Key(p) = Bell!Key(q)
    PROVE  Bell!SameVacancy(p, q)
  <1>1. ASSUME NEW a, NEW b, NEW c PROVE <<a>> # <<b, c>>
    <2>1. Len(<<a>>) = 1 /\ Len(<<b, c>>) = 2
      OBVIOUS
    <2> QED
      BY <2>1
  <1>2. p.company = "" <=> q.company = ""
    BY <1>1 DEF Bell!Key
  <1>3. CASE p.company = ""
    BY <1>2, <1>3 DEF Bell!Key, Bell!SameVacancy
  <1>4. CASE p.company # ""
    BY <1>2, <1>4 DEF Bell!Key, Bell!SameVacancy
  <1> QED
    BY <1>3, <1>4

\* The list has every new post that a reader would expect in it.
LEMMA ExpectedIsListed ==
    ASSUME BellShape
    PROVE  Bell!Expected \subseteq Bell!NewAlerts
  <1> SUFFICES ASSUME NEW i \in Bell!Expected PROVE i \in Bell!NewAlerts
    OBVIOUS
  <1>1. i \in fresh /\ i \in active /\ i \notin dismissed /\ i.post.matches
    BY DEF Bell!Expected
  <1>2. ASSUME NEW j \in active, Bell!Key(j.post) = Bell!Key(i.post)
        PROVE  j.post.date <= i.post.date
    <2>1. j.post.date \in Nat /\ i.post.date \in Nat
      BY <1>1, DatesAreNumbers DEF BellShape
    <2>2. Bell!SameVacancy(i.post, j.post)
      BY <1>2, KeyTellsVacancies
    <2>3. j = i \/ ~(j.post.date > i.post.date)
      BY <2>2 DEF Bell!Expected
    <2> QED
      BY <2>1, <2>3
  <1>3. Bell!First(i)
    BY <1>2 DEF Bell!First, Bell!StandsFor, Bell!ListCandidates
  <1> QED
    BY <1>1, <1>3 DEF Bell!NewAlerts, Bell!RankedJobs, Bell!ListCandidates

LEMMA BellShapeKept == BellShape /\ [Bell!Next]_(Bell!vars) => BellShape'
  <1> SUFFICES ASSUME BellShape, [Bell!Next]_(Bell!vars) PROVE BellShape'
    OBVIOUS
  <1> USE DEF BellShape, Bell!server, Bell!browser
  <1>1. ASSUME NEW p \in Posts, Bell!Save(p) PROVE BellShape'
    <2>1. CASE Bell!IdsOf(p) = {}
      BY <1>1, <2>1 DEF Bell!Save, Bell!DiscoveryUpsertJob
    <2>2. CASE Bell!IdsOf(p) # {}
      BY <1>1, <2>2 DEF Bell!Save, Bell!DiscoveryUpsertJob, Bell!IdsOf
    <2> QED
      BY <2>1, <2>2
  <1>2. ASSUME NEW i \in catalogue,
               \/ Bell!GoInactive(i) \/ Bell!DeleteStale(i) \/ Bell!Dismiss(i)
               \/ Bell!Undismiss(i) \/ Bell!DayPasses(i)
        PROVE  BellShape'
    BY <1>2 DEF Bell!GoInactive, Bell!DeleteStale, Bell!DiscoveryDeleteStale, Bell!Dismiss,
                Bell!Undismiss, Bell!DayPasses
  <1>3. ASSUME NEW open \in BOOLEAN, Bell!LoadAlerts(open) PROVE BellShape'
    BY <1>3 DEF Bell!LoadAlerts, Bell!Expected
  <1>4. CASE Bell!OpenPanel \/ Bell!MarkAlertsSeen \/ Bell!MarkFails \/ Bell!SaveAlerts
    BY <1>4 DEF Bell!OpenPanel, Bell!MarkAlertsSeen, Bell!MarkFails, Bell!SaveAlerts
  <1>5. CASE UNCHANGED Bell!vars
    BY <1>5 DEF Bell!vars
  <1> QED
    BY <1>1, <1>2, <1>3, <1>4, <1>5 DEF Bell!Next

\* Whatever enters or leaves the catalogue, is dismissed or taken back, is
\* grouped under another post or loaded again: when MarkAlertsSeen
\* (handler/discovery_alerts.go) moves the mark, no vacancy is passed over that
\* the list had to have and that the user was not shown.
THEOREM SeenWasShownHolds == Bell!Spec => []SeenWasShown
  <1>1. Bell!Init => BellInv
    BY DEF Bell!Init, BellInv, BellShape, SeenWasShown, Bell!SeenWasShown
  <1>2. BellInv /\ [Bell!Next]_(Bell!vars) => BellInv'
    <2> SUFFICES ASSUME BellInv, [Bell!Next]_(Bell!vars)
                 PROVE  /\ due' \cap fresh' \subseteq page' \cup shown'
                        /\ asked' => due' \cap fresh' \subseteq shown'
      BY BellShapeKept DEF BellInv, SeenWasShown, Bell!SeenWasShown
    <2> USE DEF BellInv, SeenWasShown, Bell!SeenWasShown, Bell!server, Bell!browser
    <2>1. ASSUME NEW p \in Posts, Bell!Save(p) PROVE due' \cap fresh' = due \cap fresh
      <3> DEFINE new == [post |-> p, n |-> births + 1]
      <3>1. new \notin due
        BY DEF BellShape
      <3>2. fresh' = fresh \/ fresh' = fresh \cup {new}
        BY <2>1 DEF Bell!Save, Bell!DiscoveryUpsertJob
      <3>3. due' = due
        BY <2>1 DEF Bell!Save
      <3> QED
        BY <3>1, <3>2, <3>3
    <2>2. ASSUME NEW p \in Posts, Bell!Save(p) PROVE UNCHANGED <<page, shown, asked>>
      BY <2>2 DEF Bell!Save
    <2>3. ASSUME NEW i \in catalogue,
                 Bell!GoInactive(i) \/ Bell!Dismiss(i) \/ Bell!Undismiss(i) \/ Bell!DayPasses(i)
          PROVE  fresh' \subseteq fresh /\ UNCHANGED <<due, page, shown, asked>>
      BY <2>3 DEF Bell!GoInactive, Bell!Dismiss, Bell!Undismiss, Bell!DayPasses
    <2>4. ASSUME NEW i \in catalogue, Bell!DeleteStale(i)
          PROVE  /\ fresh' = fresh \ {i} /\ due' = due \ {i} /\ shown' = shown \ {i}
                 /\ UNCHANGED <<page, asked>>
      BY <2>4 DEF Bell!DeleteStale, Bell!DiscoveryDeleteStale
    <2>5. ASSUME NEW open \in BOOLEAN, Bell!LoadAlerts(open)
          PROVE  /\ due' \cap fresh' \subseteq page' \cup shown'
                 /\ asked' => due' \cap fresh' \subseteq shown'
      <3>1. CASE asked
        BY <2>5, <3>1 DEF Bell!LoadAlerts
      <3>2. CASE ~asked
        <4>1. Bell!Expected \subseteq Bell!NewAlerts
          BY ExpectedIsListed
        <4>2. due' \subseteq page' /\ ~asked'
          BY <2>5, <3>2, <4>1 DEF Bell!LoadAlerts
        <4> QED
          BY <4>2
      <3> QED
        BY <3>1, <3>2
    <2>6. CASE Bell!OpenPanel \/ Bell!MarkAlertsSeen \/ Bell!MarkFails \/ Bell!SaveAlerts
      BY <2>6 DEF Bell!OpenPanel, Bell!MarkAlertsSeen, Bell!AlertsMarkSeen, Bell!MarkFails, Bell!SaveAlerts
    <2>7. CASE UNCHANGED Bell!vars
      BY <2>7 DEF Bell!vars
    <2> QED
      BY <2>1, <2>2, <2>3, <2>4, <2>5, <2>6, <2>7 DEF Bell!Next
  <1>3. BellInv => SeenWasShown
    BY DEF BellInv
  <1> QED
    BY <1>1, <1>2, <1>3, PTL DEF Bell!Spec

-----------------------------------------------------------------------------
(* The board.  A request computes the stage from the marks it sees and     *)
(* commits it later; what it saw is still the history by then because it   *)
(* holds the row.  The stage is a mark of the history, and not any value,  *)
(* because marks have a last one: no two were created at one time.         *)

Asking == {"begin", "own", "change", "recompute"}
TxForm(t) ==
    \/ t = Applications!Idle
    \/ t.at \in Asking /\ t = [at |-> t.at, add |-> t.add, del |-> t.del]
    \/ t.at = "commit" /\ t = [at |-> "commit", add |-> t.add, del |-> t.del, stage |-> t.stage]
    \/ t = [at |-> "job", moved |-> FALSE]
    \/ t.at = "events" /\ t = [at |-> "events", stage |-> t.stage, moved |-> t.moved]
    \/ t.at = "answered" /\ t = [at |-> "answered", stage |-> t.stage,
                                 events |-> t.events, moved |-> t.moved]
BoardForm ==
    /\ tx = [r \in Requests |-> tx[r]]
    /\ \A r \in Requests : TxForm(tx[r])

\* Who holds the row, and that it is there.
Holding == {"change", "recompute", "commit"}
Holds(r) == tx[r].at \in Holding
BoardLock ==
    /\ \A r \in Requests : Holds(r) <=> locked = r
    /\ \A r \in Requests : locked = r => ~Applications!Gone

\* Marks have numbers for moments, and each a moment of creation of its own.
Writing(r) == Holds(r) \/ tx[r].at = "own"
Mark(e) == e.happened \in Nat /\ e.created \in Nat /\ e.created <= clock
Single(es) == \A d, e \in es : d = e
Apart(ds, es) == \A d \in ds, e \in es : d.created # e.created
Earlier(d, e) ==
    d.happened < e.happened \/ (d.happened = e.happened /\ d.created < e.created)
IsLast(e, es) == e \in es /\ \A d \in es \ {e} : Earlier(d, e)
HaveLast(es) == \A s \in SUBSET es : s # {} => \E e \in s : IsLast(e, s)

BoardMarks ==
    /\ clock \in Nat
    /\ \A e \in events : Mark(e)
    /\ HaveLast(events)
    /\ \A r \in Requests : tx[r].at = "begin" =>
         Single(tx[r].add) /\ \A e \in tx[r].add : e.happened \in Nat
    /\ \A r \in Requests : Writing(r) =>
         /\ Single(tx[r].add) /\ Apart(tx[r].add, events)
         /\ \A e \in tx[r].add : Mark(e)
         /\ \A q \in Requests : q # r /\ Writing(q) => Apart(tx[r].add, tx[q].add)

BoardStages ==
    /\ Applications!StageIsTheLast
    /\ \A r \in Requests : tx[r].at = "commit" =>
         tx[r].stage = Applications!StageOf(Applications!Visible(r))
    /\ \A r \in Requests : tx[r].at = "events" /\ ~tx[r].moved =>
         tx[r].stage = Applications!StageOf(events)
    /\ Applications!AnswerAgrees

BoardInv == BoardForm /\ BoardLock /\ BoardMarks /\ BoardStages

-----------------------------------------------------------------------------
\* One more mark, created at a time of its own, leaves a last one; so does one less.
LEMMA HaveLastOfMore ==
    ASSUME NEW es, HaveLast(es), NEW add, Single(add), NEW del, Apart(add, es),
           \A e \in es \cup add : e.happened \in Nat /\ e.created \in Nat
    PROVE  HaveLast((es \cup add) \ del)
  <1> SUFFICES ASSUME NEW s \in SUBSET (es \cup add), s # {} PROVE \E e \in s : IsLast(e, s)
    BY DEF HaveLast
  <1>1. CASE s \subseteq es
    BY <1>1 DEF HaveLast
  <1>2. ASSUME NEW e \in s, e \in add PROVE \E l \in s : IsLast(l, s)
    <2> DEFINE rest == s \ {e}
    <2>1. rest \in SUBSET es
      BY <1>2 DEF Single
    <2>2. CASE rest = {}
      BY <2>2 DEF IsLast
    <2>3. CASE rest # {}
      <3>1. PICK l \in rest : IsLast(l, rest)
        BY <2>1, <2>3 DEF HaveLast
      <3>2. l.created # e.created
        BY <1>2, <2>1 DEF Apart
      <3>3. \A d \in s : d.happened \in Nat /\ d.created \in Nat
        OBVIOUS
      <3>4. Earlier(l, e) \/ Earlier(e, l)
        BY <3>2, <3>3 DEF Earlier
      <3>5. ASSUME Earlier(l, e), NEW d \in rest PROVE Earlier(d, e)
        BY <3>1, <3>3, <3>5 DEF IsLast, Earlier
      <3>6. Earlier(l, e) => IsLast(e, s)
        BY <3>5 DEF IsLast
      <3>7. Earlier(e, l) => IsLast(l, s)
        BY <3>1 DEF IsLast
      <3> QED
        BY <3>4, <3>6, <3>7
    <2> QED
      BY <2>2, <2>3
  <1> QED
    BY <1>1, <1>2

\* The last of some marks is one of them.
LEMMA LatestIsOne ==
    ASSUME NEW es, HaveLast(es), NEW s \in SUBSET es, s # {}
    PROVE  Applications!Latest(s) \in s
  BY DEF HaveLast, IsLast, Earlier, Applications!Latest

\* A stage that is shown was marked.
LEMMA StageWasMarked ==
    ASSUME NEW es, HaveLast(es), Applications!StageOf(es) # ""
    PROVE  \E e \in es : e.stage = Applications!StageOf(es)
  <1> DEFINE changes == {e \in es : e.stage # "note"}
  <1>1. changes # {} /\ Applications!StageOf(es) = Applications!Latest(changes).stage
    BY DEF Applications!StageOf
  <1>2. changes \subseteq es
    OBVIOUS
  <1> HIDE DEF changes
  <1>3. Applications!Latest(changes) \in changes
    BY <1>1, <1>2, LatestIsOne
  <1> QED
    BY <1>1, <1>2, <1>3

LEMMA BoardInit == Applications!Init => BoardInv
  <1> SUFFICES ASSUME Applications!Init PROVE BoardInv
    OBVIOUS
  <1> USE NobodyAsks DEF Applications!Init
  <1>1. BoardForm
    BY DEF BoardForm, TxForm
  <1>2. \A r \in Requests : tx[r].at = "idle"
    BY DEF Applications!Idle
  <1>3. BoardLock
    BY <1>2 DEF BoardLock, Holds, Holding
  <1>4. BoardMarks
    BY <1>2 DEF BoardMarks, Holds, Holding, Writing, HaveLast
  <1>5. BoardStages
    BY <1>2 DEF BoardStages, Applications!StageIsTheLast, Applications!AnswerAgrees,
                Applications!At, Applications!StageOf
  <1> QED
    BY <1>1, <1>3, <1>4, <1>5 DEF BoardInv

\* A step of one request that leaves the row and the marks of others alone keeps
\* what is said of the others.
Aside(r) ==
    /\ UNCHANGED <<stage, events>>
    /\ clock' \in Nat /\ clock <= clock'
    /\ tx' = [tx EXCEPT ![r] = tx'[r]]
    /\ TxForm(tx'[r])
    \* The row is only taken from nobody, and only given back by its holder.
    /\ tx'[r].at \in Holding <=> locked' = r
    /\ \A q \in Requests \ {r} : locked' = q <=> locked = q
    /\ locked' = r => ~Applications!Gone
    /\ tx'[r].at = "begin" =>
         Single(tx'[r].add) /\ \A e \in tx'[r].add : e.happened \in Nat
    \* What it writes is a new mark or the one it wrote before.
    /\ tx'[r].at \in Holding \cup {"own"} =>
         \/ Writing(r) /\ tx'[r].add = tx[r].add
         \/ tx'[r].add = {}
         \/ /\ Single(tx'[r].add) /\ clock < clock'
            /\ \A e \in tx'[r].add : e.happened \in Nat /\ e.created = clock'
    /\ tx'[r].at = "commit" =>
         tx'[r].stage = Applications!StageOf((events \cup tx'[r].add) \ tx'[r].del)
    /\ tx'[r].at = "events" /\ ~tx'[r].moved => tx'[r].stage = Applications!StageOf(events)
    /\ tx'[r].at = "answered" /\ ~tx'[r].moved =>
         tx'[r].stage = Applications!StageOf(tx'[r].events)

LEMMA BoardAside ==
    ASSUME BoardInv, NEW r \in Requests, Aside(r)
    PROVE  BoardInv'
  <1> USE DEF BoardInv, Aside
  <1>1. /\ tx' = [q \in Requests |-> IF q = r THEN tx'[r] ELSE tx[q]]
        /\ \A q \in Requests \ {r} : tx'[q] = tx[q]
    BY DEF BoardForm
  <1>2. BoardForm'
    BY <1>1 DEF BoardForm
  <1>3. BoardLock'
    BY <1>1 DEF BoardLock, Holds, Holding, Applications!Gone
  <1>4. BoardMarks'
    <2>1. \A e : Mark(e) => Mark(e)'
      BY DEF BoardMarks, Mark
    <2>2. \A q \in Requests \ {r} : Writing(q)' <=> Writing(q)
      BY <1>1 DEF Writing, Holds, Holding
    <2>3. Writing(r)' =>
            /\ Single(tx'[r].add) /\ Apart(tx'[r].add, events)
            /\ \A e \in tx'[r].add : Mark(e)'
            /\ \A q \in Requests \ {r} : Writing(q) => Apart(tx'[r].add, tx[q].add)
      <3>1. CASE Writing(r) /\ tx'[r].add = tx[r].add
        BY <2>1, <3>1 DEF BoardMarks
      <3>2. CASE tx'[r].add = {}
        BY <3>2 DEF Single, Apart
      <3>3. ASSUME Single(tx'[r].add), clock < clock',
                   \A e \in tx'[r].add : e.happened \in Nat /\ e.created = clock'
            PROVE  /\ Apart(tx'[r].add, events)
                   /\ \A e \in tx'[r].add : Mark(e)'
                   /\ \A q \in Requests \ {r} : Writing(q) => Apart(tx'[r].add, tx[q].add)
        BY <3>3 DEF BoardMarks, Mark, Apart
      <3> QED
        BY <3>1, <3>2, <3>3 DEF Writing, Holds, Holding
    <2>4. clock' \in Nat /\ HaveLast(events)' /\ \A e \in events' : Mark(e)'
      BY <2>1 DEF BoardMarks, HaveLast, IsLast
    <2>5. \A q \in Requests : tx'[q].at = "begin" =>
             Single(tx'[q].add) /\ \A e \in tx'[q].add : e.happened \in Nat
      BY <1>1 DEF BoardMarks
    <2>6. ASSUME NEW q \in Requests, Writing(q)'
          PROVE  /\ Single(tx'[q].add) /\ Apart(tx'[q].add, events)
                 /\ \A e \in tx'[q].add : Mark(e)'
                 /\ \A p \in Requests : p # q /\ Writing(p)' => Apart(tx'[q].add, tx'[p].add)
      <3>1. CASE q = r
        BY <1>1, <2>2, <2>3, <2>6, <3>1
      <3>2. CASE q # r
        <4>1. Writing(q) /\ tx'[q].add = tx[q].add
          BY <1>1, <2>2, <2>6, <3>2
        <4>2. Writing(r)' => Apart(tx[q].add, tx'[r].add)
          BY <2>3, <3>2, <4>1 DEF Apart
        <4> QED
          BY <1>1, <2>1, <2>2, <3>2, <4>1, <4>2 DEF BoardMarks
      <3> QED
        BY <3>1, <3>2
    <2> QED
      BY <2>4, <2>5, <2>6 DEF BoardMarks
  <1>5. BoardStages'
    <2>1. Applications!StageIsTheLast'
      BY DEF BoardStages, Applications!StageIsTheLast, Applications!Gone
    <2>2. ASSUME NEW q \in Requests, tx'[q].at = "commit"
          PROVE  tx'[q].stage = Applications!StageOf((events \cup tx'[q].add) \ tx'[q].del)
      BY <1>1, <2>2 DEF BoardStages, Applications!Visible
    <2>3. ASSUME NEW q \in Requests, tx'[q].at = "events", ~tx'[q].moved
          PROVE  tx'[q].stage = Applications!StageOf(events)
      BY <1>1, <2>3 DEF BoardStages
    <2>4. ASSUME NEW q \in Requests, tx'[q].at = "answered", ~tx'[q].moved
          PROVE  tx'[q].stage = Applications!StageOf(tx'[q].events)
      BY <1>1, <2>4 DEF BoardStages, Applications!AnswerAgrees, Applications!At
    <2> QED
      BY <2>1, <2>2, <2>3, <2>4
         DEF BoardStages, Applications!AnswerAgrees, Applications!At, Applications!Visible
  <1> QED
    BY <1>2, <1>3, <1>4, <1>5

-----------------------------------------------------------------------------
\* What a request wants is on its way as a transaction.
LEMMA BoardBegins ==
    ASSUME BoardInv, NEW r \in Requests,
           \/ \E mark \in Marked, today \in BOOLEAN : Applications!AddEvent(r, mark, today)
           \/ \E e \in events : Applications!DeleteEvent(r, e)
           \/ Applications!Begin(r)
    PROVE  BoardInv'
  <1> USE NobodyAsks DEF BoardInv
  <1>1. clock \in Nat /\ tx[r].at \in {"idle", "begin"} /\ ~Holds(r) /\ ~Writing(r)
    BY DEF BoardMarks, Applications!AddEvent, Applications!DeleteEvent, Applications!Begin,
           Applications!At, Applications!Idle, Holds, Holding, Writing
  <1>2. UNCHANGED <<stage, events, locked>>
    BY DEF Applications!AddEvent, Applications!DeleteEvent, Applications!Begin
  <1>3. locked # r
    BY <1>1 DEF BoardLock
  <1>4. ASSUME NEW mark \in Marked, NEW today \in BOOLEAN, Applications!AddEvent(r, mark, today)
        PROVE  BoardInv'
    <2> DEFINE add == {[stage |-> mark, happened |-> Applications!Dated(today)]}
    <2>1. tx'[r] = [at |-> "begin", add |-> add, del |-> {}]
      BY <1>4 DEF Applications!AddEvent, BoardForm
    <2>2. Single(add) /\ \A e \in add : e.happened \in Nat
      BY <1>1 DEF Single, Applications!Dated
    <2> HIDE DEF add
    <2>3. clock' = clock + 1 /\ tx' = [tx EXCEPT ![r] = tx'[r]]
      BY <1>4, <2>1 DEF Applications!AddEvent, add
    <2>4. TxForm(tx'[r]) /\ ~Holds(r)' /\ ~Writing(r)'
      BY <2>1 DEF TxForm, Asking, Holds, Holding, Writing
    <2>5. Aside(r)
      BY <1>1, <1>2, <1>3, <2>1, <2>2, <2>3, <2>4 DEF Aside, Holds, Holding, Writing
    <2> QED
      BY <2>5, BoardAside
  <1>5. ASSUME NEW e \in events, Applications!DeleteEvent(r, e) PROVE BoardInv'
    <2>1. tx'[r] = [at |-> "begin", add |-> {}, del |-> {e}]
      BY <1>5 DEF Applications!DeleteEvent, BoardForm
    <2>2. clock' = clock /\ tx' = [tx EXCEPT ![r] = tx'[r]]
      BY <1>5, <2>1 DEF Applications!DeleteEvent
    <2>3. TxForm(tx'[r]) /\ ~Holds(r)' /\ ~Writing(r)' /\ Single(tx'[r].add)
      BY <2>1 DEF TxForm, Asking, Holds, Holding, Writing, Single
    <2>4. Aside(r)
      BY <1>1, <1>2, <1>3, <2>1, <2>2, <2>3 DEF Aside, Holds, Holding, Writing
    <2> QED
      BY <2>4, BoardAside
  <1>6. CASE Applications!Begin(r)
    <2> DEFINE add == {[stage |-> e.stage, happened |-> e.happened, created |-> clock + 1] : e \in tx[r].add}
    <2>1. tx[r].at = "begin"
      BY <1>6 DEF Applications!Begin, Applications!At
    <2>2. tx'[r] = [at |-> "own", add |-> add, del |-> tx[r].del]
      BY <1>6 DEF Applications!Begin, BoardForm
    <2>3. tx' = [tx EXCEPT ![r] = tx'[r]]
      BY <1>6, <2>2 DEF Applications!Begin, BoardForm
    <2>4. clock' = IF tx[r].add = {} THEN clock ELSE clock + 1
      BY <1>6 DEF Applications!Begin
    <2>5. Single(add) /\ \A e \in add : e.happened \in Nat /\ e.created = clock + 1
      BY <2>1 DEF BoardMarks, Single
    <2>6. tx[r].add = {} => add = {}
      OBVIOUS
    <2> HIDE DEF add
    <2>7. TxForm(tx'[r]) /\ ~Holds(r)' /\ tx'[r].at = "own"
      BY <2>2 DEF TxForm, Asking, Holds, Holding
    <2>8. clock' \in Nat /\ clock <= clock'
      BY <1>1, <2>4
    <2>9. tx'[r].add = {} \/ (clock < clock' /\ \A e \in tx'[r].add : e.happened \in Nat /\ e.created = clock')
      BY <1>1, <2>2, <2>4, <2>5, <2>6
    <2>10. Aside(r)
      BY <1>2, <1>3, <2>2, <2>3, <2>5, <2>7, <2>8, <2>9 DEF Aside, Holds, Holding
    <2> QED
      BY <2>10, BoardAside
  <1> QED
    BY <1>4, <1>5, <1>6

\* The row is taken, the mark written or removed, the stage computed.
LEMMA BoardWorks ==
    ASSUME BoardInv, NEW r \in Requests,
           \/ Applications!JobOwned(r) /\ ~Applications!Gone
           \/ Applications!InsertEvent(r)
           \/ Applications!RemoveEvent(r) /\ tx[r].del \subseteq events
           \/ Applications!RecomputeStage(r)
    PROVE  BoardInv'
  <1> USE NobodyAsks DEF BoardInv
  <1>1. tx[r].at \in {"own", "change", "recompute"}
    BY DEF Applications!JobOwned, Applications!InsertEvent, Applications!RemoveEvent,
           Applications!RecomputeStage, Applications!At
  <1>2. tx[r] = [at |-> tx[r].at, add |-> tx[r].add, del |-> tx[r].del]
    BY <1>1 DEF BoardForm, TxForm, Applications!Idle, Asking
  <1>3. UNCHANGED <<stage, events, clock>>
    BY DEF Applications!JobOwned, Applications!InsertEvent, Applications!RemoveEvent,
           Applications!RecomputeStage
  <1>4. CASE Applications!RecomputeStage(r)
    <2>1. tx'[r] = [at |-> "commit", add |-> tx[r].add, del |-> tx[r].del,
                    stage |-> Applications!StageOf(Applications!Visible(r))]
      BY <1>4 DEF Applications!RecomputeStage, BoardForm
    <2>2. tx' = [tx EXCEPT ![r] = tx'[r]] /\ locked' = locked /\ Holds(r) /\ Holds(r)'
      BY <1>1, <1>4, <2>1 DEF Applications!RecomputeStage, Applications!At, Holds, Holding, BoardForm
    <2>3. TxForm(tx'[r]) /\ Writing(r) /\ tx'[r].add = tx[r].add
      BY <2>1, <2>2 DEF TxForm, Writing
    <2>4. tx'[r].stage = Applications!StageOf((events \cup tx'[r].add) \ tx'[r].del)
      BY <2>1 DEF Applications!Visible
    <2>5. tx'[r].at = "commit" /\ clock \in Nat /\ locked = r /\ ~Applications!Gone
      BY <2>1, <2>2 DEF BoardMarks, BoardLock
    <2>6. Aside(r)
      BY <1>3, <2>2, <2>3, <2>4, <2>5 DEF Aside, Holds, Holding, Writing
    <2> QED
      BY <2>6, BoardAside
  <1>5. CASE ~Applications!RecomputeStage(r)
    <2>1. PICK at \in {"change", "recompute"} :
            tx'[r] = [at |-> at, add |-> tx[r].add, del |-> tx[r].del]
      BY <1>2, <1>5 DEF Applications!JobOwned, Applications!InsertEvent,
                        Applications!RemoveEvent, BoardForm
    <2>2. tx' = [tx EXCEPT ![r] = tx'[r]]
      BY <1>5 DEF Applications!JobOwned, Applications!InsertEvent, Applications!RemoveEvent,
                  BoardForm
    <2>3. /\ Holds(r)' /\ Writing(r) /\ TxForm(tx'[r])
          /\ tx'[r].at \in {"change", "recompute"} /\ tx'[r].add = tx[r].add
      BY <1>1, <2>1 DEF Holds, Holding, Writing, TxForm, Asking
    <2>4. locked' = r /\ (locked = r \/ locked = "nobody") /\ ~Applications!Gone
      BY <1>5 DEF Applications!JobOwned, Applications!InsertEvent, Applications!RemoveEvent,
                  Applications!At, BoardLock, Holds, Holding
    <2>5. clock \in Nat
      BY DEF BoardMarks
    <2>6. Aside(r)
      BY <1>3, <2>2, <2>3, <2>4, <2>5 DEF Aside, Holds, Holding, Writing
    <2> QED
      BY <2>6, BoardAside
  <1> QED
    BY <1>4, <1>5

\* A request is over, or answers with what is committed.
LEMMA BoardEnds ==
    ASSUME BoardInv, NEW r \in Requests,
           \/ Applications!JobOwned(r) /\ Applications!Gone
           \/ Applications!RemoveEvent(r) /\ ~(tx[r].del \subseteq events)
           \/ Applications!Rollback(r)
           \/ Applications!AnswerStage(r) \/ Applications!AnswerEvents(r)
           \/ Applications!Forget(r)
    PROVE  BoardInv'
  <1> USE NobodyAsks DEF BoardInv
  <1>1. UNCHANGED <<stage, events, clock>> /\ clock \in Nat
    BY DEF Applications!JobOwned, Applications!RemoveEvent, Applications!Rollback,
           Applications!AnswerStage, Applications!AnswerEvents, Applications!Forget, BoardMarks
  <1>2. CASE Applications!Ends(r)
    <2>1. tx'[r] = Applications!Idle /\ tx' = [tx EXCEPT ![r] = tx'[r]]
      BY <1>2 DEF Applications!Ends, BoardForm
    <2>2. TxForm(tx'[r]) /\ tx'[r].at = "idle" /\ ~Holds(r)' /\ ~Writing(r)'
      BY <2>1 DEF TxForm, Applications!Idle, Holds, Holding, Writing
    <2>3. locked' # r /\ \A q \in Requests \ {r} : locked' = q <=> locked = q
      BY <1>2 DEF Applications!Ends
    <2>4. Aside(r)
      BY <1>1, <2>1, <2>2, <2>3 DEF Aside, Holds, Holding, Writing
    <2> QED
      BY <2>4, BoardAside
  <1>3. CASE Applications!AnswerStage(r) /\ ~Applications!Gone
    <2>1. tx'[r] = [at |-> "events", stage |-> stage, moved |-> FALSE]
      BY <1>3 DEF Applications!AnswerStage, BoardForm
    <2>2. tx' = [tx EXCEPT ![r] = tx'[r]] /\ locked' = locked /\ tx[r].at = "job"
      BY <1>3, <2>1 DEF Applications!AnswerStage, Applications!At
    <2>3. TxForm(tx'[r]) /\ ~Holds(r)' /\ ~Writing(r)' /\ locked # r
      BY <2>1, <2>2 DEF TxForm, Holds, Holding, Writing, BoardLock
    <2>4. stage = Applications!StageOf(events)
      BY <1>3 DEF BoardStages, Applications!StageIsTheLast
    <2>5. Aside(r)
      BY <1>1, <2>1, <2>2, <2>3, <2>4 DEF Aside, Holds, Holding, Writing
    <2> QED
      BY <2>5, BoardAside
  <1>4. CASE Applications!AnswerEvents(r)
    <2>1. tx'[r] = [at |-> "answered", stage |-> tx[r].stage, events |-> events,
                    moved |-> tx[r].moved]
      BY <1>4 DEF Applications!AnswerEvents, BoardForm
    <2>2. tx' = [tx EXCEPT ![r] = tx'[r]] /\ locked' = locked /\ tx[r].at = "events"
      BY <1>4, <2>1 DEF Applications!AnswerEvents, Applications!At
    <2>3. TxForm(tx'[r]) /\ ~Holds(r)' /\ ~Writing(r)' /\ locked # r
      BY <2>1, <2>2 DEF TxForm, Holds, Holding, Writing, BoardLock
    <2>4. ~tx[r].moved => tx[r].stage = Applications!StageOf(events)
      BY <2>2 DEF BoardStages
    <2>5. Aside(r)
      BY <1>1, <2>1, <2>2, <2>3, <2>4 DEF Aside, Holds, Holding, Writing
    <2> QED
      BY <2>5, BoardAside
  <1> QED
    BY <1>2, <1>3, <1>4 DEF Applications!JobOwned, Applications!RemoveEvent,
       Applications!Rollback, Applications!AnswerStage, Applications!Forget

\* The history changes only under the lock, so that whoever computed a stage finds
\* the history as it saw it, and whoever is between its two reads is told.
LEMMA BoardChanges ==
    ASSUME BoardInv,
           Applications!DeleteJob \/ \E r \in Requests : Applications!Commit(r)
    PROVE  BoardInv'
  <1> USE NobodyAsks DEF BoardInv
  <1> DEFINE Told(q) == IF tx[q].at = "events" THEN [tx[q] EXCEPT !.moved = TRUE] ELSE tx[q]
  <1>1. ASSUME NEW q \in Requests
        PROVE  /\ TxForm(Told(q)) /\ Told(q).at = tx[q].at
               /\ tx[q].at = "events" => Told(q).moved
               /\ tx[q].at # "events" => Told(q) = tx[q]
    <2>1. CASE tx[q].at = "events"
      <3>1. tx[q] = [at |-> "events", stage |-> tx[q].stage, moved |-> tx[q].moved]
        BY <2>1 DEF BoardForm, TxForm, Applications!Idle, Asking
      <3>2. Told(q) = [at |-> "events", stage |-> tx[q].stage, moved |-> TRUE]
        BY <2>1, <3>1
      <3> QED
        BY <2>1, <3>2 DEF TxForm
    <2>2. CASE tx[q].at # "events"
      BY <2>2 DEF BoardForm
    <2> QED
      BY <2>1, <2>2
  <1> HIDE DEF Told
  <1>2. CASE Applications!DeleteJob
    <2>1. /\ tx' = [q \in Requests |-> Told(q)]
          /\ stage' = "gone" /\ events' = {} /\ locked = "nobody"
          /\ UNCHANGED <<locked, clock>>
      BY <1>2 DEF Applications!DeleteJob, Told
    <2>2. \A q \in Requests : ~Holds(q)
      BY <2>1 DEF BoardLock
    <2>3. \A q \in Requests : tx'[q] = Told(q)
      BY <2>1
    <2>4. BoardForm' /\ BoardLock'
      BY <1>1, <2>1, <2>2, <2>3 DEF BoardForm, BoardLock, Holds, Holding
    <2>5. BoardMarks'
      <3>1. \A q \in Requests : Writing(q)' <=> Writing(q)
        BY <1>1, <2>3 DEF Writing, Holds, Holding
      <3>2. \A q \in Requests : tx[q].at \in {"begin", "own"} => tx'[q] = tx[q]
        BY <1>1, <2>3
      <3>3. \A q \in Requests : Writing(q) => tx[q].at = "own"
        BY <2>2 DEF Writing
      <3>4. HaveLast(events')
        BY <2>1 DEF HaveLast
      <3> QED
        BY <1>1, <2>1, <2>3, <3>1, <3>2, <3>3, <3>4 DEF BoardMarks, Mark, Apart
    <2>6. BoardStages'
      BY <1>1, <2>1, <2>2, <2>3
         DEF BoardStages, Applications!StageIsTheLast, Applications!Gone, Holds, Holding,
             Applications!AnswerAgrees, Applications!At
    <2> QED
      BY <2>4, <2>5, <2>6
  <1>3. ASSUME NEW r \in Requests, Applications!Commit(r) PROVE BoardInv'
    <2>1. tx[r].at = "commit" /\ locked = r /\ ~Applications!Gone
      BY <1>3 DEF Applications!Commit, Applications!At, BoardLock, Holds, Holding
    <2>2. /\ stage' = tx[r].stage /\ events' = (events \cup tx[r].add) \ tx[r].del
          /\ locked' = "nobody" /\ clock' = clock
      BY <1>3, <2>1 DEF Applications!Commit, Applications!Visible
    <2>3. /\ tx' = [q \in Requests |-> IF q = r THEN [at |-> "job", moved |-> FALSE] ELSE Told(q)]
          /\ tx'[r] = [at |-> "job", moved |-> FALSE]
          /\ \A q \in Requests \ {r} : tx'[q] = Told(q)
      BY <1>3 DEF Applications!Commit, Told
    <2>4. \A q \in Requests \ {r} : ~Holds(q)
      BY <2>1 DEF BoardLock
    <2>5. \A q \in Requests : ~Holds(q)'
      BY <1>1, <2>3, <2>4 DEF Holds, Holding
    <2>6. BoardForm' /\ BoardLock'
      <3>1. BoardLock'
        BY <1>1, <2>2, <2>3, <2>5 DEF BoardLock
      <3>2. BoardForm'
        BY <1>1, <2>2, <2>3 DEF BoardForm, TxForm
      <3> QED
        BY <3>1, <3>2
    <2>7. BoardMarks'
      <3>1. \A q \in Requests : Writing(q)' => q # r /\ tx[q].at = "own" /\ tx'[q] = tx[q] /\ Writing(q)
        BY <1>1, <2>3, <2>5 DEF Writing
      <3>2. \A q \in Requests : tx'[q].at = "begin" => tx[q].at = "begin" /\ tx'[q] = tx[q]
        BY <1>1, <2>3
      <3>3. /\ Writing(r) /\ Single(tx[r].add) /\ Apart(tx[r].add, events)
            /\ \A e \in tx[r].add : Mark(e)
            /\ \A q \in Requests : q # r /\ Writing(q) => Apart(tx[r].add, tx[q].add)
        BY <2>1 DEF BoardMarks, Writing, Holds, Holding
      <3>4. HaveLast(events')
        BY <2>2, <3>3, HaveLastOfMore DEF BoardMarks, Mark
      <3>5. \A e \in events' : Mark(e)
        BY <2>2, <3>3 DEF BoardMarks
      <3>6. ASSUME NEW q \in Requests, Writing(q)' PROVE Apart(tx'[q].add, events')
        <4>1. Apart(tx[q].add, events) /\ Apart(tx[r].add, tx[q].add)
          BY <3>1, <3>3, <3>6 DEF BoardMarks
        <4> QED
          BY <2>2, <3>1, <3>6, <4>1 DEF Apart
      <3>7. \A e : Mark(e)' <=> Mark(e)
        BY <2>2 DEF Mark
      <3>8. ASSUME NEW q \in Requests, Writing(q)'
            PROVE  /\ Single(tx'[q].add) /\ \A e \in tx'[q].add : Mark(e)
                   /\ \A p \in Requests : p # q /\ Writing(p)' => Apart(tx'[q].add, tx'[p].add)
        BY <3>1, <3>8 DEF BoardMarks
      <3>9. \A q \in Requests : tx'[q].at = "begin" =>
              Single(tx'[q].add) /\ \A e \in tx'[q].add : e.happened \in Nat
        BY <3>2 DEF BoardMarks
      <3>10. clock' \in Nat
        BY <2>2 DEF BoardMarks
      <3> QED
        BY <3>4, <3>5, <3>6, <3>7, <3>8, <3>9, <3>10 DEF BoardMarks
    <2>8. BoardStages'
      <3>1. stage' = Applications!StageOf(events')
        BY <2>1, <2>2 DEF BoardStages, Applications!Visible
      <3>2. \A q \in Requests : tx'[q].at # "commit"
        BY <2>5 DEF Holds, Holding
      <3>3. \A q \in Requests : tx'[q].at = "events" => tx'[q].moved
        BY <1>1, <2>3
      <3>4. \A q \in Requests : tx'[q].at = "answered" => tx'[q] = tx[q]
        BY <1>1, <2>3
      <3> QED
        BY <3>1, <3>2, <3>3, <3>4
           DEF BoardStages, Applications!StageIsTheLast, Applications!AnswerAgrees, Applications!At
    <2> QED
      BY <2>6, <2>7, <2>8
  <1> QED
    BY <1>2, <1>3

LEMMA BoardStep ==
    BoardInv /\ [Applications!Next]_(Applications!vars) => BoardInv'
  <1> SUFFICES ASSUME BoardInv, [Applications!Next]_(Applications!vars) PROVE BoardInv'
    OBVIOUS
  <1>1. CASE UNCHANGED Applications!vars
    <2>1. UNCHANGED <<stage, events, locked, tx, clock>>
      BY <1>1 DEF Applications!vars
    <2>2. (BoardForm /\ BoardLock)' <=> (BoardForm /\ BoardLock)
      BY <2>1 DEF BoardForm, BoardLock, Holds, Holding, Applications!Gone
    <2>3. BoardMarks' <=> BoardMarks
      BY <2>1 DEF BoardMarks, Mark, Writing, Holds, Holding
    <2>4. BoardStages' <=> BoardStages
      BY <2>1 DEF BoardStages, Applications!StageIsTheLast, Applications!AnswerAgrees,
                  Applications!Visible, Applications!At, Applications!Gone
    <2> QED
      BY <2>2, <2>3, <2>4 DEF BoardInv
  <1>2. CASE Applications!Next
    BY <1>2, BoardBegins, BoardWorks, BoardEnds, BoardChanges DEF Applications!Next
  <1> QED
    BY <1>1, <1>2

\* Whatever requests add and delete at one time, and wherever they fail: the stage
\* of a job is the one its history says, an answer pairs a stage with the history
\* it comes from, and the board counts as sent and as reached what it shows
\* (repository/jobs, handler/application.go).
THEOREM BoardAgreesHolds == Applications!Spec => []BoardAgrees
  <1>1. BoardInv => BoardAgrees
    <2> SUFFICES ASSUME BoardInv PROVE Applications!BoardCounts
      BY DEF BoardInv, BoardStages, BoardAgrees, Applications!BoardAgrees
    <2> SUFFICES ASSUME NEW completed \in BOOLEAN,
                        NEW item \in Applications!ApplicationBoard(completed)
                 PROVE  /\ item.stage \in {"interview", "offer", "hired"} => item.reached
                        /\ item.stage = "applied" => item.applied
      BY DEF Applications!BoardCounts
    <2>1. /\ ~Applications!Gone
          /\ item = [stage   |-> stage,
                     applied |-> \E e \in events : e.stage = "applied",
                     reached |-> \E e \in events : e.stage \in {"interview", "offer", "hired"}]
      BY DEF Applications!ApplicationBoard
    <2>2. stage # "" => \E e \in events : e.stage = stage
      <3>1. stage = Applications!StageOf(events) /\ HaveLast(events)
        BY <2>1 DEF BoardInv, BoardStages, BoardMarks, Applications!StageIsTheLast
      <3> QED
        BY <3>1, StageWasMarked
    <2>3. item.stage = stage
      BY <2>1
    <2>4. stage \in {"interview", "offer", "hired"} => item.reached
      BY <2>1, <2>2
    <2>5. stage = "applied" => item.applied
      BY <2>1, <2>2
    <2> QED
      BY <2>3, <2>4, <2>5
  <1>2. Applications!Init => BoardInv
    BY BoardInit
  <1>3. BoardInv /\ [Applications!Next]_(Applications!vars) => BoardInv'
    BY BoardStep
  <1> QED
    BY <1>1, <1>2, <1>3, PTL DEF Applications!Spec
-----------------------------------------------------------------------------
(* The rows of the profile and the pages that list them *)

Row == [id: Nat \cup {"profile", "links"}, section: Rows!Sections, owner: Users,
        place: Rows!Places, gone: BOOLEAN]
TabRows == {r \in Row : r.section = tab}
Mine == Rows!Live(tab, Me)
Listed == Rows!SelectAll

RowsShape ==
    /\ tab \in Rows!Sections
    /\ table \in SUBSET TabRows /\ IsFiniteSet(table)
    /\ pages \in Seq([size: Sizes, rows: Seq(Row)])
    /\ last \in BOOLEAN /\ moved \in BOOLEAN

(* What is cached is a reading of the section as it is, and each page of a *)
(* walk during which the list did not change is cut from one.              *)
CachedIsListed == cached # <<>> => \E s \in Listed : cached = <<s>>

CutFrom(s, k, size) ==
    SubSeq(s, (k - 1) * size + 1,
           IF (k - 1) * size + size < Len(s) THEN (k - 1) * size + size ELSE Len(s))

PagesAreCut ==
    ~moved /\ pages # <<>> =>
        /\ \A k \in DOMAIN pages :
              /\ pages[k].size = pages[1].size
              /\ \E s \in Listed : pages[k].rows = CutFrom(s, k, pages[1].size)
        /\ last => Len(pages) * pages[1].size >= Cardinality(Mine)

RowsInv == RowsShape /\ CachedIsListed /\ PagesAreCut

\* What a statement for user u may make of the table.
Written(u, new) ==
    /\ new \in SUBSET TabRows /\ IsFiniteSet(new)
    /\ u # Me => {r \in new : r.owner = Me} = {r \in table : r.owner = Me}

\* A section is read by name or the newest first.
LEMMA ListedByTab ==
    ASSUME RowsShape
    PROVE  Listed = IF tab \in {"skills", "languages", "profile"}
                    THEN Rows!ByName(Mine) ELSE Rows!NewestFirst(Mine)
  BY DEF RowsShape, Listed, Mine, Rows!Sections, Rows!Paged, Rows!SelectAll,
         Rows!QuerySelectAllExperiences, Rows!QuerySelectAllAcademicHistories,
         Rows!QuerySelectAllCertificates, Rows!QuerySelectAllProjects,
         Rows!QuerySelectAllSkills, Rows!QuerySelectAllLanguages, Rows!QuerySelectProfile

LEMMA PagesAreOfListed ==
    ASSUME tab \in Rows!Paged, NEW offset, NEW size
    PROVE  Rows!ListOf(offset, size) = Rows!PageOf(Listed, offset, size)
  BY DEF Listed, Rows!Paged, Rows!SelectAll, Rows!ListOf,
         Rows!QuerySelectAllExperiences, Rows!QuerySelectAllAcademicHistories,
         Rows!QuerySelectAllCertificates, Rows!QuerySelectAllProjects,
         Rows!QuerySelectAllSkills,
         Rows!QueryListExperiences, Rows!QueryListAcademicHistories,
         Rows!QueryListCertificates, Rows!QueryListProjects, Rows!QueryListSkills

\* The module of the rows counts as this one does.
LEMMA SameCardinality == \A S : Rows!Cardinality(S) = Cardinality(S)
  BY Zenon DEF Rows!Cardinality, Cardinality

\* A reading has every row of the section once.
LEMMA ListedHasAll ==
    ASSUME RowsShape, NEW s \in Listed
    PROVE  /\ IsFiniteSet(Mine) /\ Cardinality(Mine) \in Nat
           /\ s \in [1..Cardinality(Mine) -> Mine] /\ s \in Seq(Row)
           /\ Len(s) = Cardinality(Mine)
           /\ \A r \in Mine : \E i \in 1..Cardinality(Mine) : s[i] = r
  <1> DEFINE n == Cardinality(Mine)
  <1>1. IsFiniteSet(Mine) /\ n \in Nat /\ Mine \subseteq Row
    <2>1. Mine \in SUBSET table
      BY DEF Mine, Rows!Live
    <2> QED
      BY <2>1, FS_Subset, FS_CardinalityType DEF RowsShape, TabRows
  <1>2. s \in [1..n -> Mine] /\ \A i, j \in 1..n : i < j => s[i] # s[j]
    <2>1. s \in Rows!ByName(Mine) \/ s \in Rows!NewestFirst(Mine)
      BY ListedByTab
    <2>2. s \in Rows!Listings(Mine)
      BY <2>1 DEF Rows!ByName, Rows!NewestFirst
    <2>3. s \in [1..n -> Mine]
      BY <2>2, SameCardinality DEF Rows!Listings
    <2> QED
      BY <2>2, <2>3 DEF Rows!Listings
  <1> HIDE DEF n
  <1>3. s \in Seq(Row) /\ Len(s) = n
    BY <1>1, <1>2
  <1>4. \A i, j \in 1..n : s[i] = s[j] => i = j
    BY <1>1, <1>2
  <1>5. \A r \in Mine : \E i \in 1..n : s[i] = r
    <2> DEFINE I == 1..n
    <2>1. IsFiniteSet(I) /\ Cardinality(I) = Cardinality(Mine)
      BY <1>1, FS_Interval DEF n
    <2>2. s \in [I -> Mine] /\ \A i, j \in I : s[i] = s[j] => i = j
      BY <1>2, <1>4
    <2> HIDE DEF I
    <2>3. \A r \in Mine : \E i \in I : s[i] = r
      BY <1>1, <2>1, <2>2, InjectionIsOnto
    <2> QED
      BY <2>3 DEF I
  <1> QED
    BY <1>1, <1>2, <1>3, <1>5 DEF n

-----------------------------------------------------------------------------
\* What the statements make of the table.
LEMMA InsertWrites ==
    ASSUME RowsShape, NEW u \in Users, NEW d \in Rows!Places
    PROVE  Written(u, Rows!InsertInto(tab, u, d))
  <1> DEFINE row == [id |-> Rows!Cardinality(table) + 1, section |-> tab, owner |-> u,
                     place |-> d, gone |-> FALSE]
  <1>1. row \in TabRows
    <2>1. Cardinality(table) \in Nat
      BY FS_CardinalityType DEF RowsShape
    <2> QED
      BY <2>1, SameCardinality DEF RowsShape, TabRows, Row
  <1>2. Rows!InsertInto(tab, u, d) = table \cup {row}
    BY DEF Rows!InsertInto
  <1>3. IsFiniteSet(table \cup {row})
    BY FS_AddElement DEF RowsShape
  <1>4. row.owner = u
    OBVIOUS
  <1> HIDE DEF row
  <1> QED
    BY <1>1, <1>2, <1>3, <1>4 DEF Written, RowsShape

\* Rows of one user that are written anew.
LEMMA ChangeWrites ==
    ASSUME RowsShape, NEW u, NEW rows \in SUBSET table, \A r \in rows : r.owner = u,
           NEW f \in [rows -> TabRows], \A r \in rows : f[r].owner = u
    PROVE  Written(u, (table \ rows) \cup {f[r] : r \in rows})
  <1>1. IsFiniteSet(rows) /\ IsFiniteSet(table \ rows)
    BY FS_Subset DEF RowsShape
  <1>2. IsFiniteSet({f[r] : r \in rows})
    BY <1>1, FiniteImage
  <1>3. IsFiniteSet((table \ rows) \cup {f[r] : r \in rows})
    BY <1>1, <1>2, FS_Union
  <1> QED
    BY <1>3 DEF Written, RowsShape

LEMMA PlaceWrites ==
    ASSUME RowsShape, NEW u, NEW rows \in SUBSET table, \A r \in rows : r.owner = u,
           NEW d \in Rows!Places
    PROVE  Written(u, Rows!Place(rows, d)) /\ Written(u, Rows!SoftDelete(rows))
  <1> DEFINE f == [r \in rows |-> [r EXCEPT !.place = d]]
             g == [r \in rows |-> [r EXCEPT !.gone = TRUE]]
  <1>1. \A r \in rows : r \in TabRows
    BY DEF RowsShape
  <1>2. f \in [rows -> TabRows] /\ \A r \in rows : f[r].owner = u
    BY <1>1 DEF TabRows, Row
  <1>3. g \in [rows -> TabRows] /\ \A r \in rows : g[r].owner = u
    <2>1. ASSUME NEW r \in rows, NEW b \in BOOLEAN
          PROVE  [r EXCEPT !.gone = b] \in TabRows /\ [r EXCEPT !.gone = b].owner = u
      BY <1>1 DEF TabRows, Row
    <2>2. \A r \in rows : [r EXCEPT !.gone = TRUE] \in TabRows /\ [r EXCEPT !.gone = TRUE].owner = u
      BY <2>1
    <2> QED
      BY <2>2
  <1>4. Rows!Place(rows, d) = (table \ rows) \cup {f[r] : r \in rows}
    BY DEF Rows!Place
  <1>5. Rows!SoftDelete(rows) = (table \ rows) \cup {g[r] : r \in rows}
    BY DEF Rows!SoftDelete
  <1> HIDE DEF f, g
  <1>6. Written(u, (table \ rows) \cup {f[r] : r \in rows})
    BY <1>2, ChangeWrites
  <1>7. Written(u, (table \ rows) \cup {g[r] : r \in rows})
    BY <1>3, ChangeWrites
  <1> QED
    BY <1>4, <1>5, <1>6, <1>7

LEMMA UpsertWrites ==
    ASSUME RowsShape, tab = "profile", NEW u \in Users, NEW d \in Rows!Places,
           NEW part \in {"profile", "links"}
    PROVE  Written(u, Rows!Upsert(part, u, d))
  <1> DEFINE row == [id |-> part, section |-> "profile", owner |-> u, place |-> d, gone |-> FALSE]
             kept == {r \in table : ~(r.id = part /\ r.owner = u)}
  <1>1. row \in TabRows /\ row.owner = u
    BY DEF RowsShape, TabRows, Row, Rows!Sections
  <1>2. IsFiniteSet(kept) /\ kept \in SUBSET table
    BY FS_Subset DEF RowsShape
  <1>3. IsFiniteSet(kept \cup {row})
    BY <1>2, FS_AddElement
  <1>4. Rows!Upsert(part, u, d) = kept \cup {row}
    BY DEF Rows!Upsert
  <1>5. \A r \in table : r.owner # u => r \in kept
    OBVIOUS
  <1> HIDE DEF row, kept
  <1> QED
    BY <1>1, <1>2, <1>3, <1>4, <1>5 DEF Written, RowsShape

\* A handler that writes what a statement may make.
LEMMA WritesKeep ==
    ASSUME RowsInv, NEW section, NEW u, NEW new, Rows!Writes(section, u, new), Written(u, new)
    PROVE  RowsInv'
  <1> USE DEF RowsInv
  <1>1. /\ tab' = tab /\ pages' = pages /\ last' = last /\ table' = new
        /\ cached' = IF u = Me THEN <<>> ELSE cached
        /\ moved' = (moved \/ {r \in new : r.owner = Me /\ ~r.gone} # Mine)
    BY DEF Rows!Writes, Mine
  <1>2. RowsShape'
    BY <1>1 DEF RowsShape, Written, TabRows
  <1>3. Mine' = {r \in new : r.owner = Me /\ ~r.gone}
    BY <1>1 DEF Mine, Rows!Live, Written, TabRows
  <1>4. Mine' = Mine => Listed' = Listed
    <2>1. (Listed = IF tab \in {"skills", "languages", "profile"}
                    THEN Rows!ByName(Mine) ELSE Rows!NewestFirst(Mine))'
      BY <1>2, ListedByTab, PTL
    <2> QED
      BY <1>1, <2>1, ListedByTab DEF Rows!ByName, Rows!NewestFirst, Rows!Listings
  <1>5. CachedIsListed'
    <2>1. CASE u = Me
      BY <1>1, <2>1 DEF CachedIsListed
    <2>2. CASE u # Me
      <3>1. \A r \in table : r.section = tab
        BY DEF RowsShape, TabRows
      <3>2. Mine = {r \in table : r.owner = Me /\ ~r.gone}
        BY <3>1 DEF Mine, Rows!Live
      <3>3. Mine' = Mine
        BY <1>3, <2>2, <3>2 DEF Written
      <3> QED
        BY <1>1, <1>4, <2>2, <3>3 DEF CachedIsListed
    <2> QED
      BY <2>1, <2>2
  <1>6. PagesAreCut'
    <2>1. CASE moved'
      BY <2>1 DEF PagesAreCut
    <2>2. CASE ~moved'
      <3>1. ~moved /\ Mine' = Mine
        BY <1>1, <1>3, <2>2
      <3> QED
        BY <1>1, <1>4, <3>1 DEF PagesAreCut, CutFrom
    <2> QED
      BY <2>1, <2>2
  <1> QED
    BY <1>2, <1>5, <1>6

-----------------------------------------------------------------------------
LEMMA Offsets ==
    ASSUME NEW k \in Nat, NEW size \in Nat
    PROVE  k * size \in Nat /\ (k - 1) * size \in Int /\ k * size = (k - 1) * size + size
           /\ (k # 0 => (k - 1) * size \in Nat)
  <1>1. k * size = (k - 1) * size + size
    OBVIOUS
  <1>2. ASSUME NEW j \in Nat PROVE j * size \in Nat
    OBVIOUS
  <1> QED
    BY <1>1, <1>2

\* A page that is shown is cut from a reading of the section as it is.
LEMMA ShowCuts ==
    ASSUME RowsInv, NEW k \in 1..(Len(pages) + 1), NEW size \in Sizes, Rows!Show(k, size)
    PROVE  \E s \in Listed :
             /\ CutFrom(s, k, size) \in Seq(Row)
             /\ pages' = Append(SubSeq(pages, 1, k - 1), [size |-> size, rows |-> CutFrom(s, k, size)])
             /\ last' = (k * size >= IF (k - 1) * size < Cardinality(Mine) THEN Cardinality(Mine) ELSE 0)
  <1> USE DEF RowsInv
  <1> DEFINE off == (k - 1) * size
  <1>1. PICK answer \in Rows!ListOf(off, size) :
          /\ pages' = Append(SubSeq(pages, 1, k - 1), [size |-> size, rows |-> answer.rows])
          /\ last' = (k * size >= answer.total)
    BY DEF Rows!Show
  <1>2. tab \in Rows!Paged
    BY DEF Rows!Show
  <1>3. PICK s \in Listed :
          answer = [rows  |-> SubSeq(s, off + 1, IF off + size < Len(s) THEN off + size ELSE Len(s)),
                    total |-> IF off < Len(s) THEN Len(s) ELSE 0]
    <2>1. answer \in Rows!PageOf(Listed, off, size)
      BY <1>1, <1>2, PagesAreOfListed
    <2> QED
      BY <2>1 DEF Rows!PageOf
  <1>4. answer.rows = CutFrom(s, k, size)
    BY <1>3 DEF CutFrom
  <1>5. s \in Seq(Row) /\ Len(s) = Cardinality(Mine) /\ Len(s) \in Nat
    BY ListedHasAll
  <1>6. off \in Nat /\ size \in Nat
    BY SizesArePositive, Offsets DEF RowsShape
  <1>7. CutFrom(s, k, size) \in Seq(Row)
    <2> DEFINE to == IF off + size < Len(s) THEN off + size ELSE Len(s)
    <2>1. to \in Int /\ to <= Len(s)
      BY <1>5, <1>6
    <2>2. CutFrom(s, k, size) = SubSeq(s, off + 1, to)
      BY DEF CutFrom
    <2> HIDE DEF to, off
    <2>3. \A i \in (off + 1)..to : s[i] \in Row
      BY <1>5, <1>6, <2>1
    <2>4. off + 1 \in Int
      BY <1>6
    <2> QED
      BY <2>1, <2>2, <2>3, <2>4, SubSeqProperties
  <1> QED
    BY <1>1, <1>3, <1>4, <1>5, <1>7

\* A page takes the place of those from it on.
LEMMA ReplacedFrom ==
    ASSUME NEW P, NEW s \in Seq(P), NEW k \in 1..(Len(s) + 1), NEW e \in P
    PROVE  LET t == Append(SubSeq(s, 1, k - 1), e)
           IN  /\ t \in Seq(P) /\ Len(t) = k /\ t[k] = e
               /\ \A j \in 1..(k - 1) : t[j] = s[j]
  <1> DEFINE before == SubSeq(s, 1, k - 1)
  <1>1. Len(s) \in Nat /\ k \in Nat \ {0} /\ k - 1 \in Int
    OBVIOUS
  <1>2. \A i \in 1..(k - 1) : s[i] \in P
    OBVIOUS
  <1>3. /\ before \in Seq(P) /\ Len(before) = k - 1
        /\ \A i \in 1..(k - 1) : before[i] = s[i]
    <2>1. /\ before \in Seq(P) /\ Len(before) = IF 1 <= k - 1 THEN k - 1 - 1 + 1 ELSE 0
          /\ \A i \in 1..(k - 1 - 1 + 1) : before[i] = s[1 + i - 1]
      BY <1>1, <1>2, SubSeqProperties
    <2> HIDE DEF before
    <2> QED
      BY <1>1, <2>1
  <1> HIDE DEF before
  <1>4. /\ Append(before, e) \in Seq(P) /\ Len(Append(before, e)) = k
        /\ Append(before, e)[k] = e /\ \A j \in 1..(k - 1) : Append(before, e)[j] = before[j]
    BY <1>1, <1>3
  <1> QED
    BY <1>3, <1>4 DEF before

LEMMA ShowKeeps ==
    ASSUME RowsInv, NEW k \in 1..(Len(pages) + 1), NEW size \in Sizes, Rows!Show(k, size),
           k # 1 => size = pages[1].size
    PROVE  RowsInv'
  <1> USE DEF RowsInv
  <1> DEFINE n == Cardinality(Mine)
  <1>1. PICK s \in Listed :
          /\ CutFrom(s, k, size) \in Seq(Row)
          /\ pages' = Append(SubSeq(pages, 1, k - 1), [size |-> size, rows |-> CutFrom(s, k, size)])
          /\ last' = (k * size >= IF (k - 1) * size < n THEN n ELSE 0)
    BY ShowCuts
  <1>2. /\ tab' = tab /\ table' = table /\ cached' = cached
        /\ moved' = (k # 1 /\ moved)
    BY DEF Rows!Show
  <1>3. Mine' = Mine /\ Listed' = Listed
    BY <1>2 DEF Mine, Listed, Rows!Live, Rows!SelectAll,
         Rows!QuerySelectAllExperiences, Rows!QuerySelectAllAcademicHistories,
         Rows!QuerySelectAllCertificates, Rows!QuerySelectAllProjects,
         Rows!QuerySelectAllSkills, Rows!QuerySelectAllLanguages, Rows!QuerySelectProfile
  <1>4. n \in Nat
    BY ListedHasAll
  <1>5. /\ k \in Nat \ {0} /\ k * size \in Nat /\ (k - 1) * size \in Nat
        /\ k * size = (k - 1) * size + size /\ size \in Nat
    <2>1. Len(pages) \in Nat
      BY LenProperties DEF RowsShape
    <2>2. k \in Nat /\ k # 0 /\ size \in Nat
      BY <2>1, SizesArePositive
    <2> QED
      BY <2>2, Offsets
  <1> DEFINE P == [size: Sizes, rows: Seq(Row)]
             new == [size |-> size, rows |-> CutFrom(s, k, size)]
  <1>6. pages \in Seq(P) /\ new \in P
    BY <1>1 DEF RowsShape
  <1>7. k \in Nat \ {0} /\ Len(pages) \in Nat /\ DOMAIN pages = 1..Len(pages)
    BY <1>6
  <1>8. /\ pages' \in Seq(P) /\ Len(pages') = k /\ pages'[k] = new
        /\ \A j \in 1..(k - 1) : pages'[j] = pages[j]
    <2>1. pages' = Append(SubSeq(pages, 1, k - 1), new)
      BY <1>1
    <2> HIDE DEF P, new
    <2> QED
      BY <1>6, <2>1, ReplacedFrom
  <1>9. RowsShape'
    <2>1. last' \in BOOLEAN /\ moved' \in BOOLEAN
      BY <1>1, <1>2 DEF RowsShape
    <2> QED
      BY <1>2, <1>8, <2>1 DEF RowsShape, TabRows
  <1>10. CachedIsListed'
    BY <1>2, <1>3 DEF CachedIsListed
  <1>11. PagesAreCut'
    <2> SUFFICES ASSUME ~moved'
                 PROVE  /\ \A j \in DOMAIN pages' :
                              /\ pages'[j].size = pages'[1].size
                              /\ \E t \in Listed' : pages'[j].rows = CutFrom(t, j, pages'[1].size)
                        /\ last' => Len(pages') * pages'[1].size >= Cardinality(Mine')
      BY DEF PagesAreCut, CutFrom
    <2>1. pages'[k].size = size /\ pages'[k].rows = CutFrom(s, k, size)
      BY <1>8
    <2>2. pages'[1].size = size
      <3>1. CASE k = 1
        BY <2>1, <3>1
      <3>2. CASE k # 1
        <4>1. 1 \in 1..(k - 1)
          BY <1>7, <3>2
        <4> QED
          BY <1>8, <3>2, <4>1
      <3> QED
        BY <3>1, <3>2
    <2>3. ASSUME NEW j \in 1..(k - 1)
          PROVE  pages'[j].size = size /\ \E t \in Listed : pages'[j].rows = CutFrom(t, j, size)
      <3>1. k # 1 /\ j \in DOMAIN pages /\ pages # <<>> /\ ~moved
        <4>1. k # 1 /\ j \in 1..Len(pages) /\ Len(pages) # 0
          BY <1>7, <2>3
        <4>2. pages # <<>>
          BY <4>1
        <4> QED
          BY <1>2, <1>7, <4>1, <4>2
      <3>2. /\ pages[j].size = pages[1].size
            /\ \E t \in Listed : pages[j].rows = CutFrom(t, j, pages[1].size)
        BY <3>1 DEF PagesAreCut
      <3> QED
        BY <1>8, <3>1, <3>2
    <2>4. last' => k * size >= n
      <3> SUFFICES ASSUME last' PROVE k * size >= n
        OBVIOUS
      <3>1. k * size >= IF (k - 1) * size < n THEN n ELSE 0
        BY <1>1
      <3> HIDE DEF n
      <3>2. CASE (k - 1) * size < n
        BY <1>4, <3>1, <3>2
      <3>3. CASE ~((k - 1) * size < n)
        BY <1>4, <1>5, <3>3
      <3> QED
        BY <3>2, <3>3
    <2>5. DOMAIN pages' = 1..k /\ 1..k = (1..(k - 1)) \cup {k}
      BY <1>7, <1>8
    <2> HIDE DEF n, P, new
    <2> QED
      BY <1>1, <1>3, <1>8, <2>1, <2>2, <2>3, <2>4, <2>5 DEF n
  <1> QED
    BY <1>9, <1>10, <1>11

LEMMA ReadThroughKeeps ==
    ASSUME RowsInv, Rows!ReadThrough
    PROVE  RowsInv'
  <1>1. /\ UNCHANGED <<tab, table, pages, last, moved>>
        /\ \E s \in Listed : cached' = <<s>>
    BY DEF Rows!ReadThrough, Listed
  <1>2. Mine' = Mine /\ Listed' = Listed
    BY <1>1 DEF Mine, Listed, Rows!Live, Rows!SelectAll,
         Rows!QuerySelectAllExperiences, Rows!QuerySelectAllAcademicHistories,
         Rows!QuerySelectAllCertificates, Rows!QuerySelectAllProjects,
         Rows!QuerySelectAllSkills, Rows!QuerySelectAllLanguages, Rows!QuerySelectProfile
  <1> QED
    BY <1>1, <1>2 DEF RowsInv, RowsShape, TabRows, CachedIsListed, PagesAreCut, CutFrom

LEMMA RowsInit == Rows!Init => RowsInv
  <1> SUFFICES ASSUME Rows!Init PROVE RowsInv
    OBVIOUS
  <1>1. RowsShape
    <2>1. IsFiniteSet({})
      BY FS_EmptySet
    <2>2. pages = <<>> /\ table = {} /\ last = FALSE /\ moved = FALSE /\ tab \in Rows!Sections
      BY DEF Rows!Init
    <2>3. <<>> \in Seq([size: Sizes, rows: Seq(Row)])
      BY EmptySeq
    <2> QED
      BY <2>1, <2>2, <2>3 DEF RowsShape
  <1>2. CachedIsListed /\ PagesAreCut
    BY DEF Rows!Init, CachedIsListed, PagesAreCut
  <1> QED
    BY <1>1, <1>2 DEF RowsInv

LEMMA RowsStep == RowsInv /\ [Rows!Next]_(Rows!vars) => RowsInv'
  <1> SUFFICES ASSUME RowsInv, [Rows!Next]_(Rows!vars) PROVE RowsInv'
    OBVIOUS
  <1>1. RowsShape /\ tab \in Rows!Sections
    BY DEF RowsInv, RowsShape
  <1>2. ASSUME NEW section, NEW u \in Users, NEW d \in Rows!Places,
               Rows!Writes(section, u, Rows!InsertInto(section, u, d))
        PROVE  RowsInv'
    <2>1. section = tab
      BY <1>2 DEF Rows!Writes
    <2>2. Written(u, Rows!InsertInto(section, u, d))
      BY <1>1, <2>1, InsertWrites
    <2> QED
      BY <1>2, <2>2, WritesKeep
  <1>3. ASSUME NEW section, NEW u \in Users, NEW d \in Rows!Places,
               NEW rows \in SUBSET table, \A r \in rows : r.owner = u,
               Rows!Writes(section, u, Rows!Place(rows, d))
        PROVE  RowsInv'
    <2>1. Written(u, Rows!Place(rows, d))
      BY <1>1, <1>3, PlaceWrites
    <2> QED
      BY <1>3, <2>1, WritesKeep
  <1>4. ASSUME NEW section, NEW u \in Users,
                NEW rows \in SUBSET table, \A r \in rows : r.owner = u,
                Rows!Writes(section, u, Rows!SoftDelete(rows))
         PROVE  RowsInv'
    <2>1. 1 \in Rows!Places
      BY DEF Rows!Places
    <2>2. Written(u, Rows!SoftDelete(rows))
      BY <1>1, <1>4, <2>1, PlaceWrites
    <2> QED
      BY <1>4, <2>2, WritesKeep
  <1>5. ASSUME NEW u \in Users, NEW d \in Rows!Places, NEW part \in {"profile", "links"},
               Rows!Writes("profile", u, Rows!Upsert(part, u, d))
        PROVE  RowsInv'
    <2>1. tab = "profile"
      BY <1>5 DEF Rows!Writes
    <2>2. Written(u, Rows!Upsert(part, u, d))
      BY <1>1, <2>1, UpsertWrites
    <2> QED
      BY <1>5, <2>2, WritesKeep
  <1>6. \A section, u, i :
          /\ Rows!Those(section, u, i) \in SUBSET table
          /\ \A r \in Rows!Those(section, u, i) : r.owner = u
    BY DEF Rows!Those
  <1>7. CASE UNCHANGED Rows!vars
    <2>1. UNCHANGED <<tab, table, cached, pages, last, moved>>
      BY <1>7 DEF Rows!vars
    <2>2. Mine' = Mine /\ Listed' = Listed
      BY <2>1 DEF Mine, Listed, Rows!Live, Rows!SelectAll,
         Rows!QuerySelectAllExperiences, Rows!QuerySelectAllAcademicHistories,
         Rows!QuerySelectAllCertificates, Rows!QuerySelectAllProjects,
         Rows!QuerySelectAllSkills, Rows!QuerySelectAllLanguages, Rows!QuerySelectProfile
    <2> QED
      BY <2>1, <2>2 DEF RowsInv, RowsShape, TabRows, CachedIsListed, PagesAreCut, CutFrom
  <1>8. ASSUME NEW u \in Users, NEW d \in Rows!Places,
               \/ Rows!InsertExperience(u, d) \/ Rows!InsertAcademic(u, d)
               \/ Rows!InsertCertificate(u, d) \/ Rows!InsertProject(u, d)
               \/ Rows!InsertSkill(u, d) \/ Rows!InsertLanguage(u, d)
        PROVE  RowsInv'
    BY <1>2, <1>8 DEF Rows!InsertExperience, Rows!InsertAcademic, Rows!InsertCertificate,
         Rows!InsertProject, Rows!InsertSkill, Rows!InsertLanguage,
         Rows!QueryInsertExperience, Rows!QueryInsertAcademicHistory,
         Rows!QueryInsertCertificate, Rows!QueryInsertProject, Rows!QueryInsertSkill,
         Rows!QueryInsertLanguage
  <1>9. ASSUME NEW u \in Users, NEW d \in Rows!Places,
               Rows!UpsertProfile(u, d) \/ Rows!UpsertLinks(u, d)
        PROVE  RowsInv'
    BY <1>5, <1>9 DEF Rows!UpsertProfile, Rows!UpsertLinks, Rows!QueryUpsertProfile,
         Rows!QueryUpsertLinks
  <1>10. ASSUME NEW u \in Users, NEW d \in Rows!Places, NEW i,
               \/ Rows!UpdateExperience(u, i, d) \/ Rows!UpdateAcademic(u, i, d)
               \/ Rows!UpdateCertificate(u, i, d) \/ Rows!UpdateProject(u, i, d)
               \/ Rows!UpdateSkill(u, i, d)
        PROVE  RowsInv'
    BY <1>3, <1>6, <1>10 DEF Rows!UpdateExperience, Rows!UpdateAcademic, Rows!UpdateCertificate,
         Rows!UpdateProject, Rows!UpdateSkill,
         Rows!QueryUpdateExperience, Rows!QueryUpdateAcademicHistory,
         Rows!QueryUpdateCertificate, Rows!QueryUpdateProject, Rows!QueryUpdateSkill
  <1>11. ASSUME NEW u \in Users, NEW d \in Rows!Places, NEW i, Rows!UpdateLanguage(u, i, d)
         PROVE  RowsInv'
    <2> DEFINE rows == {r \in Rows!Those("languages", u, i) : ~r.gone}
    <2>1. rows \in SUBSET table /\ \A r \in rows : r.owner = u
      BY <1>6
    <2>2. Rows!Writes("languages", u, Rows!Place(rows, d))
      BY <1>11 DEF Rows!UpdateLanguage, Rows!QueryUpdateLanguage
    <2> HIDE DEF rows
    <2> QED
      BY <1>3, <2>1, <2>2
  <1>12. ASSUME NEW u \in Users, NEW i,
                \/ Rows!DeleteExperience(u, i) \/ Rows!DeleteAcademic(u, i)
                \/ Rows!DeleteCertificate(u, i) \/ Rows!DeleteProject(u, i)
                \/ Rows!DeleteSkill(u, i) \/ Rows!DeleteLanguage(u, i)
         PROVE  RowsInv'
    BY <1>6, <1>12, <1>4 DEF Rows!DeleteExperience, Rows!DeleteAcademic,
         Rows!DeleteCertificate, Rows!DeleteProject, Rows!DeleteSkill, Rows!DeleteLanguage,
         Rows!QueryDeleteExperience, Rows!QueryDeleteAcademicHistory,
         Rows!QueryDeleteCertificate, Rows!QueryDeleteProject, Rows!QueryDeleteSkill,
         Rows!QueryDeleteLanguage
  <1>13. /\ Len(pages) \in Nat
         /\ pages # <<>> => Len(pages) # 0 /\ pages[1].size \in Sizes
    <2> DEFINE P == [size: Sizes, rows: Seq(Row)]
    <2>1. pages \in Seq(P)
      BY DEF RowsInv, RowsShape
    <2>2. pages # <<>> => pages[1] \in P
      <3> HIDE DEF P
      <3> QED
        BY <2>1
    <2>3. Len(pages) \in Nat /\ (pages # <<>> => Len(pages) # 0)
      <3> HIDE DEF P
      <3> QED
        BY <2>1, EmptySeq, LenProperties
    <2> QED
      BY <2>2, <2>3
  <1>14. ASSUME NEW size \in Sizes, Rows!ChangePageSize(size) PROVE RowsInv'
    <2>1. 1 \in 1..(Len(pages) + 1)
      BY <1>13
    <2> QED
      BY <1>14, <2>1, ShowKeeps DEF Rows!ChangePageSize
  <1>15. ASSUME Rows!NextPage PROVE RowsInv'
    <2>1. Len(pages) + 1 \in 1..(Len(pages) + 1) /\ pages[1].size \in Sizes
      BY <1>13, <1>15 DEF Rows!NextPage
    <2> QED
      BY <1>15, <2>1, ShowKeeps DEF Rows!NextPage
  <1>16. ASSUME Rows!PrevPage PROVE RowsInv'
    <2>1. Len(pages) > 1
      BY <1>16 DEF Rows!PrevPage
    <2>2. Len(pages) - 1 \in 1..(Len(pages) + 1) /\ pages # <<>>
      BY <1>13, <2>1
    <2> QED
      BY <1>13, <1>16, <2>2, ShowKeeps DEF Rows!PrevPage
  <1> QED
    BY <1>7, <1>8, <1>9, <1>10, <1>11, <1>12, <1>14, <1>15, <1>16, ReadThroughKeeps DEF Rows!Next

-----------------------------------------------------------------------------
\* Without ties there is one reading of a section, and it goes up or down.
LEMMA ListedIsOne ==
    ASSUME RowsShape, ~Rows!Tied, NEW s \in Listed
    PROVE  /\ \A i, j \in 1..Cardinality(Mine) : i < j => Rows!Precedes(s[i], s[j])
           /\ \A t \in Listed : t = s
  <1> DEFINE n == Cardinality(Mine)
             R == {p \in Mine \X Mine : Rows!Precedes(p[1], p[2])}
  <1>1. \A r \in Mine : r.place \in Int
    BY DEF RowsShape, TabRows, Row, Mine, Rows!Live, Rows!Places
  <1>2. \A r, q \in Mine : r.place = q.place => r = q
    BY DEF Mine, Rows!Tied
  <1>3. ASSUME NEW t \in Listed
        PROVE  \A i, j \in 1..n : i < j => Rows!Precedes(t[i], t[j])
    <2>1. n \in Nat /\ t \in [1..n -> Mine]
      BY ListedHasAll
    <2>2. t \in IF tab \in {"skills", "languages", "profile"}
                THEN Rows!ByName(Mine) ELSE Rows!NewestFirst(Mine)
      BY ListedByTab
    <2>3. t \in Rows!Listings(Mine)
      BY <2>2 DEF Rows!ByName, Rows!NewestFirst
    <2>4. \A i, j \in 1..n : i < j => t[i] # t[j]
      BY <2>1, <2>3 DEF Rows!Listings
    <2>5. \A i, j \in 1..n : i < j =>
             IF tab \in {"skills", "languages", "profile"}
             THEN t[i].place <= t[j].place ELSE t[i].place >= t[j].place
      BY <2>1, <2>2 DEF Rows!ByName, Rows!NewestFirst
    <2> TAKE i, j \in 1..n
    <2> HAVE i < j
    <2>6. t[i] \in Mine /\ t[j] \in Mine /\ t[i] # t[j]
      BY <2>1, <2>4
    <2>7. t[i].place # t[j].place /\ t[i].place \in Int /\ t[j].place \in Int
      BY <1>1, <1>2, <2>6
    <2> HIDE DEF n
    <2> QED
      BY <2>5, <2>7 DEF Rows!Precedes
  <1>4. \A x, y \in Mine : ~(<<x, y>> \in R /\ <<y, x>> \in R)
    BY <1>1 DEF Rows!Precedes
  <1>5. ASSUME NEW t \in Listed
        PROVE  /\ n \in Nat /\ t \in [1..n -> Mine] /\ \A r \in Mine : \E i \in 1..n : t[i] = r
               /\ \A i, j \in 1..n : i < j => <<t[i], t[j]>> \in R
    <2>1. n \in Nat /\ t \in [1..n -> Mine] /\ \A r \in Mine : \E i \in 1..n : t[i] = r
      BY ListedHasAll
    <2> QED
      BY <1>3, <2>1
  <1>6. ASSUME NEW t \in Listed PROVE t = s
    <2>1. n \in Nat /\ Lists(t, n, Mine, R) /\ Lists(s, n, Mine, R)
      BY <1>5 DEF Lists
    <2> HIDE DEF n, R
    <2> QED
      BY <1>4, <2>1, OneOrder
  <1> QED
    BY <1>3, <1>6

\* What is cut for the k-th page.
LEMMA CutHas ==
    ASSUME NEW S, NEW s \in Seq(S), NEW k \in Nat \ {0}, NEW size \in Nat \ {0}
    PROVE  LET off == (k - 1) * size
           IN  \A i \in Int :
                 /\ i \in DOMAIN CutFrom(s, k, size) <=> i \in 1..size /\ off + i <= Len(s)
                 /\ i \in DOMAIN CutFrom(s, k, size) => CutFrom(s, k, size)[i] = s[off + i]
  <1> DEFINE off == (k - 1) * size
             to == IF off + size < Len(s) THEN off + size ELSE Len(s)
             c == SubSeq(s, off + 1, to)
  <1>1. off \in Nat /\ Len(s) \in Nat
    BY Offsets
  <1>2. CutFrom(s, k, size) = c
    BY DEF CutFrom
  <1> HIDE DEF off
  <1>3. to \in Int /\ off + 1 \in Int /\ to <= Len(s) /\ to <= off + size
    BY <1>1
  <1>4. \A i \in (off + 1)..to : s[i] \in S
    BY <1>1, <1>3
  <1>5. /\ c \in Seq(S) /\ Len(c) = IF off + 1 <= to THEN to - (off + 1) + 1 ELSE 0
        /\ \A i \in 1..(to - (off + 1) + 1) : c[i] = s[off + 1 + i - 1]
    <2> HIDE DEF to
    <2> QED
      BY <1>3, <1>4, SubSeqProperties
  <1>6. DOMAIN c = 1..Len(c)
    BY <1>5, LenProperties
  <1>7. ASSUME NEW i \in Int
        PROVE  /\ i \in DOMAIN c <=> i \in 1..size /\ off + i <= Len(s)
               /\ i \in DOMAIN c => c[i] = s[off + i]
    <2> HIDE DEF c
    <2> QED
      BY <1>1, <1>5, <1>6
  <1> HIDE DEF c
  <1> QED
    BY <1>2, <1>7 DEF off

\* Numbers and the pages they are on.
LEMMA SpotOrder ==
    ASSUME NEW k \in Nat \ {0}, NEW l \in Nat \ {0}, NEW size \in Nat \ {0},
           NEW i \in 1..size, NEW j \in 1..size, k < l \/ (k = l /\ i < j)
    PROVE  (k - 1) * size + i < (l - 1) * size + j
  <1>1. CASE k < l
    <2>1. PICK d \in Nat : l - 1 = k + d
      <3>1. l - 1 = k + (l - 1 - k) /\ l - 1 - k \in Nat
        BY <1>1
      <3> QED
        BY <3>1
    <2>2. (l - 1) * size = k * size + d * size /\ d * size \in Nat /\ k * size \in Nat
      BY <2>1, Offsets
    <2>3. k * size = (k - 1) * size + size /\ (k - 1) * size \in Int
      BY Offsets
    <2> QED
      BY <2>2, <2>3
  <1>2. CASE k = l /\ i < j
    <2>1. (k - 1) * size \in Int
      BY Offsets
    <2> QED
      BY <1>2, <2>1
  <1> QED
    BY <1>1, <1>2

LEMMA SpotOf ==
    ASSUME NEW pagesN \in Nat, NEW size \in Nat \ {0}, NEW m \in Nat \ {0}, m <= pagesN * size
    PROVE  \E k \in 1..pagesN, i \in 1..size : m = (k - 1) * size + i
  <1> DEFINE T == {k \in Nat : m <= k * size}
  <1>1. PICK k \in T : \A l \in T : k <= l
    <2>1. T \in SUBSET Nat /\ T # {}
      OBVIOUS
    <2> HIDE DEF T
    <2> QED
      BY <2>1, LeastNumber
  <1>2. k \in Nat /\ m <= k * size /\ k <= pagesN
    BY <1>1
  <1>3. k # 0
    BY <1>2
  <1>4. k * size = (k - 1) * size + size /\ (k - 1) * size \in Nat
    BY <1>2, <1>3, Offsets
  <1>5. (k - 1) * size < m
    <2>1. k - 1 \in Nat /\ k - 1 \notin T
      BY <1>1, <1>3
    <2> QED
      BY <1>4, <2>1
  <1>6. m - (k - 1) * size \in 1..size
    BY <1>2, <1>4, <1>5
  <1>7. m = (k - 1) * size + (m - (k - 1) * size)
    BY <1>4
  <1> QED
    BY <1>2, <1>3, <1>6, <1>7

LEMMA WalkIsWhole == RowsInv => Rows!WalkShowsAll
  <1> SUFFICES ASSUME RowsInv, pages # <<>>, last, ~moved, ~Rows!Tied
               PROVE  /\ {Rows!At(p) : p \in Rows!Spots} = Mine
                      /\ \A p, q \in Rows!Spots :
                           Rows!Earlier(p, q) => Rows!Precedes(Rows!At(p), Rows!At(q))
    BY DEF Rows!WalkShowsAll, Mine
  <1> USE DEF RowsInv
  <1> DEFINE n == Cardinality(Mine)
             size == pages[1].size
             N == Len(pages)
             Index(p) == (p[1] - 1) * size + p[2]
  <1>1. N \in Nat \ {0} /\ DOMAIN pages = 1..N /\ size \in Nat \ {0}
    <2> DEFINE P == [size: Sizes, rows: Seq(Row)]
    <2>1. pages \in Seq(P)
      BY DEF RowsShape
    <2>2. N \in Nat \ {0} /\ DOMAIN pages = 1..N /\ pages[1] \in P
      <3> HIDE DEF P
      <3> QED
        BY <2>1, EmptySeq, LenProperties
    <2> QED
      BY <2>2, SizesArePositive
  <1>2. /\ \A k \in 1..N : \E s \in Listed : pages[k].rows = CutFrom(s, k, size)
        /\ N * size >= n
    BY <1>1 DEF PagesAreCut
  <1>3. PICK s \in Listed : pages[1].rows = CutFrom(s, 1, size)
    BY <1>1, <1>2
  <1>4. \A t \in Listed : t = s
    BY ListedIsOne
  <1>5. \A i, j \in 1..n : i < j => Rows!Precedes(s[i], s[j])
    BY ListedIsOne
  <1>6. \A k \in 1..N : pages[k].rows = CutFrom(s, k, size)
    BY <1>2, <1>4
  <1>7. /\ n \in Nat /\ s \in [1..n -> Mine] /\ s \in Seq(Row) /\ Len(s) = n
        /\ \A r \in Mine : \E i \in 1..n : s[i] = r
    BY ListedHasAll
  <1> HIDE DEF n, size, N
  <1>8. ASSUME NEW k \in 1..N, NEW i \in Int
        PROVE  /\ i \in DOMAIN pages[k].rows <=> i \in 1..size /\ (k - 1) * size + i <= n
               /\ i \in DOMAIN pages[k].rows => pages[k].rows[i] = s[(k - 1) * size + i]
    <2>1. k \in Nat \ {0} /\ pages[k].rows = CutFrom(s, k, size)
      BY <1>1, <1>6
    <2> QED
      BY <1>1, <1>7, <2>1, CutHas
  <1>9. ASSUME NEW k \in 1..N PROVE DOMAIN pages[k].rows \subseteq Int
    <2> DEFINE P == [size: Sizes, rows: Seq(Row)]
    <2>1. pages \in Seq(P) /\ k \in 1..Len(pages)
      BY DEF RowsShape, N
    <2>2. pages[k] \in P
      <3> HIDE DEF P
      <3> QED
        BY <2>1, ElementOfSeq
    <2>3. pages[k].rows \in Seq(Row)
      BY <2>2
    <2> QED
      BY <2>3, LenProperties
  <1>10. ASSUME NEW p \in Rows!Spots
         PROVE  /\ p[1] \in 1..N /\ p[2] \in 1..size /\ Index(p) \in 1..n
                /\ Rows!At(p) = s[Index(p)]
    <2>1. PICK k \in 1..N : p \in {k} \X DOMAIN pages[k].rows
      BY <1>1 DEF Rows!Spots
    <2>2. PICK i \in DOMAIN pages[k].rows : p = <<k, i>>
      BY <2>1
    <2>3. i \in Int /\ i \in 1..size /\ (k - 1) * size + i <= n
          /\ pages[k].rows[i] = s[(k - 1) * size + i]
      BY <1>8, <1>9
    <2>4. (k - 1) * size \in Nat
      BY <1>1, Offsets
    <2> QED
      BY <2>2, <2>3, <2>4 DEF Rows!At
  <1>11. ASSUME NEW r \in Mine PROVE \E p \in Rows!Spots : Rows!At(p) = r
    <2>1. PICK m \in 1..n : s[m] = r
      BY <1>7
    <2>2. N \in Nat /\ m \in Nat \ {0} /\ m <= N * size
      <3>1. N \in Nat /\ size \in Nat
        BY <1>1
      <3>2. N * size \in Nat
        BY <3>1, Offsets
      <3> QED
        BY <1>2, <1>7, <3>1, <3>2
    <2>3. PICK k \in 1..N, i \in 1..size : m = (k - 1) * size + i
      <3>1. size \in Nat \ {0}
        BY <1>1
      <3> QED
        BY <2>2, <3>1, SpotOf
    <2>4. i \in DOMAIN pages[k].rows /\ pages[k].rows[i] = r
      BY <1>8, <2>1, <2>3
    <2>5. <<k, i>> \in Rows!Spots
      BY <1>1, <2>4 DEF Rows!Spots
    <2> QED
      BY <2>4, <2>5 DEF Rows!At
  <1>12. ASSUME NEW p \in Rows!Spots, NEW q \in Rows!Spots, Rows!Earlier(p, q)
         PROVE  Rows!Precedes(Rows!At(p), Rows!At(q))
    <2>1. /\ p[1] \in Nat \ {0} /\ q[1] \in Nat \ {0} /\ p[2] \in 1..size /\ q[2] \in 1..size
      <3> HIDE DEF Index
      <3>1. p[1] \in 1..N /\ p[2] \in 1..size
        BY <1>10
      <3>2. q[1] \in 1..N /\ q[2] \in 1..size
        BY <1>10
      <3> QED
        BY <1>1, <3>1, <3>2
    <2>2. p[1] < q[1] \/ (p[1] = q[1] /\ p[2] < q[2])
      BY <1>12 DEF Rows!Earlier
    <2>3. Index(p) < Index(q)
      BY <1>1, <2>1, <2>2, SpotOrder
    <2>4. Index(p) \in 1..n /\ Index(q) \in 1..n /\ Rows!At(p) = s[Index(p)] /\ Rows!At(q) = s[Index(q)]
      BY <1>10
    <2> HIDE DEF Index
    <2> QED
      BY <1>5, <2>3, <2>4 DEF n
  <1>13. ASSUME NEW p \in Rows!Spots PROVE Rows!At(p) \in Mine
    <2> HIDE DEF Index
    <2> QED
      BY <1>7, <1>10
  <1> QED
    BY <1>11, <1>12, <1>13

LEMMA CacheHasAll == RowsInv => Rows!CacheHasTheRows
  <1> SUFFICES ASSUME RowsInv, cached # <<>>
               PROVE  {cached[1][i] : i \in DOMAIN cached[1]} = Mine
    BY DEF Rows!CacheHasTheRows, Mine
  <1>1. PICK s \in Listed : cached = <<s>>
    BY DEF RowsInv, CachedIsListed
  <1>2. /\ s \in [1..Cardinality(Mine) -> Mine]
        /\ \A r \in Mine : \E i \in 1..Cardinality(Mine) : s[i] = r
    BY ListedHasAll DEF RowsInv
  <1>3. cached[1] = s
    BY <1>1
  <1> QED
    BY <1>2, <1>3

(* ListsAgree.  The pages of a walk are cut from readings of a list that   *)
(* has not changed, and without ties there is only one such reading: so    *)
(* the spots of the pages are its places, from the first to the last.      *)
THEOREM ListsAgreeHolds == Rows!Spec => []ListsAgree
  <1>1. RowsInv => ListsAgree
    BY WalkIsWhole, CacheHasAll DEF ListsAgree, Rows!ListsAgree
  <1> QED
    BY <1>1, RowsInit, RowsStep, PTL DEF Rows!Spec

-----------------------------------------------------------------------------
(* A resume says nothing that the profile does not support.                *)

LEMMA TextLists ==
    ASSUME NEW s, IsList(s), NEW k \in DOMAIN s
    PROVE  s[k] \in Range(s)
BY DEF Range

LEMMA PickedIsWhole ==
    ASSUME NEW s, IsList(s), NEW I \in SUBSET DOMAIN s
    PROVE  \A i \in I : \E k \in DOMAIN Picked(s, I) : Picked(s, I)[k] = s[i]
  <1> DEFINE u == Picked(s, I)
             n == Cardinality(I)
             at == InOrder(I, Upwards(I))
  <1>1. I \in SUBSET Nat /\ IsFiniteSet(I)
    BY FiniteDomain, FS_Subset
  <1>2. /\ DOMAIN u = 1..n
        /\ \A k \in 1..n : u[k] = s[at[k]]
        /\ \A i \in I : \E k \in 1..n : at[k] = i
    BY <1>1, PickedInOrder
  <1> HIDE DEF u, n, at
  <1> QED
    BY <1>2 DEF u

\* What a filter leaves is in the list, and it leaves all that pass.
LEMMA KeptOnes ==
    ASSUME NEW s, IsList(s), NEW keep
    PROVE  /\ IsList(ThoseWith(s, keep))
           /\ \A k \in DOMAIN ThoseWith(s, keep) : \E i \in DOMAIN s : keep[i] /\ ThoseWith(s, keep)[k] = s[i]
           /\ \A i \in DOMAIN s : keep[i] => \E k \in DOMAIN ThoseWith(s, keep) : ThoseWith(s, keep)[k] = s[i]
           /\ \A j, k \in DOMAIN ThoseWith(s, keep) : j # k =>
                 \E x, y \in DOMAIN s : /\ x # y /\ keep[x] /\ keep[y]
                                        /\ ThoseWith(s, keep)[j] = s[x] /\ ThoseWith(s, keep)[k] = s[y]
  <1> DEFINE I == {i \in DOMAIN s : keep[i]}
  <1>1. I \in SUBSET DOMAIN s /\ \A i : i \in I <=> i \in DOMAIN s /\ keep[i]
    OBVIOUS
  <1>2. ThoseWith(s, keep) = Picked(s, I)
    BY DEF ThoseWith
  <1> HIDE DEF I
  <1>3. /\ IsList(Picked(s, I))
        /\ \A k \in DOMAIN Picked(s, I) : \E i \in I : Picked(s, I)[k] = s[i]
        /\ \A j, k \in DOMAIN Picked(s, I) : j # k =>
              \E x, y \in I : x # y /\ Picked(s, I)[j] = s[x] /\ Picked(s, I)[k] = s[y]
    BY <1>1, PickedIsList
  <1>4. \A i \in I : \E k \in DOMAIN Picked(s, I) : Picked(s, I)[k] = s[i]
    BY <1>1, PickedIsWhole
  <1> DEFINE u == Picked(s, I)
  <1> HIDE DEF u
  <1>5. /\ IsList(u)
        /\ \A k \in DOMAIN u : \E i \in DOMAIN s : keep[i] /\ u[k] = s[i]
        /\ \A i \in DOMAIN s : keep[i] => \E k \in DOMAIN u : u[k] = s[i]
    BY <1>1, <1>3, <1>4 DEF u
  <1>6. \A j, k \in DOMAIN u : j # k =>
            \E x, y \in DOMAIN s : x # y /\ keep[x] /\ keep[y] /\ u[j] = s[x] /\ u[k] = s[y]
    BY <1>1, <1>3 DEF u
  <1> QED
    BY <1>2, <1>5, <1>6 DEF u

-----------------------------------------------------------------------------
(* The summary. *)

\* The length of a career is that of the months that are worked.
LEMMA YearsAreWorked ==
    ASSUME NEW src, IsProfile(src)
    PROVE  LET worked == UNION {p.from..(p.to - 1) : p \in Periods(src)}
           IN  /\ Cardinality(worked) \in Nat
               /\ YearsOfExperience(src) = Cardinality(worked) \div 12
  <1> DEFINE dated == {x \in Range(src.exps) : x.from # 0}
             of(e) == [from |-> e.from, to |-> IF e.current \/ e.to = 0 THEN Today ELSE e.to]
             f == [e \in dated |-> of(e)]
             P == Periods(src)
  <1>1. IsFiniteSet(Range(src.exps))
    <2>1. IsFiniteSet(DOMAIN src.exps)
      BY FiniteDomain DEF IsProfile
    <2>2. IsFiniteSet({src.exps[k] : k \in DOMAIN src.exps})
      BY <2>1, FiniteImage
    <2> QED
      BY <2>2 DEF Range
  <1>2. IsFiniteSet(dated)
    BY <1>1, FS_Subset
  <1>3. IsFiniteSet({f[e] : e \in dated})
    <2>1. DOMAIN f = dated
      OBVIOUS
    <2> HIDE DEF f, dated
    <2> QED
      BY <1>2, <2>1, FiniteImage
  <1>4. P = {p \in {f[e] : e \in dated} : p.to > p.from}
    BY DEF Periods
  <1>5. IsFiniteSet(P)
    BY <1>3, <1>4, FS_Subset
  <1>6. P \in SUBSET [from: Int, to: Int] /\ \A p \in P : p.from < p.to
    <2> SUFFICES ASSUME NEW p \in P
                 PROVE  p \in [from: Int, to: Int] /\ p.from < p.to
      OBVIOUS
    <2>1. PICK e \in dated : p = of(e)
      BY <1>4
    <2>2. e.from \in Int /\ e.to \in Int /\ Today \in Int
      BY TasksAssumption DEF IsProfile
    <2>3. p \in [from: Int, to: Int]
      BY <2>1, <2>2
    <2>4. p.to > p.from
      BY <1>4
    <2> QED
      BY <2>3, <2>4
  <1> HIDE DEF P
  <1>7. \A p \in P : p.from < p.to + 0 /\ p.to - 1 + 0 = p.to - 1
    BY <1>6
  <1>8. /\ Merged(P, 0) = Cardinality(UNION {p.from..(p.to - 1 + 0) : p \in P})
        /\ Merged(P, 0) \in Nat
    BY <1>5, <1>6, <1>7, MergedCounts
  <1>9. {p.from..(p.to - 1 + 0) : p \in P} = {p.from..(p.to - 1) : p \in P}
    BY <1>7
  <1> QED
    BY <1>8, <1>9 DEF YearsOfExperience, P

\* Sentences that break no rule, read without the names that have a dot.
SaysNoWrong(src, summary) ==
    /\ IsList(summary)
    /\ \A s \in Range(summary) :
          s.words \subseteq DOMAIN Lower /\ ~Breaks(src, s.claims, s.words \ Dotted)

LEMMA StripsWrong ==
    ASSUME NEW src, NEW summary, IsList(summary),
           \A s \in Range(summary) : s.words \subseteq DOMAIN Lower
    PROVE  SaysNoWrong(src, Strip(src, summary))
  <1> DEFINE keep == [k \in DOMAIN summary |->
                         ~Breaks(src, summary[k].claims, summary[k].words \ Dotted)]
             left == ThoseWith(summary, keep)
  <1>1. /\ IsList(left)
        /\ \A k \in DOMAIN left : \E i \in DOMAIN summary : keep[i] /\ left[k] = summary[i]
    <2> HIDE DEF keep
    <2> QED
      BY KeptOnes
  <1>2. \A i \in DOMAIN summary : keep[i] <=> ~Breaks(src, summary[i].claims, summary[i].words \ Dotted)
    OBVIOUS
  <1>3. Strip(src, summary) = left
    BY DEF Strip
  <1> HIDE DEF left, keep
  <1>4. \A s \in Range(left) : s \in Range(summary) /\ ~Breaks(src, s.claims, s.words \ Dotted)
    BY <1>1, <1>2 DEF Range
  <1> QED
    BY <1>1, <1>3, <1>4 DEF SaysNoWrong

LEMMA NotViolated ==
    ASSUME NEW src, NEW summary, IsList(summary),
           \A s \in Range(summary) : s.words \subseteq DOMAIN Lower,
           ~SummaryViolated(src, summary)
    PROVE  SaysNoWrong(src, summary)
  <1>1. \A s \in Range(summary) : ~Breaks(src, s.claims, s.words)
    BY DEF SummaryViolated, Range
  <1>2. \A s \in Range(summary) : ~Breaks(src, s.claims, s.words \ Dotted)
    BY <1>1 DEF Breaks, Cites
  <1> QED
    BY <1>2 DEF SaysNoWrong

-----------------------------------------------------------------------------
(* The bullets. *)

LEMMA GreatestOne ==
    ASSUME NEW n \in Nat, NEW T \in SUBSET (1..n), T # {}
    PROVE  \E m \in T : \A k \in T : k <= m
  <1> DEFINE U == {u \in Nat : \A t \in T : t <= u}
  <1>1. n \in U
    OBVIOUS
  <1>2. PICK m \in U : \A u \in U : m <= u
    <2>1. U \in SUBSET Nat /\ U # {}
      BY <1>1
    <2> HIDE DEF U
    <2> QED
      BY <2>1, LeastNumber
  <1>3. m \in T
    <2> SUFFICES ASSUME m \notin T PROVE FALSE
      OBVIOUS
    <2>1. \A t \in T : t < m
      OBVIOUS
    <2>2. m \in Nat /\ m # 0
      <3>1. PICK t \in T : t < m
        BY <2>1
      <3>2. t \in Nat /\ m \in Nat
        OBVIOUS
      <3> QED
        BY <3>1, <3>2
    <2>3. m - 1 \in U
      BY <2>1, <2>2
    <2>4. m <= m - 1
      BY <1>2, <2>3
    <2> QED
      BY <2>2, <2>4
  <1> QED
    BY <1>3

\* Of places in rows one comes before the others.
LEMMA FirstPlace ==
    ASSUME NEW S \in SUBSET (Nat \X Nat), S # {}
    PROVE  \E q \in S : \A r \in S : ~Above(r, q)
  <1> DEFINE J == {j \in Nat : \E k \in Nat : <<j, k>> \in S}
  <1>1. PICK j \in J : \A h \in J : j <= h
    <2>1. J \in SUBSET Nat /\ J # {}
      OBVIOUS
    <2> HIDE DEF J
    <2> QED
      BY <2>1, LeastNumber
  <1> DEFINE K == {k \in Nat : <<j, k>> \in S}
  <1>2. PICK k \in K : \A l \in K : k <= l
    <2>1. K \in SUBSET Nat /\ K # {}
      OBVIOUS
    <2> HIDE DEF K
    <2> QED
      BY <2>1, LeastNumber
  <1>3. \A r \in S : ~Above(r, <<j, k>>)
    <2> SUFFICES ASSUME NEW r \in S, Above(r, <<j, k>>) PROVE FALSE
      OBVIOUS
    <2>1. r[1] \in Nat /\ r[2] \in Nat /\ r = <<r[1], r[2]>> /\ j \in Nat /\ k \in Nat
      OBVIOUS
    <2>2. r[1] \in J /\ j <= r[1]
      BY <1>1, <2>1
    <2>3. r[1] = j /\ r[2] < k
      BY <2>1, <2>2 DEF Above
    <2>4. r[2] \in K
      BY <2>1, <2>3
    <2> QED
      BY <1>2, <2>1, <2>3, <2>4
  <1> QED
    BY <1>2, <1>3

LEMMA OtherPlaces ==
    ASSUME NEW src, IsProfile(src), NEW i
    PROVE  /\ OtherTechs(src, i) \in SUBSET (Nat \X Nat)
           /\ \A p \in OtherTechs(src, i) : Tech(src, p) \in DOMAIN Lower
  <1> SUFFICES ASSUME NEW p \in OtherTechs(src, i)
               PROVE  p \in Nat \X Nat /\ Tech(src, p) \in DOMAIN Lower
    OBVIOUS
  <1>1. PICK j \in DOMAIN src.exps : p \in {j} \X DOMAIN src.exps[j].stack
    BY DEF OtherTechs
  <1>2. p[1] = j /\ p[2] \in DOMAIN src.exps[j].stack /\ p = <<j, p[2]>>
    BY <1>1
  <1>3. IsList(src.exps[j].stack) /\ Range(src.exps[j].stack) \subseteq DOMAIN Lower
    BY TextLists DEF IsProfile
  <1>4. j \in Nat /\ p[2] \in Nat
    BY <1>2, <1>3, FiniteDomain DEF IsProfile
  <1>5. Tech(src, p) \in DOMAIN Lower
    BY <1>2, <1>3, TextLists DEF Tech
  <1> QED
    BY <1>2, <1>4, <1>5

\* Of a technology that an experience does not show, a first name is listed.
LEMMA FirstForeign ==
    ASSUME NEW src, IsProfile(src), NEW i,
           NEW p \in OtherTechs(src, i), ~EvidencedIn(src, Tech(src, p), i)
    PROVE  \E q \in OtherTechs(src, i) :
              /\ Canonical(src, Tech(src, q)) = Canonical(src, Tech(src, p))
              /\ Names(src, Tech(src, q)) \subseteq Foreign(src, i)
  <1> DEFINE S == {q \in OtherTechs(src, i) :
                      /\ Canonical(src, Tech(src, q)) = Canonical(src, Tech(src, p))
                      /\ ~EvidencedIn(src, Tech(src, q), i)}
  <1>1. S \in SUBSET (Nat \X Nat) /\ S # {}
    BY OtherPlaces
  <1>2. PICK q \in S : \A r \in S : ~Above(r, q)
    <2> HIDE DEF S
    <2> QED
      BY <1>1, FirstPlace
  <1>3. New(src, i, q)
    BY <1>2 DEF New
  <1>4. Names(src, Tech(src, q)) \subseteq Foreign(src, i)
    BY <1>3 DEF Foreign
  <1> QED
    BY <1>4

\* The text of an experience shows the technologies that it names.
LEMMA ShownInText ==
    ASSUME NEW src, NEW i, NEW w, EvidencedIn(src, w, i)
    PROVE  \E x \in TextOf(src.exps[i]) : Canonical(src, x) = Canonical(src, w)
  <1>1. CASE Canonical(src, w) \in {Canonical(src, t) : t \in Range(src.exps[i].stack)}
    BY <1>1 DEF TextOf
  <1>2. CASE Mentions(TextOf(src.exps[i]), w)
    <2>1. \E x \in TextOf(src.exps[i]) : x = w \/ Lower[x] = Lower[w]
      BY <1>2 DEF Mentions, Cites
    <2> QED
      BY <2>1 DEF Canonical
  <1> QED
    BY <1>1, <1>2 DEF EvidencedIn

LEMMA NoForeignWord ==
    ASSUME NEW src, IsProfile(src), NEW i, NEW words \in SUBSET DOMAIN Lower,
           \A w \in Foreign(src, i) : ~Mentions(words, w),
           NEW w \in words, \A x \in TextOf(src.exps[i]) : Canonical(src, x) # Canonical(src, w),
           NEW p \in OtherTechs(src, i), Canonical(src, Tech(src, p)) = Canonical(src, w)
    PROVE  /\ w \in Short
           /\ \E q \in OtherTechs(src, i) :
                 Canonical(src, Tech(src, q)) = Canonical(src, w) /\ Tech(src, q) # w
  <1>1. ~EvidencedIn(src, Tech(src, p), i)
    BY ShownInText
  <1>2. PICK q \in OtherTechs(src, i) :
            /\ Canonical(src, Tech(src, q)) = Canonical(src, w)
            /\ Names(src, Tech(src, q)) \subseteq Foreign(src, i)
    BY <1>1, FirstForeign
  <1>3. w \in DOMAIN Lower /\ Lower[w] \in DOMAIN Lower /\ Lower[Lower[w]] = Lower[w]
    BY SpellingAssumption
  <1>4. Lower[w] \in Names(src, Tech(src, q))
    BY <1>2 DEF Names, Canonical
  <1>5. ~Mentions(words, Lower[w])
    BY <1>2, <1>4
  <1>6. Lower[w] \in Short
    BY <1>3, <1>5 DEF Mentions, Cites
  <1>7. w \in Short
    BY <1>3, <1>6, SpellingAssumption
  <1>8. Tech(src, q) # w
    <2>1. Tech(src, q) \in Names(src, Tech(src, q))
      BY DEF Names
    <2>2. ~Mentions(words, Tech(src, q))
      BY <1>2, <2>1
    <2> QED
      BY <2>2, <1>7 DEF Mentions
  <1> QED
    BY <1>2, <1>7, <1>8

\* What is kept of the bullets of the last answer has passed the checks.
LEMMA BulletsPassed ==
    ASSUME NEW src, NEW i, NEW a, IsAnswer(a),
           NEW b \in Range(Bullets(src, i, a.exps)) \ Range(src.exps[i].achievements)
    PROVE  /\ b.numbers \subseteq src.exps[i].numbers
           /\ b.words \subseteq DOMAIN Lower
           /\ \A w \in Foreign(src, i) : ~Mentions(b.words, w)
  <1> DEFINE of == IF About(a.exps, i) = {} THEN <<>> ELSE LastAbout(a.exps, i).bullets
             ok(c) == /\ c.numbers \subseteq src.exps[i].numbers
                      /\ \A w \in Foreign(src, i) : ~Mentions(c.words, w)
             keep == [k \in DOMAIN of |-> ok(of[k])]
             kept == ThoseWith(of, keep)
  <1>1. IsList(of) /\ \A c \in Range(of) : c.words \subseteq DOMAIN Lower
    <2>1. CASE About(a.exps, i) = {}
      BY <2>1, EmptyIsList DEF Range
    <2>2. CASE About(a.exps, i) # {}
      <3>1. Len(a.exps) \in Nat /\ DOMAIN a.exps = 1..Len(a.exps)
        BY ListFacts DEF IsAnswer
      <3>2. About(a.exps, i) \in SUBSET (1..Len(a.exps))
        BY <3>1 DEF About
      <3>3. \E k \in About(a.exps, i) : \A l \in About(a.exps, i) : l <= k
        BY <2>2, <3>1, <3>2, GreatestOne
      <3>4. PICK k \in About(a.exps, i) : LastAbout(a.exps, i) = a.exps[k]
        BY <3>3 DEF LastAbout
      <3>5. LastAbout(a.exps, i) \in Range(a.exps)
        BY <3>1, <3>2, <3>4 DEF Range
      <3> QED
        BY <2>2, <3>5 DEF IsAnswer
    <2> QED
      BY <2>1, <2>2
  <1>2. \A k \in DOMAIN of : keep[k] <=> ok(of[k])
    OBVIOUS
  <1>3. Bullets(src, i, a.exps) = IF kept = <<>> THEN src.exps[i].achievements ELSE kept
    BY DEF Bullets, Verified
  <1>4. b \in Range(kept)
    BY <1>3
  <1> HIDE DEF of, keep, ok
  <1>5. \A k \in DOMAIN kept : \E j \in DOMAIN of : keep[j] /\ kept[k] = of[j]
    BY <1>1, KeptOnes
  <1>6. \E j \in DOMAIN of : keep[j] /\ b = of[j]
    <2> HIDE DEF kept
    <2> QED
      BY <1>4, <1>5 DEF Range
  <1>7. b \in Range(of) /\ ok(b)
    BY <1>2, <1>6 DEF Range
  <1> QED
    BY <1>1, <1>7 DEF ok

-----------------------------------------------------------------------------
(* The skills. *)

LEMMA LastOfSome ==
    ASSUME NEW accepted, IsFiniteSet(accepted), NEW order \in Orders(accepted),
           NEW some \in SUBSET accepted, some # {}
    PROVE  Latest(order, some) \in some
  <1> DEFINE n == Cardinality(accepted)
             T == {order[t] : t \in some}
  <1>1. n \in Nat /\ order \in [accepted -> 1..n]
    BY FS_CardinalityType DEF Orders
  <1>2. T \in SUBSET (1..n) /\ T # {}
    BY <1>1
  <1>3. PICK m \in T : \A k \in T : k <= m
    <2> HIDE DEF T, n
    <2> QED
      BY <1>1, <1>2, GreatestOne
  <1>4. \E t \in some : \A u \in some : order[u] <= order[t]
    BY <1>3
  <1> QED
    BY <1>4 DEF Latest

\* A skill is shown under its name, or under a translation that was accepted.
LEMMA ShownAs ==
    ASSUME NEW accepted, IsFiniteSet(accepted), NEW order \in Orders(accepted), NEW w
    PROVE  \/ Display(order, w) = w
           \/ \E t \in accepted : Lower[t.from] = Lower[w] /\ t.to = Display(order, w)
  <1> DEFINE of == {t \in accepted : Lower[t.from] = Lower[w]}
  <1>1. DOMAIN order = accepted
    BY DEF Orders
  <1>2. Display(order, w) = IF of = {} THEN w ELSE Latest(order, of).to
    BY <1>1 DEF Display
  <1>3. CASE of = {}
    BY <1>2, <1>3
  <1>4. CASE of # {}
    <2>1. Latest(order, of) \in of
      BY <1>4, LastOfSome
    <2> QED
      BY <1>2, <1>4, <2>1
  <1> QED
    BY <1>3, <1>4

\* The rows of skills as the profile calls them, and what is left of them.
SkillRows(order, groups) ==
    [g \in DOMAIN groups |-> [k \in DOMAIN groups[g] |-> Item(order, groups[g][k])]]
Left(src, rows) ==
    [g \in DOMAIN rows |-> ThoseWith(rows[g], [k \in DOMAIN rows[g] |-> Shows(src, rows, g, k)])]
AreRows(rows) == IsList(rows) /\ \A g \in DOMAIN rows : IsList(rows[g])

LEMMA RowsAreRows ==
    ASSUME NEW order, NEW groups, IsList(groups), \A g \in Range(groups) : IsList(g)
    PROVE  LET rows == SkillRows(order, groups)
           IN  /\ AreRows(rows) /\ DOMAIN rows = DOMAIN groups
               /\ \A g \in DOMAIN groups : DOMAIN rows[g] = DOMAIN groups[g]
               /\ \A g \in DOMAIN groups : \A k \in DOMAIN groups[g] : rows[g][k] = Item(order, groups[g][k])
  <1> DEFINE rows == SkillRows(order, groups)
             row(g) == [k \in DOMAIN groups[g] |-> Item(order, groups[g][k])]
  <1>1. DOMAIN rows = DOMAIN groups /\ rows = [g \in DOMAIN rows |-> rows[g]]
        /\ \A g \in DOMAIN groups : rows[g] = row(g)
    BY DEF SkillRows
  <1>2. \A g \in DOMAIN groups : /\ DOMAIN row(g) = DOMAIN groups[g]
                                 /\ row(g) = [k \in DOMAIN row(g) |-> row(g)[k]]
                                 /\ \A k \in DOMAIN groups[g] : row(g)[k] = Item(order, groups[g][k])
    OBVIOUS
  <1> HIDE DEF rows, row
  <1>3. IsList(rows)
    BY <1>1, MappedIsList
  <1>4. \A g \in DOMAIN groups : IsList(groups[g])
    BY TextLists
  <1>5. \A g \in DOMAIN groups : IsList(row(g))
    BY <1>2, <1>4, MappedIsList
  <1> QED
    BY <1>1, <1>2, <1>3, <1>5 DEF AreRows, rows

LEMMA LeftInRow ==
    ASSUME NEW src, NEW rows, AreRows(rows), NEW g \in DOMAIN rows
    PROVE  LET u == Left(src, rows)[g] s == rows[g]
           IN  /\ IsList(u)
               /\ \A k \in DOMAIN u : \E x \in DOMAIN s : Shows(src, rows, g, x) /\ u[k] = s[x]
               /\ \A x \in DOMAIN s : Shows(src, rows, g, x) => \E k \in DOMAIN u : u[k] = s[x]
               /\ \A j, k \in DOMAIN u : j # k =>
                     \E x, y \in DOMAIN s : /\ x # y /\ Shows(src, rows, g, x) /\ Shows(src, rows, g, y)
                                            /\ u[j] = s[x] /\ u[k] = s[y]
  <1> DEFINE s == rows[g]
             keep == [k \in DOMAIN s |-> Shows(src, rows, g, k)]
             u == ThoseWith(s, keep)
  <1>1. \A k \in DOMAIN s : keep[k] <=> Shows(src, rows, g, k)
    OBVIOUS
  <1>2. Left(src, rows)[g] = u
    BY DEF Left
  <1>3. IsList(s)
    BY DEF AreRows
  <1> HIDE DEF keep, s
  <1>4. /\ IsList(u)
        /\ \A k \in DOMAIN u : \E i \in DOMAIN s : keep[i] /\ u[k] = s[i]
        /\ \A i \in DOMAIN s : keep[i] => \E k \in DOMAIN u : u[k] = s[i]
        /\ \A j, k \in DOMAIN u : j # k =>
              \E x, y \in DOMAIN s : /\ x # y /\ keep[x] /\ keep[y] /\ u[j] = s[x] /\ u[k] = s[y]
    BY <1>3, KeptOnes
  <1> HIDE DEF u
  <1>5. /\ \A k \in DOMAIN u : \E i \in DOMAIN s : Shows(src, rows, g, i) /\ u[k] = s[i]
        /\ \A i \in DOMAIN s : Shows(src, rows, g, i) => \E k \in DOMAIN u : u[k] = s[i]
    BY <1>1, <1>4
  <1>6. \A j, k \in DOMAIN u : j # k =>
            \E x, y \in DOMAIN s : /\ x # y /\ Shows(src, rows, g, x) /\ Shows(src, rows, g, y)
                                   /\ u[j] = s[x] /\ u[k] = s[y]
    BY <1>1, <1>4
  <1> QED
    BY <1>2, <1>4, <1>5, <1>6 DEF s

\* Of two skills that are shown, one comes after the other and has another name.
LEMMA ShownOnce ==
    ASSUME NEW src, NEW rows, AreRows(rows), NEW g \in DOMAIN rows, NEW h \in DOMAIN rows,
           NEW x \in DOMAIN rows[g], NEW y \in DOMAIN rows[h], <<g, x>> # <<h, y>>,
           Shows(src, rows, g, x), Shows(src, rows, h, y)
    PROVE  Lower[rows[g][x].name] # Lower[rows[h][y].name]
  <1>1. g \in Nat /\ g >= 1 /\ h \in Nat /\ h >= 1
    BY ListFacts DEF AreRows
  <1>2. x \in Nat /\ y \in Nat
    BY FiniteDomain DEF AreRows
  <1>3. Above(<<g, x>>, <<h, y>>) \/ Above(<<h, y>>, <<g, x>>)
    BY <1>1, <1>2 DEF Above
  <1>4. CASE Above(<<g, x>>, <<h, y>>)
    <2>1. g \in 1..h
      BY <1>1, <1>2, <1>4 DEF Above
    <2> QED
      BY <1>4, <2>1 DEF Shows
  <1>5. CASE Above(<<h, y>>, <<g, x>>)
    <2>1. h \in 1..g
      BY <1>1, <1>2, <1>5 DEF Above
    <2> QED
      BY <1>5, <2>1 DEF Shows
  <1> QED
    BY <1>3, <1>4, <1>5

\* The name of a skill that could be shown is shown, perhaps of another one.
LEMMA NameIsShown ==
    ASSUME NEW src, NEW rows, AreRows(rows), NEW g \in DOMAIN rows, NEW x \in DOMAIN rows[g],
           Fresh(src, rows, g, x)
    PROVE  \E h \in DOMAIN rows : \E y \in DOMAIN rows[h] :
              Shows(src, rows, h, y) /\ Lower[rows[h][y].name] = Lower[rows[g][x].name]
  <1> DEFINE Same(h, y) == Fresh(src, rows, h, y) /\ Lower[rows[h][y].name] = Lower[rows[g][x].name]
             S == {q \in Nat \X Nat : q[1] \in DOMAIN rows /\ q[2] \in DOMAIN rows[q[1]] /\ Same(q[1], q[2])}
  <1>1. \A h \in DOMAIN rows : h \in Nat /\ \A y \in DOMAIN rows[h] : y \in Nat
    BY FiniteDomain DEF AreRows
  <1>2. S \in SUBSET (Nat \X Nat) /\ S # {}
    <2>1. <<g, x>> \in S
      BY <1>1
    <2> QED
      BY <2>1
  <1>3. PICK q \in S : \A r \in S : ~Above(r, q)
    <2> HIDE DEF S
    <2> QED
      BY <1>2, FirstPlace
  <1> DEFINE h == q[1] y == q[2]
  <1>4. h \in DOMAIN rows /\ y \in DOMAIN rows[h] /\ Same(h, y) /\ q = <<h, y>>
    BY <1>3
  <1>5. Shows(src, rows, h, y)
    <2> SUFFICES ASSUME NEW i \in 1..h, NEW l \in DOMAIN rows[i], Above(<<i, l>>, <<h, y>>),
                        Fresh(src, rows, i, l), Lower[rows[i][l].name] = Lower[rows[h][y].name]
                 PROVE  FALSE
      BY <1>4 DEF Shows
    <2>1. i \in DOMAIN rows
      BY <1>4, ListFacts DEF AreRows
    <2>2. <<i, l>> \in S
      BY <1>1, <1>4, <2>1
    <2> QED
      BY <1>3, <1>4, <2>2
  <1> QED
    BY <1>4, <1>5

\* Of a technology in a group the first that the profile has could be shown.
LEMMA FirstIsFresh ==
    ASSUME NEW src, NEW rows, AreRows(rows), NEW g \in DOMAIN rows, NEW x \in DOMAIN rows[g],
           Has(src, rows[g][x].of)
    PROVE  \E y \in DOMAIN rows[g] : /\ Fresh(src, rows, g, y)
                                      /\ Canonical(src, rows[g][y].of) = Canonical(src, rows[g][x].of)
  <1> DEFINE T == {y \in DOMAIN rows[g] : /\ Has(src, rows[g][y].of)
                                          /\ Canonical(src, rows[g][y].of) = Canonical(src, rows[g][x].of)}
  <1>1. Len(rows[g]) \in Nat /\ DOMAIN rows[g] = 1..Len(rows[g])
    BY ListFacts DEF AreRows
  <1>2. PICK y \in T : \A l \in T : y <= l
    <2>1. T \in SUBSET Nat /\ T # {}
      BY <1>1
    <2> HIDE DEF T
    <2> QED
      BY <2>1, LeastNumber
  <1>3. Fresh(src, rows, g, y)
    <2> SUFFICES ASSUME NEW l \in 1..(y - 1), Has(src, rows[g][l].of),
                        Canonical(src, rows[g][l].of) = Canonical(src, rows[g][y].of)
                 PROVE  FALSE
      BY DEF Fresh
    <2>1. l \in DOMAIN rows[g] /\ l < y
      BY <1>1
    <2>2. l \in T
      BY <2>1
    <2>3. y <= l /\ y \in Nat /\ l \in Nat
      BY <1>1, <1>2, <2>2
    <2> QED
      BY <2>1, <2>3
  <1> QED
    BY <1>3

\* The groups that are shown: of which row each is, and that no row is lost.
Grouped(src, rows, inGroups) ==
    /\ \A g \in DOMAIN inGroups : \E h \in DOMAIN rows : inGroups[g] = Left(src, rows)[h]
    /\ \A g, h \in DOMAIN inGroups : g # h =>
          \E i, j \in DOMAIN rows : /\ i # j
                                    /\ inGroups[g] = Left(src, rows)[i] /\ inGroups[h] = Left(src, rows)[j]
    /\ \A h \in DOMAIN rows : Left(src, rows)[h] # <<>> =>
          \E g \in DOMAIN inGroups : inGroups[g] = Left(src, rows)[h]

LEMMA GroupsAreGrouped ==
    ASSUME NEW src, NEW order, NEW groups, AreRows(SkillRows(order, groups))
    PROVE  Grouped(src, SkillRows(order, groups), SkillGroups(src, order, groups))
  <1> DEFINE rows == SkillRows(order, groups)
             left == Left(src, rows)
             keep == [g \in DOMAIN left |-> left[g] # <<>>]
             inGroups == ThoseWith(left, keep)
  <1>1. SkillGroups(src, order, groups) = inGroups
    BY DEF SkillGroups, SkillRows, Left
  <1>2. DOMAIN left = DOMAIN rows /\ left = [g \in DOMAIN left |-> left[g]]
    BY DEF Left
  <1>3. \A g \in DOMAIN left : keep[g] <=> left[g] # <<>>
    OBVIOUS
  <1> HIDE DEF rows, left, keep
  <1>4. IsList(left)
    BY <1>2, MappedIsList DEF AreRows, rows
  <1>5. /\ \A k \in DOMAIN inGroups : \E i \in DOMAIN left : keep[i] /\ inGroups[k] = left[i]
        /\ \A i \in DOMAIN left : keep[i] => \E k \in DOMAIN inGroups : inGroups[k] = left[i]
        /\ \A j, k \in DOMAIN inGroups : j # k =>
              \E x, y \in DOMAIN left : /\ x # y /\ keep[x] /\ keep[y]
                                        /\ inGroups[j] = left[x] /\ inGroups[k] = left[y]
    BY <1>4, KeptOnes
  <1> HIDE DEF inGroups
  <1>6. /\ \A g \in DOMAIN inGroups : \E h \in DOMAIN rows : inGroups[g] = left[h]
        /\ \A h \in DOMAIN rows : left[h] # <<>> => \E g \in DOMAIN inGroups : inGroups[g] = left[h]
    BY <1>2, <1>3, <1>5
  <1>7. \A g, h \in DOMAIN inGroups : g # h =>
            \E i, j \in DOMAIN rows : i # j /\ inGroups[g] = left[i] /\ inGroups[h] = left[j]
    BY <1>2, <1>5
  <1>8. Grouped(src, rows, inGroups)
    BY <1>6, <1>7 DEF Grouped, left
  <1> QED
    BY <1>1, <1>8 DEF rows

LEMMA NamesDiffer ==
    ASSUME NEW src, NEW rows, AreRows(rows), NEW inGroups, Grouped(src, rows, inGroups),
           NEW g \in DOMAIN inGroups, NEW h \in DOMAIN inGroups, NEW k \in DOMAIN inGroups[g], NEW l \in DOMAIN inGroups[h],
           Lower[inGroups[g][k].name] = Lower[inGroups[h][l].name]
    PROVE  g = h /\ k = l
  <1>1. CASE g # h
    <2>1. PICK i \in DOMAIN rows, j \in DOMAIN rows :
              i # j /\ inGroups[g] = Left(src, rows)[i] /\ inGroups[h] = Left(src, rows)[j]
      BY <1>1 DEF Grouped
    <2>2. PICK x \in DOMAIN rows[i] : Shows(src, rows, i, x) /\ inGroups[g][k] = rows[i][x]
      BY <2>1, LeftInRow
    <2>3. PICK y \in DOMAIN rows[j] : Shows(src, rows, j, y) /\ inGroups[h][l] = rows[j][y]
      BY <2>1, LeftInRow
    <2>4. <<i, x>> # <<j, y>>
      BY <2>1
    <2> QED
      BY <2>2, <2>3, <2>4, ShownOnce
  <1>2. CASE g = h /\ k # l
    <2>1. PICK i \in DOMAIN rows : inGroups[g] = Left(src, rows)[i]
      BY DEF Grouped
    <2>2. PICK x \in DOMAIN rows[i], y \in DOMAIN rows[i] :
              /\ x # y /\ Shows(src, rows, i, x) /\ Shows(src, rows, i, y)
              /\ inGroups[g][k] = rows[i][x] /\ inGroups[g][l] = rows[i][y]
      BY <1>2, <2>1, LeftInRow
    <2>3. <<i, x>> # <<i, y>>
      BY <2>2
    <2> QED
      BY <1>2, <2>2, <2>3, ShownOnce
  <1> QED
    BY <1>1, <1>2

LEMMA SkillsAreThose ==
    ASSUME NEW src, NEW order, NEW groups, IsList(groups), \A g \in Range(groups) : IsList(g),
           NEW g \in DOMAIN SkillGroups(src, order, groups),
           NEW k \in DOMAIN SkillGroups(src, order, groups)[g]
    PROVE  LET x == SkillGroups(src, order, groups)[g][k]
           IN  Has(src, x.of) /\ x.name = Display(order, x.of)
  <1> DEFINE rows == SkillRows(order, groups)
             inGroups == SkillGroups(src, order, groups)
  <1>1. /\ AreRows(rows) /\ DOMAIN rows = DOMAIN groups
        /\ \A h \in DOMAIN groups : DOMAIN rows[h] = DOMAIN groups[h]
        /\ \A h \in DOMAIN groups : \A l \in DOMAIN groups[h] : rows[h][l] = Item(order, groups[h][l])
    BY RowsAreRows
  <1>2. Grouped(src, rows, inGroups)
    BY <1>1, GroupsAreGrouped
  <1> HIDE DEF rows, inGroups
  <1>3. PICK h \in DOMAIN rows : inGroups[g] = Left(src, rows)[h]
    BY <1>2 DEF Grouped, inGroups
  <1>4. PICK y \in DOMAIN rows[h] : Shows(src, rows, h, y) /\ inGroups[g][k] = rows[h][y]
    BY <1>1, <1>3, LeftInRow DEF inGroups
  <1>5. Has(src, rows[h][y].of)
    BY <1>4 DEF Shows, Fresh
  <1>6. rows[h][y].name = Display(order, rows[h][y].of)
    <2>1. rows[h][y] = Item(order, groups[h][y])
      BY <1>1
    <2> QED
      BY <2>1 DEF Item
  <1>7. inGroups[g][k] = rows[h][y]
    BY <1>4
  <1> HIDE DEF inGroups
  <1>8. Has(src, inGroups[g][k].of) /\ inGroups[g][k].name = Display(order, inGroups[g][k].of)
    BY <1>5, <1>6, <1>7
  <1> QED
    BY <1>8 DEF inGroups

LEMMA NoSkillIsLost ==
    ASSUME NEW src, NEW order, NEW groups, IsList(groups), \A g \in Range(groups) : IsList(g),
           NEW g \in Range(groups), NEW w \in Range(g), Has(src, Original(order, w))
    PROVE  LET inGroups == SkillGroups(src, order, groups)
           IN  \E v \in Range(g) :
                  /\ Canonical(src, Original(order, v)) = Canonical(src, Original(order, w))
                  /\ \E i \in DOMAIN inGroups : \E k \in DOMAIN inGroups[i] :
                        Lower[inGroups[i][k].name] = Lower[Display(order, Original(order, v))]
  <1> DEFINE rows == SkillRows(order, groups)
             inGroups == SkillGroups(src, order, groups)
  <1>1. /\ AreRows(rows) /\ DOMAIN rows = DOMAIN groups
        /\ \A h \in DOMAIN groups : DOMAIN rows[h] = DOMAIN groups[h]
        /\ \A h \in DOMAIN groups : \A l \in DOMAIN groups[h] : rows[h][l] = Item(order, groups[h][l])
    BY RowsAreRows
  <1>2. Grouped(src, rows, inGroups)
    BY <1>1, GroupsAreGrouped
  <1> HIDE DEF rows, inGroups
  <1>3. PICK h \in DOMAIN groups : groups[h] = g
    BY DEF Range
  <1>4. PICK x \in DOMAIN g : g[x] = w
    BY DEF Range
  <1>5. \A l \in DOMAIN g : /\ rows[h][l].of = Original(order, g[l])
                            /\ rows[h][l].name = Display(order, Original(order, g[l]))
    <2>1. \A l \in DOMAIN g : rows[h][l] = Item(order, g[l])
      BY <1>1, <1>3
    <2>2. \A v : Item(order, v).of = Original(order, v) /\ Item(order, v).name = Display(order, Original(order, v))
      BY DEF Item
    <2> QED
      BY <2>1, <2>2
  <1>6. x \in DOMAIN rows[h] /\ h \in DOMAIN rows /\ DOMAIN rows[h] = DOMAIN g
    BY <1>1, <1>3, <1>4
  <1>7. PICK y \in DOMAIN rows[h] : /\ Fresh(src, rows, h, y)
                                    /\ Canonical(src, rows[h][y].of) = Canonical(src, rows[h][x].of)
    <2>1. AreRows(rows) /\ Has(src, rows[h][x].of)
      BY <1>1, <1>4, <1>5
    <2> QED
      BY <1>6, <2>1, FirstIsFresh
  <1>19. AreRows(rows)
    BY <1>1
  <1>20. PICK i \in DOMAIN rows : \E z \in DOMAIN rows[i] :
             Shows(src, rows, i, z) /\ Lower[rows[i][z].name] = Lower[rows[h][y].name]
    BY <1>6, <1>7, <1>19, NameIsShown
  <1>8. PICK z \in DOMAIN rows[i] :
            Shows(src, rows, i, z) /\ Lower[rows[i][z].name] = Lower[rows[h][y].name]
    BY <1>20
  <1>9. PICK k \in DOMAIN Left(src, rows)[i] : Left(src, rows)[i][k] = rows[i][z]
    BY <1>8, <1>19, LeftInRow
  <1>10. Left(src, rows)[i] # <<>>
    BY <1>9, EmptyIsList
  <1>11. PICK j \in DOMAIN inGroups : inGroups[j] = Left(src, rows)[i]
    BY <1>2, <1>10 DEF Grouped
  <1>12. Lower[inGroups[j][k].name] = Lower[Display(order, Original(order, g[y]))]
    BY <1>5, <1>6, <1>8, <1>9, <1>11
  <1>13. /\ g[y] \in Range(g)
         /\ Canonical(src, Original(order, g[y])) = Canonical(src, Original(order, w))
    BY <1>4, <1>5, <1>6, <1>7 DEF Range
  <1>14. k \in DOMAIN inGroups[j]
    BY <1>9, <1>11
  <1> QED
    BY <1>12, <1>13, <1>14 DEF inGroups

-----------------------------------------------------------------------------
(* The strengths. *)

LEMMA StrengthsPassed ==
    ASSUME NEW src, NEW points, IsList(points), NEW words \in Range(Strengths(src, points)),
           NEW w \in src.jobStack, Cites(words, w)
    PROVE  Has(src, w)
  <1> DEFINE known(g) == \E v \in g : Has(src, v)
             cited(ws, g) == \E v \in g : Cites(ws, v)
             ok(ws) == \A g \in Kinds \cup {{v} : v \in src.jobStack} : cited(ws, g) => known(g)
             keep == [k \in DOMAIN points |-> ok(points[k])]
             kept == ThoseWith(points, keep)
  <1>1. \A k \in DOMAIN points : keep[k] <=> ok(points[k])
    OBVIOUS
  <1>2. Strengths(src, points) = kept
    BY DEF Strengths
  <1> HIDE DEF keep, ok
  <1>3. \A k \in DOMAIN kept : \E i \in DOMAIN points : keep[i] /\ kept[k] = points[i]
    BY KeptOnes
  <1> HIDE DEF kept
  <1>4. \E i \in DOMAIN points : keep[i] /\ words = points[i]
    BY <1>2, <1>3 DEF Range
  <1>5. ok(words)
    BY <1>1, <1>4
  <1>6. {w} \in Kinds \cup {{v} : v \in src.jobStack} /\ cited(words, {w})
    OBVIOUS
  <1>7. known({w})
    BY <1>5, <1>6 DEF ok
  <1> QED
    BY <1>7

-----------------------------------------------------------------------------
(* What is written is an answer whose summary says nothing wrong; what is  *)
(* stored is made of it, in some order of its translations.                *)
TaskInv ==
    /\ IsProfile(Src) /\ IsAnswer(task.first)
    /\ task.second = <<>> \/ (task.second = <<task.second[1]>> /\ IsAnswer(task.second[1]))
TextInv == step # "asked" => IsAnswer(text)
SummaryInv == step \in {"written", "done"} => SaysNoWrong(Src, text.summary)
DocInv ==
    step = "done" => \E order \in Orders(Accepted(Src, text)) : resume = Assembled(Src, text, order)
ResumeInv == TaskInv /\ TextInv /\ SummaryInv /\ DocInv

LEMMA ResumeInitInv ==
    ASSUME ResumeInit
    PROVE  ResumeInv
BY TasksAssumption DEF ResumeInit, ResumeInv, TaskInv, TextInv, SummaryInv, DocInv, Src

LEMMA SummaryIsKept ==
    ASSUME NEW a, IsAnswer(a), NEW src
    PROVE  /\ ~SummaryViolated(src, a.summary) => SaysNoWrong(src, a.summary)
           /\ SaysNoWrong(src, Strip(src, a.summary))
BY NotViolated, StripsWrong DEF IsAnswer

LEMMA CutIsAnswer ==
    ASSUME NEW a, IsAnswer(a), NEW src
    PROVE  LET cut == [a EXCEPT !.summary = Strip(src, @)]
           IN  IsAnswer(cut) /\ cut.summary = Strip(src, a.summary)
  <1> DEFINE s == Strip(src, a.summary)
             cut == [a EXCEPT !.summary = s]
  <1>1. SaysNoWrong(src, s)
    BY SummaryIsKept
  <1>2. IsList(s) /\ \A x \in Range(s) : x.words \subseteq DOMAIN Lower
    BY <1>1 DEF SaysNoWrong
  <1> HIDE DEF s
  <1>3. /\ DOMAIN cut = DOMAIN a /\ cut.summary = s /\ cut.exps = a.exps /\ cut.skills = a.skills
        /\ cut.translations = a.translations /\ cut.projects = a.projects /\ cut.strengths = a.strengths
    BY DEF IsAnswer
  <1> HIDE DEF cut
  <1>4. IsAnswer(cut) /\ cut.summary = s
    BY <1>2, <1>3 DEF IsAnswer
  <1> QED
    BY <1>4 DEF cut, s

LEMMA ResumeStepInv ==
    ASSUME ResumeInv, [ResumeNext]_resumeVars
    PROVE  ResumeInv'
  <1> USE DEF ResumeInv
  <1>1. ASSUME Generate PROVE ResumeInv'
    <2>1. TaskInv' /\ TextInv'
      BY <1>1 DEF Generate, TaskInv, TextInv, Src
    <2>2. SummaryInv'
      BY <1>1, SummaryIsKept DEF Generate, TaskInv, SummaryInv, Src
    <2>3. DocInv'
      BY <1>1 DEF Generate, DocInv
    <2> QED
      BY <2>1, <2>2, <2>3
  <1>2. ASSUME Correct PROVE ResumeInv'
    <2> DEFINE now == IF task.second = <<>> THEN text ELSE task.second[1]
               cut == [now EXCEPT !.summary = Strip(task.src, @)]
    <2>1. IsAnswer(now)
      BY <1>2 DEF Correct, TaskInv, TextInv
    <2>2. text' = IF SummaryViolated(task.src, now.summary) THEN cut ELSE now
      BY <1>2 DEF Correct
    <2>3. TaskInv' /\ DocInv'
      BY <1>2 DEF Correct, TaskInv, DocInv, Src
    <2>4. IsAnswer(text') /\ SaysNoWrong(task.src, text'.summary)
      <3>1. CASE ~SummaryViolated(task.src, now.summary)
        <4> HIDE DEF now, cut
        <4> QED
          BY <2>1, <2>2, <3>1, SummaryIsKept
      <3>2. CASE SummaryViolated(task.src, now.summary)
        <4>1. IsAnswer(cut) /\ cut.summary = Strip(task.src, now.summary)
          <5> HIDE DEF now
          <5> QED
            BY <2>1, CutIsAnswer
        <4>2. SaysNoWrong(task.src, Strip(task.src, now.summary))
          <5> HIDE DEF now
          <5> QED
            BY <2>1, SummaryIsKept
        <4> HIDE DEF now, cut
        <4> QED
          BY <2>2, <3>2, <4>1, <4>2
      <3> QED
        BY <3>1, <3>2
    <2>5. TextInv' /\ SummaryInv'
      BY <1>2, <2>4 DEF Correct, TextInv, SummaryInv, Src
    <2> QED
      BY <2>3, <2>5
  <1>3. ASSUME Assemble PROVE ResumeInv'
    BY <1>3 DEF Assemble, TaskInv, TextInv, SummaryInv, DocInv, Src
  <1>4. ASSUME UNCHANGED resumeVars PROVE ResumeInv'
    BY <1>4 DEF resumeVars, TaskInv, TextInv, SummaryInv, DocInv, Src
  <1> QED
    BY <1>1, <1>2, <1>3, <1>4 DEF ResumeNext

-----------------------------------------------------------------------------
(* What the invariant says of what is stored. *)

LEMMA TrueSummary == ResumeInv /\ step = "done" => SummaryIsTrue
  <1> SUFFICES ASSUME ResumeInv, step = "done"
               PROVE  SummaryIsTrue
    OBVIOUS
  <1> DEFINE worked == UNION {p.from..(p.to - 1) : p \in Periods(Src)}
             said(f) == UNION {resume.summary[k][f] : k \in DOMAIN resume.summary}
  <1>1. IsProfile(Src) /\ SaysNoWrong(Src, text.summary) /\ resume.summary = text.summary
    BY DEF ResumeInv, TaskInv, SummaryInv, DocInv, Assembled
  <1>2. \A k \in DOMAIN resume.summary :
            /\ resume.summary[k].words \subseteq DOMAIN Lower
            /\ ~Breaks(Src, resume.summary[k].claims, resume.summary[k].words \ Dotted)
    BY <1>1 DEF SaysNoWrong, Range
  <1>3. \A c : c \in said("claims") => c \notin Forbidden(Src)
    BY <1>2 DEF Breaks
  <1>4. Cardinality(worked) < 12 => said("claims") \cap {"zero years", "inflated"} = {}
    <2>1. Cardinality(worked) \in Nat /\ YearsOfExperience(Src) = Cardinality(worked) \div 12
      BY <1>1, YearsAreWorked
    <2> HIDE DEF worked, said
    <2>2. Cardinality(worked) < 12 => YearsOfExperience(Src) = 0
      BY <2>1
    <2>3. YearsOfExperience(Src) = 0 => {"zero years", "inflated"} \subseteq Forbidden(Src)
      BY DEF Forbidden
    <2> QED
      BY <1>3, <2>2, <2>3
  <1>5. "degree" \in said("claims") => Src.educated
    <2>1. ~Src.educated => "degree" \in Forbidden(Src)
      BY DEF Forbidden
    <2> HIDE DEF said
    <2> QED
      BY <1>3, <2>1
  <1>6. ASSUME NEW w \in Src.jobStack \ Dotted, Cites(said("words"), w)
        PROVE  Has(Src, w)
    <2>1. PICK k \in DOMAIN resume.summary : \E x \in resume.summary[k].words : Lower[x] = Lower[w]
      BY <1>6 DEF Cites
    <2>2. PICK x \in resume.summary[k].words : Lower[x] = Lower[w]
      BY <2>1
    <2>3. x \in DOMAIN Lower /\ w \in DOMAIN Lower
      BY <1>1, <1>2 DEF IsProfile
    <2>4. x \notin Dotted
      BY <2>2, <2>3, SpellingAssumption
    <2>5. Cites(resume.summary[k].words \ Dotted, w)
      BY <2>2, <2>4 DEF Cites
    <2>6. w \notin Unknown(Src)
      BY <1>2, <2>5 DEF Breaks
    <2> QED
      BY <2>6 DEF Unknown
  <1> QED
    BY <1>4, <1>5, <1>6 DEF SummaryIsTrue

LEMMA OwnBullets == ResumeInv /\ step = "done" => BulletsAreOwn
  <1> SUFFICES ASSUME ResumeInv, step = "done", NEW i \in DOMAIN Src.exps,
                      NEW b \in Range(resume.bullets[i]) \ Range(Src.exps[i].achievements)
               PROVE  LET own == Classes(TextOf(Src.exps[i]))
                          others(w) == {t \in {Tech(Src, p) : p \in OtherTechs(Src, i)} :
                                            Canonical(Src, t) = Canonical(Src, w)}
                      IN  /\ b.numbers \subseteq Src.exps[i].numbers
                          /\ \A w \in b.words :
                                others(w) # {} /\ Canonical(Src, w) \notin own => w \in Short /\ others(w) # {w}
    BY DEF BulletsAreOwn
  <1>1. IsProfile(Src) /\ IsAnswer(text) /\ resume.bullets[i] = Bullets(Src, i, text.exps)
    BY DEF ResumeInv, TaskInv, TextInv, DocInv, Assembled
  <1>2. /\ b.numbers \subseteq Src.exps[i].numbers
        /\ b.words \subseteq DOMAIN Lower
        /\ \A w \in Foreign(Src, i) : ~Mentions(b.words, w)
    BY <1>1, BulletsPassed
  <1> DEFINE others(w) == {t \in {Tech(Src, p) : p \in OtherTechs(Src, i)} :
                              Canonical(Src, t) = Canonical(Src, w)}
  <1>3. ASSUME NEW w \in b.words, others(w) # {}, Canonical(Src, w) \notin Classes(TextOf(Src.exps[i]))
        PROVE  w \in Short /\ others(w) # {w}
    <2>1. PICK p \in OtherTechs(Src, i) : Canonical(Src, Tech(Src, p)) = Canonical(Src, w)
      BY <1>3
    <2>2. \A x \in TextOf(Src.exps[i]) : Canonical(Src, x) # Canonical(Src, w)
      BY <1>3 DEF Classes
    <2>3. /\ w \in Short
          /\ \E q \in OtherTechs(Src, i) :
                Canonical(Src, Tech(Src, q)) = Canonical(Src, w) /\ Tech(Src, q) # w
      BY <1>1, <1>2, <2>1, <2>2, NoForeignWord
    <2>4. \E t \in others(w) : t # w
      BY <2>3
    <2> HIDE DEF others
    <2> QED
      BY <2>3, <2>4
  <1> QED
    BY <1>2, <1>3

LEMMA KnownSkills == ResumeInv /\ step = "done" => SkillsAreKnown
  <1> SUFFICES ASSUME ResumeInv, step = "done"
               PROVE  SkillsAreKnown
    OBVIOUS
  <1> DEFINE inGroups == resume.skills
             order == resume.read
             called(w) == Original(order, w)
             isShown(name) == \E g \in DOMAIN inGroups : \E k \in DOMAIN inGroups[g] : Lower[inGroups[g][k].name] = Lower[name]
             accepted == Accepted(Src, text)
  <1>1. order \in Orders(accepted) /\ inGroups = SkillGroups(Src, order, text.skills)
    BY DEF ResumeInv, DocInv, Assembled
  <1>2. /\ IsList(text.skills) /\ (\A g \in Range(text.skills) : IsList(g)) /\ IsFiniteSet(text.translations)
    BY DEF ResumeInv, TextInv, IsAnswer
  <1>3. accepted \subseteq text.translations /\ \A t \in accepted : ~t.adds
    BY DEF Accepted
  <1>4. IsFiniteSet(accepted)
    BY <1>2, <1>3, FS_Subset
  <1>5. AreRows(SkillRows(order, text.skills)) /\ Grouped(Src, SkillRows(order, text.skills), inGroups)
    BY <1>1, <1>2, RowsAreRows, GroupsAreGrouped
  <1> HIDE DEF accepted
  <1>6. \A g, h \in DOMAIN inGroups : \A k \in DOMAIN inGroups[g], l \in DOMAIN inGroups[h] :
            Lower[inGroups[g][k].name] = Lower[inGroups[h][l].name] => g = h /\ k = l
    BY <1>5, NamesDiffer
  <1>7. ASSUME NEW g \in DOMAIN inGroups, NEW x \in Range(inGroups[g])
        PROVE  /\ Has(Src, x.of)
               /\ \/ x.name = x.of
                  \/ \E t \in text.translations : ~t.adds /\ Lower[t.from] = Lower[x.of] /\ t.to = x.name
    <2>1. PICK k \in DOMAIN inGroups[g] : x = inGroups[g][k]
      BY <1>7 DEF Range
    <2>2. Has(Src, x.of) /\ x.name = Display(order, x.of)
      BY <1>1, <1>2, <2>1, SkillsAreThose
    <2>3. \/ Display(order, x.of) = x.of
          \/ \E t \in accepted : Lower[t.from] = Lower[x.of] /\ t.to = Display(order, x.of)
      BY <1>1, <1>4, ShownAs
    <2> QED
      BY <1>3, <2>2, <2>3
  <1>8. ASSUME NEW g \in Range(text.skills), NEW w \in Range(g), Has(Src, called(w))
        PROVE  \E v \in Range(g) : /\ Canonical(Src, called(v)) = Canonical(Src, called(w))
                                   /\ isShown(Display(order, called(v)))
    BY <1>1, <1>2, <1>8, NoSkillIsLost
  <1> QED
    BY <1>6, <1>7, <1>8 DEF SkillsAreKnown

LEMMA KnownStrengths == ResumeInv /\ step = "done" => StrengthsAreKnown
  <1> SUFFICES ASSUME ResumeInv, step = "done"
               PROVE  StrengthsAreKnown
    OBVIOUS
  <1> DEFINE points == Cap(text.strengths, MaxAnalysisItems)
  <1>1. IsList(text.strengths) /\ resume.strengths = Strengths(Src, points)
    BY DEF ResumeInv, TextInv, IsAnswer, DocInv, Assembled
  <1>2. IsList(points)
    BY <1>1, CapIsList DEF MaxAnalysisItems
  <1> HIDE DEF points
  <1> QED
    BY <1>1, <1>2, StrengthsPassed DEF StrengthsAreKnown

(* A resume says nothing that the profile does not support                 *)
(* (resume/assemble.go:61, summary.go:97, analysis.go:74), whatever the AI *)
(* answers: for every profile, spelling of the names and order in which    *)
(* the translations are read.                                              *)
THEOREM ResumeIsSupportedHolds == ResumeSpec => []ResumeIsSupported
  <1>1. ResumeInit => ResumeInv
    BY ResumeInitInv
  <1>2. ResumeInv /\ [ResumeNext]_resumeVars => ResumeInv'
    BY ResumeStepInv
  <1>3. ResumeInv => ResumeIsSupported
    BY TrueSummary, OwnBullets, KnownSkills, KnownStrengths DEF ResumeIsSupported
  <1> QED
    BY <1>1, <1>2, <1>3, PTL DEF ResumeSpec

=============================================================================
