---------------------------- MODULE ProfileCache ----------------------------
(***************************************************************************)
(* The profile of one user, stored in Postgres and cached in Redis by      *)
(* topic (internal/repository/cache/user.go).  Pages edit it one topic at  *)
(* a time, or all at once when an imported resume is applied; each edit    *)
(* writes the database and then deletes the topics it touched.  The worker *)
(* and the profile pages read through the cache.  Every call is one step,  *)
(* and what a topic holds is the number of the write that put it there.    *)
(***************************************************************************)
EXTENDS Naturals, Sequences

CONSTANTS
    Topics,       \* TopicProfile .. TopicLanguages
    ImportOrder,  \* the order in which Apply deletes all of them
    ReadPlans,    \* the topics a reader goes through: match_results.go, GetProfile
    Readers,      \* goroutines that read through the cache
    Editors,      \* requests that edit the profile
    NoEntry,      \* what Redis answers for a key that is not there
    MaxWrites,    \* bound on writes
    MaxFaults     \* bound on failed calls and interrupted requests

ASSUME CacheAssumption ==
    /\ ImportOrder \in Seq(Topics)
    /\ ImportOrder # <<>>
    /\ \A plan \in ReadPlans : plan \in Seq(Topics) /\ plan # <<>>
    /\ NoEntry \notin Nat
    /\ MaxWrites \in Nat /\ MaxFaults \in Nat

Versions == 0..MaxWrites

\* The plans of an edit: one topic, or the import of a whole resume.
EditPlans == {<<t>> : t \in Topics} \cup {ImportOrder}
Touched(plan) == {plan[i] : i \in 1..Len(plan)}

VARIABLES
    db,        \* db[t]: the committed version of topic t
    cache,     \* cache[t]: the version under the key user:<id>:<t>, or NoEntry
    editor,    \* editor[e]: the topics request e deletes, and of which write
    reader,    \* reader[r]: the topics reader r goes through
    writes, faults

vars == <<db, cache, editor, reader, writes, faults>>

\* Requests and goroutines at work stand at topic plan[pos] of their plan.
Idle == [at |-> "idle"]
Editing == UNION {[at: {"invalidate"}, plan: {p}, pos: 1..Len(p)] :
                    p \in EditPlans}
Reading == UNION {[at: {"get", "select", "set"}, plan: {p}, pos: 1..Len(p), seen: Versions] :
                    p \in ReadPlans}
Standing(w) == w.plan[w.pos]

TypeOK ==
    /\ db \in [Topics -> Versions]
    /\ cache \in [Topics -> Versions \cup {NoEntry}]
    /\ editor \in [Editors -> {Idle} \cup Editing]
    /\ reader \in [Readers -> {Idle} \cup Reading]
    /\ writes \in Versions
    /\ faults \in 0..MaxFaults

Init ==
    /\ db = [t \in Topics |-> 0]
    /\ cache = [t \in Topics |-> NoEntry]
    /\ editor = [e \in Editors |-> Idle]
    /\ reader = [r \in Readers |-> Idle]
    /\ writes = 0
    /\ faults = 0

Fault == faults < MaxFaults /\ faults' = faults + 1

-----------------------------------------------------------------------------
(* Edits: users.go, profile_import.go *)

\* Variant: an import deletes only the first topic that it wrote.
WriteForgetsTopics(e) ==
    /\ editor[e] = Idle
    /\ writes < MaxWrites
    /\ writes' = writes + 1
    /\ \E plan \in EditPlans :
         /\ db' = [t \in Topics |-> IF t \in Touched(plan) THEN writes + 1 ELSE db[t]]
         /\ editor' = [editor EXCEPT ![e] =
                         [at |-> "invalidate", plan |-> <<Head(plan)>>, pos |-> 1]]
    /\ UNCHANGED <<cache, reader, faults>>

\* One statement, or one transaction (ExecTx) for an import.
Write(e) ==
    /\ editor[e] = Idle
    /\ writes < MaxWrites
    /\ writes' = writes + 1
    /\ \E plan \in EditPlans :
         /\ db' = [t \in Topics |-> IF t \in Touched(plan) THEN writes + 1 ELSE db[t]]
         /\ editor' = [editor EXCEPT ![e] =
                         [at |-> "invalidate", plan |-> plan, pos |-> 1]]
    /\ UNCHANGED <<cache, reader, faults>>

\* What request e does after the topic it stands at.
EditRest(e) ==
    IF editor[e].pos = Len(editor[e].plan) THEN Idle
    ELSE [editor[e] EXCEPT !.pos = @ + 1]

\* A failed Delete is logged, and the request goes on.
Invalidate(e) ==
    LET t == Standing(editor[e]) IN
    /\ editor[e] # Idle
    /\ \/ /\ cache' = [cache EXCEPT ![t] = NoEntry]
          /\ UNCHANGED faults
       \/ Fault /\ UNCHANGED cache
    /\ editor' = [editor EXCEPT ![e] = EditRest(e)]
    /\ UNCHANGED <<db, reader, writes>>

\* The process dies, or the context of the request is cancelled, in between.
EditInterrupted(e) ==
    /\ editor[e] # Idle
    /\ Fault
    /\ editor' = [editor EXCEPT ![e] = Idle]
    /\ UNCHANGED <<db, cache, reader, writes>>

-----------------------------------------------------------------------------
(* Reads: the cached* functions of match_results.go, GetProfile *)

Reads(r, step) == reader[r] # Idle /\ reader[r].at = step
Topic(r) == Standing(reader[r])
ReadRest(r) ==
    IF reader[r].pos = Len(reader[r].plan) THEN Idle
    ELSE [reader[r] EXCEPT !.at = "get", !.pos = @ + 1]

StartRead(r) ==
    /\ reader[r] = Idle
    /\ \E plan \in ReadPlans :
         reader' = [reader EXCEPT ![r] =
                      [at |-> "get", plan |-> plan, pos |-> 1, seen |-> 0]]
    /\ UNCHANGED <<db, cache, editor, writes, faults>>

GetHit(r) ==
    /\ Reads(r, "get")
    /\ cache[Topic(r)] # NoEntry
    /\ reader' = [reader EXCEPT ![r] = ReadRest(r)]
    /\ UNCHANGED <<db, cache, editor, writes, faults>>

\* A miss, or Redis does not answer (GetTyped makes no difference).
GetMiss(r) ==
    /\ Reads(r, "get")
    /\ \/ cache[Topic(r)] = NoEntry /\ UNCHANGED faults
       \/ cache[Topic(r)] # NoEntry /\ Fault
    /\ reader' = [reader EXCEPT ![r] = [@ EXCEPT !.at = "select"]]
    /\ UNCHANGED <<db, cache, editor, writes>>

Select(r) ==
    /\ Reads(r, "select")
    /\ reader' = [reader EXCEPT ![r] =
                    [@ EXCEPT !.at = "set", !.seen = db[Topic(r)]]]
    /\ UNCHANGED <<db, cache, editor, writes, faults>>

SelectFails(r) ==
    /\ Reads(r, "select")
    /\ Fault
    /\ reader' = [reader EXCEPT ![r] = Idle]
    /\ UNCHANGED <<db, cache, editor, writes>>

\* Set overwrites whatever is there; its error is ignored.
SetTyped(r) ==
    /\ Reads(r, "set")
    /\ \/ cache' = [cache EXCEPT ![Topic(r)] = reader[r].seen] /\ UNCHANGED faults
       \/ Fault /\ UNCHANGED cache
    /\ reader' = [reader EXCEPT ![r] = ReadRest(r)]
    /\ UNCHANGED <<db, editor, writes>>

\* Variant: the key is created without a time to live.
ExpireNever(t) ==
    /\ FALSE
    /\ UNCHANGED vars

\* defaultTTL runs out.
Expire(t) ==
    /\ cache[t] # NoEntry
    /\ cache' = [cache EXCEPT ![t] = NoEntry]
    /\ UNCHANGED <<db, editor, reader, writes, faults>>

Next ==
    \/ \E e \in Editors : Write(e) \/ Invalidate(e) \/ EditInterrupted(e)
    \/ \E r \in Readers : \/ StartRead(r) \/ GetHit(r) \/ GetMiss(r) \/ Select(r)
                          \/ SelectFails(r) \/ SetTyped(r)
    \/ \E t \in Topics : Expire(t)

Spec == Init /\ [][Next]_vars

(***************************************************************************)
(* Fairness.  Keys expire, and a goroutine that has begun goes on; nobody  *)
(* has to start a read or an edit.                                         *)
(***************************************************************************)
Fairness ==
    /\ \A t \in Topics : WF_vars(Expire(t))
    /\ \A e \in Editors : WF_vars(Invalidate(e))
    /\ \A r \in Readers :
         WF_vars(GetHit(r) \/ GetMiss(r) \/ Select(r) \/ SetTyped(r))

FairSpec == Spec /\ Fairness

-----------------------------------------------------------------------------
\* Some request still has to delete topic t.
Owed(t) ==
    \E e \in Editors :
        /\ editor[e] # Idle
        /\ \E i \in editor[e].pos..Len(editor[e].plan) : editor[e].plan[i] = t

\* The cache answers with an outdated topic, and no edit is about to delete it.
Stale(t) == cache[t] # NoEntry /\ cache[t] # db[t] /\ ~Owed(t)

\* In this step a reader stores what it read before a later write committed.
LateSet(t) ==
    \E r \in Readers :
        /\ Reads(r, "set") /\ Topic(r) = t
        /\ reader[r].seen # db[t]
        /\ cache'[t] = reader[r].seen

\* A topic goes stale in two ways only: the deletion of an edit failed or never
\* ran, or a reader that overlapped the edit stored what it had read before.
\* Every handler deletes after its write committed, and deletes every topic the
\* write touched: with either mistake topics would go stale with no cause.
StaleHasACause ==
    [][\A t \in Topics : Stale(t)' /\ ~Stale(t) => faults' > faults \/ LateSet(t)]_vars

\* Once the edits cease (here they do: MaxWrites bounds them) the cache comes to
\* agree with the database for good: late sets run dry and the time to live
\* clears what failed deletions and late sets left behind.
CacheConverges ==
    <>[](\A t \in Topics : cache[t] \in {NoEntry, db[t]})
=============================================================================
