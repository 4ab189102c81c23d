--------------------------- MODULE AiServiceProofs ---------------------------
(***************************************************************************)
(* Why a chain of providers in the store's cache may differ from the rows, *)
(* whose rows a chain has, that a key is kept, and when a call may say     *)
(* that it was limited: for every set of forms, calls and saves, however   *)
(* they interleave.                                                        *)
(***************************************************************************)
EXTENDS AiService, FiniteSetTheorems, TLAPS

Saved(p) == Enabled(List(p))

(* A save invalidates after its commit only, and its DELETEs are about the *)
(* chains it has in its form.                                              *)
Tables ==
    /\ DOMAIN cache = Purposes /\ DOMAIN late = Purposes
    /\ DOMAIN toDrop = Saves /\ DOMAIN spc = Saves
    /\ DOMAIN seen = Saves /\ DOMAIN form = Saves
OnlySavedDrop == \A s \in Saves : spc[s] # "saved" => toDrop[s] = {}
SeenInForm ==
    \A s \in Saves : /\ \A r \in seen[s] : r.purpose \in DOMAIN form[s]
                     /\ spc[s] = "idle" => seen[s] = {}
IInv == Tables /\ OnlySavedDrop /\ SeenInForm /\ StaleChainHasACause

LEMMA NoChainIsEmpty == NoChain.filled = FALSE
  BY DEF NoChain

LEMMA InitInv ==
    ASSUME Init
    PROVE  IInv
  BY NoChainIsEmpty DEF Init, IInv, Tables, OnlySavedDrop, SeenInForm, StaleChainHasACause

(* The rows of a purpose are its chain.                                    *)
LEMMA SameRowsSameChain ==
    ASSUME NEW p, {r \in table : r.purpose = p}' = {r \in table : r.purpose = p}
    PROVE  Saved(p)' = Saved(p)
  BY DEF Saved, List

(* A commit changes the chains of its form only.                           *)
LEMMA CommitChanges ==
    ASSUME IInv, NEW s \in Saves, Commit(s), NEW p, p \notin DOMAIN form[s]
    PROVE  Saved(p)' = Saved(p)
  <1>1. \A r \in seen[s] : r.purpose # p
    BY DEF IInv, SeenInForm
  <1>2. \A r \in NewRows(s) : r.purpose # p
    BY DEF NewRows, Row
  <1>3. table' = (table \ seen[s]) \cup NewRows(s)
    BY DEF Commit
  <1>4. {r \in table : r.purpose = p}' = {r \in table : r.purpose = p}
    BY <1>1, <1>2, <1>3
  <1> QED
    BY <1>4, SameRowsSameChain

(* Calls that do not fill the cache, and saves before their commit.        *)
LEMMA StoreUntouched ==
    ASSUME IInv, UNCHANGED <<table, cache, late, toDrop>>, Tables', OnlySavedDrop', SeenInForm'
    PROVE  IInv'
  <1>1. \A p \in Purposes : Saved(p)' = Saved(p)
    BY SameRowsSameChain
  <1> QED
    BY <1>1 DEF IInv, StaleChainHasACause, Saved

LEMMA SavesUntouched ==
    ASSUME IInv, UNCHANGED <<spc, form, seen, toDrop>>, DOMAIN cache' = Purposes, DOMAIN late' = Purposes
    PROVE  Tables' /\ OnlySavedDrop' /\ SeenInForm'
  BY DEF IInv, Tables, OnlySavedDrop, SeenInForm

LEMMA NextInv ==
    ASSUME IInv, [Next]_vars
    PROVE  IInv'
  <1> USE DEF IInv, Tables
  <1>1. ASSUME NEW c \in Calls,
               \/ Begin(c) \/ AnswerFromCache(c) \/ ReadTable(c) \/ ReadFails(c) \/ Answers(c)
               \/ RateLimited(c) \/ NetworkFails(c) \/ ProviderFails(c) \/ Cancel(c)
        PROVE  IInv'
    <2>1. UNCHANGED <<table, cache, saveVars, late>>
      BY <1>1 DEF Begin, AnswerFromCache, ReadTable, ReadFails, Answers, RateLimited,
                  NetworkFails, ProviderFails, Cancel, tryFrame
    <2> QED
      BY <2>1, StoreUntouched, SavesUntouched DEF saveVars
  <1>2. ASSUME NEW c \in Calls, FillCache(c) PROVE IInv'
    <2> DEFINE q == Head(ask[c])
    <2>1. /\ UNCHANGED <<table, saveVars>>
          /\ cache' = [cache EXCEPT ![q] = [filled |-> TRUE, chain |-> got[c]]]
          /\ late' = [late EXCEPT ![q] = got[c] # Saved(q)]
      BY <1>2 DEF FillCache, Saved
    <2>2. Tables' /\ OnlySavedDrop' /\ SeenInForm'
      BY <2>1, SavesUntouched DEF saveVars
    <2>3. ASSUME NEW p \in Purposes, cache'[p].filled, cache'[p].chain # Saved(p)'
          PROVE  late'[p] \/ \E s \in Saves : p \in toDrop'[s]
      <3>1. Saved(p)' = Saved(p)
        BY <2>1, SameRowsSameChain
      <3>2. CASE p = q
        BY <2>1, <2>3, <3>1, <3>2
      <3>3. CASE p # q
        BY <2>1, <2>3, <3>1, <3>3 DEF saveVars, StaleChainHasACause, Saved
      <3> QED
        BY <3>2, <3>3
    <2> QED
      BY <2>2, <2>3 DEF StaleChainHasACause, Saved
  <1>3. ASSUME NEW q \in Purposes, Expire(q) PROVE IInv'
    <2>1. /\ UNCHANGED <<table, saveVars>>
          /\ cache' = [cache EXCEPT ![q] = NoChain]
          /\ late' = [late EXCEPT ![q] = FALSE]
      BY <1>3 DEF Expire
    <2>2. Tables' /\ OnlySavedDrop' /\ SeenInForm'
      BY <2>1, SavesUntouched DEF saveVars
    <2>3. \A p \in Purposes : Saved(p)' = Saved(p)
      BY <2>1, SameRowsSameChain
    <2> QED
      BY <2>1, <2>2, <2>3, NoChainIsEmpty DEF StaleChainHasACause, Saved, saveVars
  <1>4. ASSUME NEW s \in Saves, ReadKeys(s) \/ DeleteChains(s) \/ Rollback(s) PROVE IInv'
    <2>1. UNCHANGED <<table, cache, late, toDrop>>
      BY <1>4 DEF ReadKeys, DeleteChains, Rollback
    <2>2. OnlySavedDrop'
      BY <1>4 DEF ReadKeys, DeleteChains, Rollback, OnlySavedDrop
    <2>3. Tables' /\ SeenInForm'
      BY <1>4 DEF ReadKeys, DeleteChains, Rollback, Forget, ReplacedRows, SeenInForm
    <2> QED
      BY <2>1, <2>2, <2>3, StoreUntouched
  <1>5. ASSUME NEW s \in Saves, Commit(s) PROVE IInv'
    <2>1. /\ UNCHANGED <<cache, late>>
          /\ toDrop' = [toDrop EXCEPT ![s] = DOMAIN form[s]]
          /\ toDrop[s] = {}
      BY <1>5 DEF Commit, Dropped, OnlySavedDrop
    <2>2. Tables' /\ OnlySavedDrop' /\ SeenInForm'
      BY <1>5 DEF Commit, Forget, OnlySavedDrop, SeenInForm
    <2>3. ASSUME NEW p \in Purposes, cache'[p].filled, cache'[p].chain # Saved(p)'
          PROVE  late'[p] \/ \E q \in Saves : p \in toDrop'[q]
      <3>1. CASE p \in DOMAIN form[s]
        BY <2>1, <3>1
      <3>2. CASE p \notin DOMAIN form[s]
        BY <1>5, <2>1, <2>3, <3>2, CommitChanges DEF StaleChainHasACause, Saved
      <3> QED
        BY <3>1, <3>2
    <2> QED
      BY <2>2, <2>3 DEF StaleChainHasACause, Saved
  <1>6. ASSUME NEW s \in Saves, NEW q \in Purposes, Invalidate(s, q) PROVE IInv'
    <2>1. /\ UNCHANGED <<table, form, seen>>
          /\ cache' = [cache EXCEPT ![q] = NoChain]
          /\ late' = [late EXCEPT ![q] = FALSE]
          /\ toDrop' = [toDrop EXCEPT ![s] = @ \ {q}]
          /\ spc' = [spc EXCEPT ![s] = IF toDrop[s] = {q} THEN "over" ELSE @]
          /\ spc[s] = "saved"
      BY <1>6 DEF Invalidate
    <2>2. Tables' /\ OnlySavedDrop' /\ SeenInForm'
      BY <2>1 DEF OnlySavedDrop, SeenInForm
    <2>3. \A p \in Purposes : Saved(p)' = Saved(p)
      BY <2>1, SameRowsSameChain
    <2>4. ASSUME NEW p \in Purposes, cache'[p].filled, cache'[p].chain # Saved(p)'
          PROVE  late'[p] \/ \E t \in Saves : p \in toDrop'[t]
      BY <2>1, <2>3, <2>4, NoChainIsEmpty DEF StaleChainHasACause, Saved
    <2> QED
      BY <2>2, <2>4 DEF StaleChainHasACause, Saved
  <1>7. CASE UNCHANGED vars
    BY <1>7, StoreUntouched, SavesUntouched DEF vars, saveVars
  <1> QED
    BY <1>1, <1>2, <1>3, <1>4, <1>5, <1>6, <1>7 DEF Next, CallStep

(* A chain in the cache that is not the one saved is about to be           *)
(* invalidated or was stored by a call that read the table before the save *)
(* (Providers in aiconfig/store.go does not hold its lock over the read):  *)
(* no other mistake of the store is needed to explain it, for any number   *)
(* of calls and saves.                                                     *)
THEOREM StaleChainHasACauseHolds == Spec => []StaleChainHasACause
  <1>1. Init => IInv
    BY InitInv
  <1>2. IInv /\ [Next]_vars => IInv'
    BY NextInv
  <1>3. IInv => StaleChainHasACause
    BY DEF IInv
  <1> QED
    BY <1>1, <1>2, <1>3, PTL DEF Spec

-----------------------------------------------------------------------------
(* Until another save commits, a save works with what it read: its keys    *)
(* are those of the table, and its DELETEs saw all the rows there are.     *)
KeysOf(rows) == {[id |-> r.id, purpose |-> r.purpose, key |-> r.key] : r \in rows}
UniqueIds == \A r, q \in table : r.id = q.id => r = q
SaveIsCurrent ==
    \A s \in Saves :
        ~overtaken[s] =>
            /\ spc[s] \in {"read", "deleted"} => keys[s] = KeysOf(table)
            /\ spc[s] = "deleted" => seen[s] = ReplacedRows(s)
SaveTables ==
    /\ DOMAIN spc = Saves /\ DOMAIN form = Saves /\ DOMAIN keys = Saves /\ DOMAIN seen = Saves
    /\ overtaken \in [Saves -> BOOLEAN]
SaveInv == SaveTables /\ UniqueIds /\ SaveIsCurrent /\ ChainOfOneSave

LEMMA InitSave ==
    ASSUME Init
    PROVE  SaveInv
  BY StoredAssumption DEF Init, SaveInv, SaveTables, UniqueIds, SaveIsCurrent, ChainOfOneSave

(* The steps that leave table and saves alone.                             *)
LEMMA SaveUntouched ==
    ASSUME SaveInv, UNCHANGED <<table, saveVars>>
    PROVE  SaveInv'
  BY DEF SaveInv, SaveTables, UniqueIds, SaveIsCurrent, ChainOfOneSave, saveVars, ReplacedRows

(* The steps of a save that leave the table alone.                         *)
LEMMA SaveAlone ==
    ASSUME SaveInv, SaveTables', NEW s \in Saves, UNCHANGED <<table, overtaken>>,
           \A t \in Saves \ {s} : /\ spc'[t] = spc[t] /\ keys'[t] = keys[t]
                                  /\ seen'[t] = seen[t] /\ form'[t] = form[t],
           \/ spc'[s] \notin {"read", "deleted"}
           \/ spc'[s] = "read" /\ keys'[s] = KeysOf(table)
           \/ /\ spc[s] = "read" /\ spc'[s] = "deleted"
              /\ keys'[s] = keys[s] /\ form'[s] = form[s] /\ seen'[s] = ReplacedRows(s)
    PROVE  SaveInv'
  <1>1. UniqueIds' /\ ChainOfOneSave'
    BY DEF SaveInv, UniqueIds, ChainOfOneSave
  <1>2. ASSUME NEW t \in Saves, ~overtaken'[t], spc'[t] \in {"read", "deleted"}
        PROVE  /\ keys'[t] = KeysOf(table)'
               /\ spc'[t] = "deleted" => seen'[t] = ReplacedRows(t)'
    BY <1>2 DEF SaveInv, SaveIsCurrent, KeysOf, ReplacedRows
  <1> QED
    BY <1>1, <1>2 DEF SaveInv, SaveIsCurrent

(* A commit leaves behind the old rows that it did not see.  There are     *)
(* some in its chains only when another save has overtaken it.             *)
LEMMA CommitSave ==
    ASSUME SaveInv, NEW s \in Saves, Commit(s)
    PROVE  SaveInv'
  <1> DEFINE kept == table \ seen[s]
  <1>1. /\ table' = kept \cup NewRows(s)
        /\ ~Clash(s) /\ spc[s] = "deleted"
    BY DEF Commit
  <1>2. /\ SaveTables'
        /\ overtaken'[s] = overtaken[s]
        /\ \A t \in Saves : overtaken[t] => overtaken'[t]
        /\ \A t \in Saves : spc'[t] \in {"read", "deleted"} => overtaken'[t]
    <2>1. overtaken' = [q \in Saves |-> overtaken[q] \/ (q # s /\ spc[q] \in {"read", "deleted"})]
      BY DEF Commit
    <2>2. spc' = [spc EXCEPT ![s] = "saved"]
      BY DEF Commit
    <2> QED
      BY <2>1, <2>2 DEF Commit, Forget, SaveInv, SaveTables
  <1>3. UniqueIds'
    BY <1>1 DEF SaveInv, UniqueIds, Clash
  <1>4. ChainOfOneSave'
    <2>1. ASSUME NEW r \in kept, NEW q \in NewRows(s), r.purpose = q.purpose
          PROVE  q.by = s /\ overtaken[s]
      <3>1. q.by = s /\ q.purpose \in DOMAIN form[s]
        BY DEF NewRows, Row
      <3>2. r \in ReplacedRows(s) /\ r \notin seen[s]
        BY <2>1, <3>1 DEF ReplacedRows
      <3> QED
        BY <1>1, <3>1, <3>2 DEF SaveInv, SaveIsCurrent
    <2>2. \A r, q \in NewRows(s) : r.by = q.by
      BY DEF NewRows, Row
    <2>3. ASSUME NEW r \in table', NEW q \in table', r.purpose = q.purpose, r.by # q.by
          PROVE  \E t \in Saves : t \in {r.by, q.by} /\ overtaken'[t]
      <3>1. CASE r \in kept /\ q \in kept
        BY <1>2, <2>3, <3>1 DEF SaveInv, ChainOfOneSave
      <3>2. CASE r \in NewRows(s) /\ q \in NewRows(s)
        BY <2>2, <2>3, <3>2
      <3>3. CASE r \in kept /\ q \in NewRows(s)
        BY <1>2, <2>1, <2>3, <3>3
      <3>4. CASE r \in NewRows(s) /\ q \in kept
        BY <1>2, <2>1, <2>3, <3>4
      <3> QED
        BY <1>1, <3>1, <3>2, <3>3, <3>4
    <2> QED
      BY <2>3 DEF ChainOfOneSave
  <1>5. SaveIsCurrent'
    BY <1>2 DEF SaveIsCurrent
  <1> QED
    BY <1>2, <1>3, <1>4, <1>5 DEF SaveInv

LEMMA NextSave ==
    ASSUME SaveInv, [Next]_vars
    PROVE  SaveInv'
  <1>1. ASSUME NEW c \in Calls, Begin(c) \/ CallStep(c) PROVE SaveInv'
    <2>1. UNCHANGED <<table, saveVars>>
      BY <1>1 DEF Begin, CallStep, AnswerFromCache, ReadTable, ReadFails, FillCache, Answers,
                  RateLimited, NetworkFails, ProviderFails, Cancel, tryFrame
    <2> QED
      BY <2>1, SaveUntouched
  <1>2. ASSUME NEW p \in Purposes, Expire(p) PROVE SaveInv'
    BY <1>2, SaveUntouched DEF Expire
  <1>3. ASSUME NEW s \in Saves, ReadKeys(s) PROVE SaveInv'
    <2>1. /\ keys' = [keys EXCEPT ![s] = KeysOf(table)]
          /\ spc' = [spc EXCEPT ![s] = "read"]
          /\ \E f \in Forms : form' = [form EXCEPT ![s] = f]
          /\ UNCHANGED <<table, seen, overtaken>>
      BY <1>3 DEF ReadKeys, KeysOf
    <2>2. /\ SaveTables' /\ spc'[s] = "read" /\ keys'[s] = KeysOf(table)
          /\ \A t \in Saves \ {s} : /\ spc'[t] = spc[t] /\ keys'[t] = keys[t]
                                    /\ seen'[t] = seen[t] /\ form'[t] = form[t]
      BY <2>1 DEF SaveInv, SaveTables
    <2> QED
      BY <2>1, <2>2, SaveAlone
  <1>4. ASSUME NEW s \in Saves, DeleteChains(s) PROVE SaveInv'
    <2>1. /\ seen' = [seen EXCEPT ![s] = ReplacedRows(s)]
          /\ spc[s] = "read" /\ spc' = [spc EXCEPT ![s] = "deleted"]
          /\ UNCHANGED <<table, form, keys, overtaken>>
      BY <1>4 DEF DeleteChains
    <2>2. /\ SaveTables' /\ spc'[s] = "deleted" /\ seen'[s] = ReplacedRows(s)
          /\ \A t \in Saves \ {s} : /\ spc'[t] = spc[t] /\ keys'[t] = keys[t]
                                    /\ seen'[t] = seen[t] /\ form'[t] = form[t]
      BY <2>1 DEF SaveInv, SaveTables
    <2> QED
      BY <2>1, <2>2, SaveAlone
  <1>5. ASSUME NEW s \in Saves, Commit(s) PROVE SaveInv'
    BY <1>5, CommitSave
  <1>6. ASSUME NEW s \in Saves, Rollback(s) PROVE SaveInv'
    <2>1. /\ SaveTables' /\ spc'[s] = "over" /\ UNCHANGED <<table, overtaken>>
          /\ \A t \in Saves \ {s} : /\ spc'[t] = spc[t] /\ keys'[t] = keys[t]
                                    /\ seen'[t] = seen[t] /\ form'[t] = form[t]
      BY <1>6 DEF Rollback, Forget, SaveInv, SaveTables
    <2> QED
      BY <2>1, SaveAlone
  <1>7. ASSUME NEW s \in Saves, NEW p \in Purposes, Invalidate(s, p) PROVE SaveInv'
    <2>1. /\ SaveTables' /\ spc'[s] \in {"saved", "over"}
          /\ UNCHANGED <<table, form, keys, seen, overtaken>>
          /\ \A t \in Saves \ {s} : spc'[t] = spc[t]
      BY <1>7 DEF Invalidate, SaveInv, SaveTables
    <2> QED
      BY <2>1, SaveAlone
  <1>8. CASE UNCHANGED vars
    BY <1>8, SaveUntouched DEF vars
  <1> QED
    BY <1>1, <1>2, <1>3, <1>4, <1>5, <1>6, <1>7, <1>8 DEF Next

(* A chain mixes the rows of two saves only if one of the two committed    *)
(* while the other was between its keys and its commit (replaceChain in    *)
(* aisettings/repository.go deletes what it sees), for any forms.          *)
THEOREM ChainOfOneSaveHolds == Spec => []ChainOfOneSave
  <1>1. Init => SaveInv
    BY InitSave
  <1>2. SaveInv /\ [Next]_vars => SaveInv'
    BY NextSave
  <1>3. SaveInv => ChainOfOneSave
    BY DEF SaveInv
  <1> QED
    BY <1>1, <1>2, <1>3, PTL DEF Spec

-----------------------------------------------------------------------------
(* The key that is found by an id is the one of its row.                   *)
LEMMA KeyOfRow ==
    ASSUME UniqueIds, NEW r \in table
    PROVE  /\ Has({k \in KeysOf(table) : k.purpose = r.purpose}, r.id)
           /\ KeyOf(KeysOf(table), r.id) = r.key
  <1> DEFINE mine == [id |-> r.id, purpose |-> r.purpose, key |-> r.key]
  <1>1. mine \in KeysOf(table) /\ mine.id = r.id /\ mine.purpose = r.purpose /\ mine.key = r.key
    BY DEF KeysOf
  <1>2. \A k \in KeysOf(table) : k.id = r.id => k = mine
    BY DEF KeysOf, UniqueIds
  <1>3. (CHOOSE k \in KeysOf(table) : k.id = r.id) = mine
    BY <1>1, <1>2
  <1> QED
    BY <1>1, <1>3 DEF Has, KeyOf

(* A save that was not overtaken writes, for a row sent back without a     *)
(* key, a row with the same id and the same key.                           *)
LEMMA CommitKeepsKeys ==
    ASSUME SaveInv, NEW s \in Saves, Commit(s), ~overtaken[s],
           NEW p \in DOMAIN form[s], NEW i \in DOMAIN form[s][p], NEW r \in table,
           form[s][p][i].key = "", r.id = form[s][p][i].id, r.purpose = p
    PROVE  \E q \in table' : q.id = r.id /\ q.key = r.key
  <1> DEFINE in == form[s][p][i]
  <1>1. keys[s] = KeysOf(table) /\ UniqueIds
    BY DEF Commit, SaveInv, SaveIsCurrent
  <1>2. KeptId(s, p, in) /\ KeyOf(keys[s], in.id) = r.key
    BY <1>1, KeyOfRow DEF KeptId
  <1>3. KeyFor(s, p, in) = r.key
    BY <1>2 DEF KeyFor
  <1>4. Row(s, p, i).id = r.id /\ Row(s, p, i).key = r.key
    BY <1>2, <1>3 DEF Row
  <1>5. Row(s, p, i) \in table'
    <2>1. Row(s, p, i) \in {Row(s, p, k) : k \in DOMAIN form[s][p]}
      OBVIOUS
    <2>2. {Row(s, p, k) : k \in DOMAIN form[s][p]}
            \in {{Row(s, t, k) : k \in DOMAIN form[s][t]} : t \in DOMAIN form[s]}
      OBVIOUS
    <2>3. Row(s, p, i) \in NewRows(s)
      BY <2>1, <2>2, Zenon DEF NewRows
    <2> QED
      BY <2>3 DEF Commit
  <1> QED
    BY <1>4, <1>5

(* Only a commit takes a save from its DELETEs to its end.                 *)
LEMMA SavedByCommit ==
    ASSUME SaveInv, [Next]_vars, NEW s \in Saves, spc[s] = "deleted", spc'[s] = "saved"
    PROVE  Commit(s)
  <1> USE DEF SaveInv, SaveTables
  <1>1. ASSUME NEW c \in Calls, Begin(c) \/ CallStep(c) PROVE UNCHANGED spc
    BY <1>1 DEF Begin, CallStep, AnswerFromCache, ReadTable, ReadFails, FillCache, Answers,
                RateLimited, NetworkFails, ProviderFails, Cancel, tryFrame, saveVars
  <1>2. ASSUME NEW p \in Purposes, Expire(p) PROVE UNCHANGED spc
    BY <1>2 DEF Expire, saveVars
  <1>3. ASSUME NEW t \in Saves, ReadKeys(t) \/ DeleteChains(t) \/ Rollback(t) PROVE FALSE
    BY <1>3 DEF ReadKeys, DeleteChains, Rollback
  <1>4. ASSUME NEW t \in Saves, NEW p \in Purposes, Invalidate(t, p) PROVE FALSE
    BY <1>4 DEF Invalidate
  <1>5. ASSUME NEW t \in Saves, Commit(t) PROVE Commit(s)
    BY <1>5 DEF Commit
  <1>6. CASE UNCHANGED vars
    BY <1>6 DEF vars, saveVars
  <1> QED
    BY <1>1, <1>2, <1>3, <1>4, <1>5, <1>6 DEF Next

(* "Só reaproveita ID (e a key guardada nele) se ele pertence a esta       *)
(* cadeia" (buildRows in aiconfig/store.go): a provider that comes back    *)
(* without a key keeps its own, unless another save committed in between.  *)
THEOREM KeyIsKeptHolds == Spec => KeyIsKept
  <1> DEFINE Kept ==
        \A s \in Saves : spc[s] = "deleted" /\ spc'[s] = "saved" /\ ~overtaken[s] =>
          \A p \in DOMAIN form[s] : \A i \in DOMAIN form[s][p] : \A r \in table :
             form[s][p][i].key = "" /\ r.id = form[s][p][i].id /\ r.purpose = p
                 => \E q \in table' : q.id = r.id /\ q.key = r.key
  <1>1. Init => SaveInv
    BY InitSave
  <1>2. SaveInv /\ [Next]_vars => SaveInv'
    BY NextSave
  <1>3. SaveInv /\ [Next]_vars => [Kept]_vars
    BY SavedByCommit, CommitKeepsKeys
  <1> QED
    BY <1>1, <1>2, <1>3, PTL DEF Spec, KeyIsKept

-----------------------------------------------------------------------------
(* What is looked up, kept in the cache and walked is a sequence of        *)
(* providers: its last one is the one at its length.                       *)
IsChain(s) == Len(s) \in Nat /\ s = [k \in 1..Len(s) |-> s[k]]

(* A function on 1..n is one, and so are two of them joined.               *)
LEMMA FunctionIsChain ==
    ASSUME NEW n \in Nat, NEW s, s = [k \in 1..n |-> s[k]]
    PROVE  IsChain(s)
  <1>1. s \in Seq({s[k] : k \in 1..n})
    OBVIOUS
  <1>2. Len(s) = n
    OBVIOUS
  <1> QED
    BY <1>2 DEF IsChain

LEMMA JoinedIsChain ==
    ASSUME NEW s, NEW t, IsChain(s), IsChain(t)
    PROVE  IsChain(s \o t)
  <1> DEFINE all == {s[k] : k \in 1..Len(s)} \cup {t[k] : k \in 1..Len(t)}
  <1>1. s \in Seq(all) /\ t \in Seq(all)
    BY DEF IsChain
  <1>2. \A u \in Seq(all) : IsChain(u)
    BY DEF IsChain
  <1>3. s \o t \in Seq(all)
    BY <1>1
  <1> QED
    BY <1>2, <1>3

(* So are the rows put in their order, and those of a second chain that   *)
(* are new.                                                                *)
LEMMA EnabledIsChain ==
    ASSUME NEW rows, IsFiniteSet(rows)
    PROVE  IsChain(Enabled(rows))
  <1>1. IsFiniteSet({r \in rows : r.enabled})
    BY FS_Subset
  <1>2. Cardinality({r \in rows : r.enabled}) \in Nat
    BY <1>1, FS_CardinalityType
  <1> QED
    BY <1>2, FunctionIsChain DEF Enabled, InOrder

LEMMA NewOnesIsChain ==
    ASSUME NEW have, NEW more, IsChain(more)
    PROVE  IsChain(NewOnes(have, more))
  <1> DEFINE IsNew(k) == /\ \A j \in DOMAIN have : have[j].model # more[k].model
                         /\ \A j \in DOMAIN more : j < k => more[j].model # more[k].model
             new == {k \in DOMAIN more : IsNew(k)}
  <1>0. DOMAIN more = 1..Len(more) /\ Len(more) \in Nat
    BY DEF IsChain
  <1>1. IsFiniteSet(new)
    <2>1. IsFiniteSet(1..Len(more))
      BY <1>0, FS_Interval
    <2>2. new \in SUBSET (1..Len(more))
      BY <1>0
    <2> QED
      BY <2>1, <2>2, FS_Subset
  <1>2. Cardinality(new) \in Nat
    BY <1>1, FS_CardinalityType
  <1> QED
    BY <1>2, FunctionIsChain DEF NewOnes, InOrder

(* There are finitely many rows, of the table and in the forms, and what a *)
(* call is about to look up is the chain of a purpose.                     *)
Rows ==
    /\ IsFiniteSet(table)
    /\ DOMAIN form = Saves
    /\ \A s \in Saves : /\ DOMAIN form[s] \subseteq Purposes
                        /\ \A p \in DOMAIN form[s] : IsFiniteSet(DOMAIN form[s][p])
Chains ==
    /\ DOMAIN cache = Purposes /\ DOMAIN got = Calls /\ DOMAIN chain = Calls
    /\ \A p \in Purposes : IsChain(cache[p].chain)
    /\ \A c \in Calls : IsChain(got[c]) /\ IsChain(chain[c])
Asking ==
    /\ DOMAIN pc = Calls
    /\ ask \in [Calls -> Seq(Purposes)]
    /\ \A c \in Calls : pc[c] \in {"asking", "filling"} => ask[c] # <<>>
ChainInv == Rows /\ Chains /\ Asking

LEMMA EmptyIsChain == IsChain(<<>>)
  <1>1. Len(<<>>) = 0 /\ <<>> = [k \in 1..0 |-> <<>>[k]]
    OBVIOUS
  <1> QED
    BY <1>1 DEF IsChain

LEMMA InitChain ==
    ASSUME Init
    PROVE  ChainInv
  <1>1. Rows
    BY StoredAssumption DEF Init, Rows
  <1>2. Chains
    BY EmptyIsChain DEF Init, Chains, NoChain
  <1>3. Asking
    BY DEF Init, Asking
  <1> QED
    BY <1>1, <1>2, <1>3 DEF ChainInv

(* The rows that a save writes are as many as its form has.                *)
LEMMA NewRowsFinite ==
    ASSUME Rows, NEW s \in Saves
    PROVE  IsFiniteSet(NewRows(s))
  <1> DEFINE rows(p) == {Row(s, p, i) : i \in DOMAIN form[s][p]}
             all == {rows(p) : p \in DOMAIN form[s]}
  <1>1. ASSUME NEW p \in DOMAIN form[s] PROVE IsFiniteSet(rows(p))
    <2> DEFINE ids == DOMAIN form[s][p]
               f == [i \in ids |-> Row(s, p, i)]
    <2>1. IsFiniteSet(ids)
      BY DEF Rows
    <2>2. f \in Surjection(ids, rows(p))
      BY DEF Surjection
    <2> QED
      BY <2>1, <2>2, FS_Surjection
  <1>2. IsFiniteSet(DOMAIN form[s])
    <2>1. IsFiniteSet(Purposes)
      <3>1. IsFiniteSet({"main"}) /\ IsFiniteSet({"scrape"}) /\ IsFiniteSet({"triage"})
        BY FS_Singleton
      <3>2. IsFiniteSet(({"main"} \cup {"scrape"}) \cup {"triage"})
        BY <3>1, FS_Union
      <3>3. Purposes = ({"main"} \cup {"scrape"}) \cup {"triage"}
        BY DEF Purposes
      <3> QED
        BY <3>2, <3>3
    <2> QED
      BY <2>1, FS_Subset DEF Rows
  <1>3. IsFiniteSet(all)
    <2> DEFINE f == [p \in DOMAIN form[s] |-> rows(p)]
    <2>1. f \in Surjection(DOMAIN form[s], all)
      BY DEF Surjection
    <2> QED
      BY <1>2, <2>1, FS_Surjection
  <1>4. \A S \in all : IsFiniteSet(S)
    BY <1>1
  <1>5. IsFiniteSet(UNION all)
    BY <1>3, <1>4, FS_UNION
  <1> QED
    BY <1>5, Zenon DEF NewRows

(* A chain or a part of one is appended to what the call has by now.       *)
LEMMA ResolveChain ==
    ASSUME ChainInv, NEW c \in Calls, ask[c] # <<>>, NEW ps, IsChain(ps), Resolve(c, ps)
    PROVE  /\ IsChain(chain'[c]) /\ \A d \in Calls \ {c} : chain'[d] = chain[d]
           /\ DOMAIN chain' = Calls
           /\ Asking'
  <1> DEFINE fall == IF ps = <<>> THEN Fallback(Head(ask[c])) ELSE [more |-> <<>>, chain |-> ps]
             rest == fall.more \o Tail(ask[c])
             full == chain[c] \o (IF chain[c] = <<>> THEN fall.chain ELSE NewOnes(chain[c], fall.chain))
  <1>1. /\ ask' = [ask EXCEPT ![c] = rest]
        /\ chain' = [chain EXCEPT ![c] = full]
        /\ pc' = [pc EXCEPT ![c] = IF rest = <<>> THEN "trying" ELSE "asking"]
    BY DEF Resolve
  <1>2. IsChain(fall.chain) /\ fall.more \in Seq(Purposes)
    <2>1. \A e \in {Env, EnvScrape} : IsChain(<<e>>)
      BY FunctionIsChain
    <2>2. <<"main">> \in Seq(Purposes) /\ <<>> \in Seq(Purposes)
      BY DEF Purposes
    <2> QED
      BY <2>1, <2>2, EmptyIsChain DEF Fallback
  <1>3. IsChain(full)
    <2>1. IsChain(chain[c])
      BY DEF ChainInv, Chains
    <2>2. IsChain(NewOnes(chain[c], fall.chain))
      BY <1>2, NewOnesIsChain
    <2> QED
      BY <1>2, <2>1, <2>2, JoinedIsChain
  <1>4. rest \in Seq(Purposes)
    <2>1. Tail(ask[c]) \in Seq(Purposes)
      BY DEF ChainInv, Asking
    <2> QED
      BY <1>2, <2>1
  <1>5. Asking'
    BY <1>1, <1>4 DEF ChainInv, Asking
  <1> QED
    BY <1>1, <1>3, <1>5 DEF ChainInv, Chains

LEMMA NextChain ==
    ASSUME ChainInv, [Next]_vars
    PROVE  ChainInv'
  <1> USE DEF ChainInv
  <1>1. ASSUME NEW c \in Calls, Begin(c) PROVE ChainInv'
    <2>1. \A purpose \in Asked : Plan(purpose) \in Seq(Purposes) /\ Plan(purpose) # <<>>
      <3>1. <<"scrape", "main">> \in Seq(Purposes) /\ <<"scrape", "main">> # <<>>
        BY DEF Purposes
      <3>2. \A purpose \in Purposes : <<purpose>> \in Seq(Purposes) /\ <<purpose>> # <<>>
        OBVIOUS
      <3> QED
        BY <3>1, <3>2, AskedAssumption DEF Plan
    <2>2. Asking'
      BY <1>1, <2>1 DEF Begin, Asking
    <2> QED
      BY <1>1, <2>2 DEF Begin, Rows, Chains, saveVars
  <1>2. ASSUME NEW c \in Calls, AnswerFromCache(c) \/ ReadFails(c) PROVE ChainInv'
    <2>1. \E ps : IsChain(ps) /\ Resolve(c, ps)
      <3>1. ask[c] \in Seq(Purposes) /\ ask[c] # <<>>
        BY <1>2 DEF AnswerFromCache, ReadFails, Asking
      <3>2. IsChain(cache[Head(ask[c])].chain)
        BY <3>1 DEF Chains
      <3> QED
        BY <1>2, <3>2, EmptyIsChain DEF AnswerFromCache, ReadFails
    <2>2. ask[c] # <<>> /\ UNCHANGED <<table, cache, got, saveVars>>
      BY <1>2 DEF AnswerFromCache, ReadFails, Asking
    <2> QED
      BY <2>1, <2>2, ResolveChain DEF Rows, Chains, saveVars
  <1>3. ASSUME NEW c \in Calls, ReadTable(c) PROVE ChainInv'
    <2>1. IsFiniteSet(List(Head(ask[c])))
      BY FS_Subset DEF List, Rows
    <2>2. IsChain(Enabled(List(Head(ask[c]))))
      BY <2>1, EnabledIsChain
    <2>3. Chains'
      BY <1>3, <2>2 DEF ReadTable, Chains
    <2> QED
      BY <1>3, <2>3 DEF ReadTable, Rows, Asking, saveVars
  <1>4. ASSUME NEW c \in Calls, FillCache(c) PROVE ChainInv'
    <2>1. Resolve(c, got[c]) /\ ask[c] # <<>> /\ IsChain(got[c])
      BY <1>4 DEF FillCache, Asking, Chains
    <2>2. /\ cache' = [cache EXCEPT ![Head(ask[c])] = [filled |-> TRUE, chain |-> got[c]]]
          /\ got' = [got EXCEPT ![c] = <<>>]
          /\ UNCHANGED <<table, saveVars>>
      BY <1>4 DEF FillCache
    <2>3. \A p \in Purposes : IsChain(cache'[p].chain)
      BY <2>1, <2>2 DEF Chains
    <2>4. Chains' /\ Asking'
      BY <2>1, <2>2, <2>3, ResolveChain, EmptyIsChain DEF Chains
    <2> QED
      BY <2>2, <2>4 DEF Rows, saveVars
  <1>5. ASSUME NEW c \in Calls,
               Answers(c) \/ RateLimited(c) \/ NetworkFails(c) \/ ProviderFails(c) \/ Cancel(c)
        PROVE  ChainInv'
    <2>1. UNCHANGED <<table, cache, ask, got, saveVars>> /\ pc[c] = "trying"
      BY <1>5 DEF Answers, RateLimited, NetworkFails, ProviderFails, Cancel, tryFrame
    <2>2. \/ UNCHANGED <<pc, chain>>
          \/ pc' = [pc EXCEPT ![c] = "over"] /\ chain' = [chain EXCEPT ![c] = <<>>]
      BY <1>5 DEF Answers, RateLimited, NetworkFails, ProviderFails, Cancel, Retry, GivesUp, Over
    <2> QED
      BY <2>1, <2>2, EmptyIsChain DEF Rows, Chains, Asking, saveVars
  <1>6. ASSUME NEW p \in Purposes, Expire(p) PROVE ChainInv'
    BY <1>6, EmptyIsChain DEF Expire, NoChain, Rows, Chains, Asking, callVars, saveVars
  <1>7. ASSUME NEW s \in Saves, NEW p \in Purposes, Invalidate(s, p) PROVE ChainInv'
    BY <1>7, EmptyIsChain DEF Invalidate, NoChain, Rows, Chains, Asking, callVars
  <1>8. ASSUME NEW s \in Saves, ReadKeys(s) PROVE ChainInv'
    BY <1>8, FormsAssumption DEF ReadKeys, Rows, Chains, Asking, callVars
  <1>9. ASSUME NEW s \in Saves, DeleteChains(s) PROVE ChainInv'
    BY <1>9 DEF DeleteChains, Rows, Chains, Asking, callVars
  <1>10. ASSUME NEW s \in Saves, Commit(s) \/ Rollback(s) PROVE ChainInv'
    <2>1. IsFiniteSet(table')
      <3>1. IsFiniteSet(table \ seen[s]) /\ IsFiniteSet(NewRows(s))
        BY NewRowsFinite, FS_Subset DEF Rows
      <3>2. IsFiniteSet((table \ seen[s]) \cup NewRows(s))
        BY <3>1, FS_Union
      <3> QED
        BY <1>10, <3>2 DEF Commit, Rollback, Rows
    <2>2. form' = [form EXCEPT ![s] = <<>>] /\ UNCHANGED <<cache, callVars>>
      BY <1>10 DEF Commit, Rollback, Forget
    <2> QED
      BY <2>1, <2>2 DEF Rows, Chains, Asking, callVars
  <1>11. CASE UNCHANGED vars
    BY <1>11 DEF vars, callVars, saveVars, Rows, Chains, Asking
  <1> QED
    BY <1>1, <1>2, <1>3, <1>4, <1>5, <1>6, <1>7, <1>8, <1>9, <1>10, <1>11 DEF Next, CallStep

-----------------------------------------------------------------------------
(* Of a call that walks its chain: the providers it has left behind all    *)
(* answered 429 as long as allRateLimited stands, and the one it is at did *)
(* when hitRateLimit does.                                                 *)
WalkTables ==
    /\ DOMAIN pc = Calls /\ DOMAIN result = Calls
    /\ pos \in [Calls -> Nat \ {0}]
    /\ limited \in [Calls -> BOOLEAN] /\ allLimited \in [Calls -> BOOLEAN]
    /\ saw429 \in [Calls -> SUBSET Nat]
Walk(c) ==
    /\ pc[c] \in {"idle", "asking", "filling"} => pos[c] = 1 /\ ~limited[c] /\ saw429[c] = {}
    /\ pc[c] = "trying" =>
          /\ saw429[c] \subseteq 1..pos[c]
          /\ allLimited[c] => 1..(pos[c] - 1) \subseteq saw429[c]
          /\ limited[c] => pos[c] \in saw429[c]
    /\ pc[c] # "over" => result[c] = "none"
WalkInv == WalkTables /\ \A c \in Calls : Walk(c)

LEMMA InitWalk ==
    ASSUME Init
    PROVE  WalkInv
  BY DEF Init, WalkInv, WalkTables, Walk

(* A step of one call leaves the walks of the others alone.                *)
OthersAlone(c) ==
    \A d \in Calls \ {c} :
        /\ pc'[d] = pc[d] /\ pos'[d] = pos[d] /\ limited'[d] = limited[d]
        /\ allLimited'[d] = allLimited[d] /\ result'[d] = result[d] /\ saw429'[d] = saw429[d]

LEMMA OneWalks ==
    ASSUME WalkInv, NEW c \in Calls, OthersAlone(c), WalkTables', Walk(c)'
    PROVE  WalkInv'
  BY DEF WalkInv, Walk, OthersAlone

(* The call looks up its chain, and begins to walk it at the front.        *)
LEMMA LookUp ==
    ASSUME WalkInv, NEW c \in Calls,
           Begin(c) \/ AnswerFromCache(c) \/ ReadTable(c) \/ ReadFails(c) \/ FillCache(c)
    PROVE  WalkInv' /\ UNCHANGED result
  <1>1. /\ UNCHANGED <<pos, limited, allLimited, result, saw429>>
        /\ pc[c] \in {"idle", "asking", "filling"}
    BY DEF Begin, AnswerFromCache, ReadTable, ReadFails, FillCache
  <1>2. \E where \in {"asking", "filling", "trying"} : pc' = [pc EXCEPT ![c] = where]
    BY DEF Begin, AnswerFromCache, ReadTable, ReadFails, FillCache, Resolve
  <1>3. WalkTables' /\ OthersAlone(c)
    BY <1>1, <1>2 DEF WalkInv, WalkTables, OthersAlone
  <1>4. Walk(c)'
    BY <1>1, <1>2 DEF WalkInv, WalkTables, Walk
  <1> QED
    BY <1>1, <1>3, <1>4, OneWalks

(* The caller is told.                                                     *)
LEMMA OverWalk ==
    ASSUME WalkInv, NEW c \in Calls, NEW r, Over(c, r), saw429' \in [Calls -> SUBSET Nat],
           \A d \in Calls \ {c} : saw429'[d] = saw429[d]
    PROVE  /\ WalkInv' /\ result'[c] = r
           /\ \A d \in Calls \ {c} : result'[d] = result[d]
  <1>1. WalkTables'
    <2>1. pos' \in [Calls -> Nat \ {0}]
      BY DEF Over, WalkInv, WalkTables
    <2>2. limited' \in [Calls -> BOOLEAN] /\ allLimited' \in [Calls -> BOOLEAN]
      BY DEF Over, WalkInv, WalkTables
    <2>3. DOMAIN pc' = Calls /\ DOMAIN result' = Calls
      BY DEF Over, WalkInv, WalkTables
    <2> QED
      BY <2>1, <2>2, <2>3 DEF WalkTables
  <1>2. OthersAlone(c) /\ pc'[c] = "over" /\ result'[c] = r
    BY DEF Over, WalkInv, WalkTables, OthersAlone
  <1> QED
    BY <1>1, <1>2, OneWalks DEF Walk, OthersAlone

(* A provider is given up: because of a limit only if it answered 429.     *)
LEMMA GiveUp ==
    ASSUME WalkInv, ChainInv, NEW c \in Calls, pc[c] = "trying",
           NEW byLimit \in BOOLEAN, GivesUp(c, byLimit),
           saw429' \in [Calls -> SUBSET Nat],
           \A d \in Calls \ {c} : saw429'[d] = saw429[d],
           saw429'[c] = saw429[c] \/ saw429'[c] = saw429[c] \cup {pos[c]},
           byLimit => pos[c] \in saw429'[c]
    PROVE  /\ WalkInv'
           /\ result'[c] = "limited" => saw429'[c] = DOMAIN chain[c]
           /\ \A d \in Calls \ {c} : result'[d] = result[d]
  <1>1. /\ saw429[c] \subseteq 1..pos[c] /\ pos[c] \in Nat \ {0}
        /\ allLimited[c] => 1..(pos[c] - 1) \subseteq saw429[c]
        /\ result[c] = "none"
    BY DEF WalkInv, WalkTables, Walk
  <1>2. saw429'[c] \subseteq 1..pos[c] /\ saw429[c] \subseteq saw429'[c]
    BY <1>1
  <1>3. allLimited[c] /\ byLimit => 1..pos[c] \subseteq saw429'[c]
    BY <1>1, <1>2
  <1>4. CASE IsLast(c)
    <2> DEFINE told == IF MeansLimit(c, byLimit) THEN "limited" ELSE "failed"
    <2>1. Over(c, told)
      BY <1>4 DEF GivesUp
    <2>2. WalkInv' /\ result'[c] = told /\ \A d \in Calls \ {c} : result'[d] = result[d]
      BY <2>1, OverWalk
    <2>3. told = "limited" => saw429'[c] = 1..pos[c]
      BY <1>2, <1>3 DEF MeansLimit
    <2>4. DOMAIN chain[c] = 1..pos[c]
      BY <1>4 DEF IsLast, ChainInv, Chains, IsChain
    <2> QED
      BY <2>2, <2>3, <2>4
  <1>5. CASE ~IsLast(c)
    <2>1. /\ UNCHANGED <<pc, result, chain>>
          /\ pos' = [pos EXCEPT ![c] = @ + 1]
          /\ limited' = [limited EXCEPT ![c] = FALSE]
          /\ allLimited' = [allLimited EXCEPT ![c] = @ /\ byLimit]
      BY <1>5 DEF GivesUp
    <2>2. WalkTables' /\ OthersAlone(c)
      BY <2>1 DEF WalkInv, WalkTables, OthersAlone
    <2>3. /\ pos'[c] = pos[c] + 1 /\ ~limited'[c] /\ pc'[c] = "trying"
          /\ allLimited'[c] => allLimited[c] /\ byLimit
      BY <2>1 DEF WalkInv, WalkTables
    <2>4. saw429'[c] \subseteq 1..pos'[c]
      BY <1>1, <1>2, <2>3
    <2>5. allLimited'[c] => 1..(pos'[c] - 1) \subseteq saw429'[c]
      BY <1>1, <1>3, <2>3
    <2>6. Walk(c)'
      BY <1>1, <2>1, <2>3, <2>4, <2>5 DEF Walk
    <2> QED
      BY <1>1, <2>1, <2>2, <2>6, OneWalks
  <1> QED
    BY <1>4, <1>5

(* The same provider is asked again.                                       *)
LEMMA RetryWalk ==
    ASSUME WalkInv, NEW c \in Calls, pc[c] = "trying", Retry(c),
           saw429' \in [Calls -> SUBSET Nat], limited' \in [Calls -> BOOLEAN],
           \A d \in Calls \ {c} : saw429'[d] = saw429[d] /\ limited'[d] = limited[d],
           saw429'[c] = saw429[c] \/ saw429'[c] = saw429[c] \cup {pos[c]},
           limited'[c] => pos[c] \in saw429'[c]
    PROVE  WalkInv' /\ UNCHANGED result
  <1>1. UNCHANGED <<pc, pos, allLimited, result>>
    BY DEF Retry
  <1>2. WalkTables' /\ OthersAlone(c)
    BY <1>1 DEF WalkInv, WalkTables, OthersAlone
  <1>3. Walk(c)'
    BY <1>1 DEF WalkInv, WalkTables, Walk
  <1> QED
    BY <1>1, <1>2, <1>3, OneWalks

(* What a step of a call may tell its caller.                              *)
ToldWell == \A c \in Calls : pc[c] = "trying" /\ result'[c] = "limited" => saw429'[c] = DOMAIN chain[c]

(* A result that is not about to be told is not there.                     *)
LEMMA NobodyTold ==
    ASSUME WalkInv, UNCHANGED result
    PROVE  ToldWell
  BY DEF WalkInv, Walk, ToldWell

LEMMA OneTold ==
    ASSUME WalkInv, NEW c \in Calls, \A d \in Calls \ {c} : result'[d] = result[d],
           result'[c] = "limited" => saw429'[c] = DOMAIN chain[c]
    PROVE  ToldWell
  BY DEF WalkInv, Walk, ToldWell

LEMMA NextWalk ==
    ASSUME WalkInv, ChainInv, [Next]_vars
    PROVE  WalkInv' /\ ToldWell
  <1>1. ASSUME NEW c \in Calls,
               Begin(c) \/ AnswerFromCache(c) \/ ReadTable(c) \/ ReadFails(c) \/ FillCache(c)
        PROVE  WalkInv' /\ ToldWell
    BY <1>1, LookUp, NobodyTold
  <1>2. ASSUME NEW c \in Calls, NEW r \in {"answer", "cancelled"}, Over(c, r), UNCHANGED saw429
        PROVE  WalkInv' /\ ToldWell
    <2>1. saw429' \in [Calls -> SUBSET Nat]
      BY <1>2 DEF WalkInv, WalkTables
    <2> QED
      BY <1>2, <2>1, OverWalk, OneTold
  <1>3. ASSUME NEW c \in Calls, RateLimited(c) PROVE WalkInv' /\ ToldWell
    <2>1. /\ pc[c] = "trying" /\ saw429' = [saw429 EXCEPT ![c] = @ \cup {pos[c]}]
          /\ saw429' \in [Calls -> SUBSET Nat]
      BY <1>3 DEF RateLimited, WalkInv, WalkTables
    <2>2. /\ saw429'[c] = saw429[c] \cup {pos[c]} /\ pos[c] \in saw429'[c]
          /\ \A d \in Calls \ {c} : saw429'[d] = saw429[d]
      BY <2>1 DEF WalkInv, WalkTables
    <2>3. CASE Retry(c) /\ limited' = [limited EXCEPT ![c] = TRUE]
      <3>1. limited' \in [Calls -> BOOLEAN] /\ \A d \in Calls \ {c} : limited'[d] = limited[d]
        BY <2>3 DEF WalkInv, WalkTables
      <3> QED
        BY <2>1, <2>2, <2>3, <3>1, RetryWalk, NobodyTold
    <2>4. CASE GivesUp(c, TRUE)
      BY <2>1, <2>2, <2>4, GiveUp, OneTold
    <2> QED
      BY <1>3, <2>3, <2>4 DEF RateLimited
  <1>4. ASSUME NEW c \in Calls, NetworkFails(c) PROVE WalkInv' /\ ToldWell
    <2>1. /\ pc[c] = "trying" /\ UNCHANGED saw429
          /\ saw429' \in [Calls -> SUBSET Nat] /\ limited[c] \in BOOLEAN
          /\ limited[c] => pos[c] \in saw429'[c]
      BY <1>4 DEF NetworkFails, WalkInv, WalkTables, Walk
    <2>2. CASE Retry(c) /\ UNCHANGED limited
      BY <2>1, <2>2, RetryWalk, NobodyTold DEF WalkInv, WalkTables
    <2>3. CASE GivesUp(c, limited[c])
      BY <2>1, <2>3, GiveUp, OneTold
    <2> QED
      BY <1>4, <2>2, <2>3 DEF NetworkFails
  <1>5. ASSUME NEW c \in Calls, ProviderFails(c) PROVE WalkInv' /\ ToldWell
    <2>1. /\ pc[c] = "trying" /\ UNCHANGED saw429 /\ GivesUp(c, FALSE)
          /\ saw429' \in [Calls -> SUBSET Nat]
      BY <1>5 DEF ProviderFails, WalkInv, WalkTables
    <2> QED
      BY <2>1, GiveUp, OneTold
  <1>6. ASSUME NEW c \in Calls, Answers(c) \/ Cancel(c) PROVE WalkInv' /\ ToldWell
    BY <1>2, <1>6 DEF Answers, Cancel
  <1>7. ASSUME UNCHANGED callVars PROVE WalkInv' /\ ToldWell
    BY <1>7, NobodyTold DEF WalkInv, WalkTables, Walk, callVars
  <1>8. ASSUME NEW s \in Saves, NEW p \in Purposes,
               \/ ReadKeys(s) \/ DeleteChains(s) \/ Commit(s) \/ Rollback(s) \/ Invalidate(s, p)
               \/ Expire(p)
        PROVE  UNCHANGED callVars
    BY <1>8 DEF ReadKeys, DeleteChains, Commit, Rollback, Invalidate, Expire
  <1>9. (\E p \in Purposes : Expire(p)) => UNCHANGED callVars
    BY DEF Expire
  <1>10. "main" \in Purposes
    BY DEF Purposes
  <1> QED
    BY <1>1, <1>3, <1>4, <1>5, <1>6, <1>7, <1>8, <1>9, <1>10 DEF Next, CallStep, vars

(* The worker pauses for hours on errAIRateLimited: withFallback and       *)
(* sendRequest (services/provider.go) return it only for a chain whose     *)
(* providers all answered 429 in that call, for chains of any length.      *)
THEOREM PauseMeansLimitedHolds == Spec => PauseMeansLimited
  <1>1. Init => WalkInv /\ ChainInv
    BY InitWalk, InitChain
  <1>2. WalkInv /\ ChainInv /\ [Next]_vars => WalkInv' /\ ChainInv'
    BY NextWalk, NextChain
  <1>3. WalkInv /\ ChainInv /\ [Next]_vars => [ToldWell]_vars
    BY NextWalk
  <1> QED
    BY <1>1, <1>2, <1>3, PTL DEF Spec, PauseMeansLimited, ToldWell
=============================================================================
