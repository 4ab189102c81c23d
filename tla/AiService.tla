------------------------------ MODULE AiService ------------------------------
(***************************************************************************)
(* The chains of AI providers.  Masters replace them in the panel          *)
(* (aiconfig.Store over the table ai_providers), every call of the service *)
(* resolves its chain through the store's cache and walks it until a       *)
(* provider answers (withFallback, sendRequest).  A provider is what tells *)
(* two of them apart, its model and its key; prompts and answers are left  *)
(* out, the outcomes of a request are kept.                                *)
(***************************************************************************)
EXTENDS Naturals, Sequences, FiniteSets

CONSTANTS
    Calls,
    Saves,      \* numbered from 1; 0 stands for whoever saved the stored rows
    Asked,      \* purposes the calls are made for
    Forms,      \* what masters save: [purpose -> sequence of inputs]
    Stored,     \* the rows of ai_providers to begin with
    ScrapeEnv,  \* whether .env has a provider for scraping (SCRAPE_AI_ACTIVATE)
    MaxRetries  \* attempts of sendRequest (3)

Purposes == {"main", "scrape", "triage"}
Env == [model |-> "env", key |-> "env"]
EnvScrape == [model |-> "env scrape", key |-> "env"]
NoChain == [filled |-> FALSE, chain |-> <<>>]

ASSUME FormsAssumption ==
    \A f \in Forms : /\ DOMAIN f \subseteq Purposes
                     /\ \A p \in DOMAIN f : IsFiniteSet(DOMAIN f[p])
(* The id is the primary key.                                              *)
ASSUME StoredAssumption ==
    /\ IsFiniteSet(Stored)
    /\ \A r, q \in Stored : r.id = q.id => r = q
    /\ \A r \in Stored : r.by = 0
ASSUME AskedAssumption == Asked \subseteq Purposes \cup {"import"}
ASSUME RetriesAssumption == MaxRetries \in Nat \ {0}

VARIABLES
    table,     \* ai_providers
    cache,     \* Store.cache by purpose
    pc,        \* where each call is
    ask,       \* the chains it still has to look up
    got,       \* what it read of the table and has yet to put into the cache
    chain,     \* its providers
    pos,       \* the provider it is at
    attempt,   \* the attempt of sendRequest it is at
    limited,   \* hitRateLimit
    allLimited,\* allRateLimited
    result,    \* what the caller is told
    saw429,    \* history: the providers of the chain that answered 429
    spc,       \* where each save is
    form,      \* what it saves
    keys,      \* the keys it read before its transaction
    seen,      \* the rows its DELETE saw
    toDrop,    \* the chains it has yet to invalidate
    overtaken, \* history: another save committed since it read the keys
    late       \* history: the cache was filled with what a save had replaced

callVars == <<pc, ask, got, chain, pos, attempt, limited, allLimited, result, saw429>>
saveVars == <<spc, form, keys, seen, toDrop, overtaken>>
vars == <<table, cache, callVars, saveVars, late>>

Init ==
    /\ table = Stored
    /\ cache = [p \in Purposes |-> NoChain]
    /\ pc = [c \in Calls |-> "idle"]
    /\ ask = [c \in Calls |-> <<>>]
    /\ got = [c \in Calls |-> <<>>]
    /\ chain = [c \in Calls |-> <<>>]
    /\ pos = [c \in Calls |-> 1]
    /\ attempt = [c \in Calls |-> 1]
    /\ limited = [c \in Calls |-> FALSE]
    /\ allLimited = [c \in Calls |-> TRUE]
    /\ result = [c \in Calls |-> "none"]
    /\ saw429 = [c \in Calls |-> {}]
    /\ spc = [s \in Saves |-> "idle"]
    /\ form = [s \in Saves |-> <<>>]
    /\ keys = [s \in Saves |-> {}]
    /\ seen = [s \in Saves |-> {}]
    /\ toDrop = [s \in Saves |-> {}]
    /\ overtaken = [s \in Saves |-> FALSE]
    /\ late = [p \in Purposes |-> FALSE]

(* ------------------------- the chain of a purpose ------------------------- *)

(* The elements of a set as a sequence, each after those that precede it.  *)
InOrder(S, Precedes(_, _)) ==
    [n \in 1..Cardinality(S) |-> CHOOSE x \in S : Cardinality({y \in S : Precedes(y, x)}) = n - 1]

(* The rows of a chain.                                                    *)
List(p) == {r \in table : r.purpose = p}

(* ORDER BY position; of two rows at the same position, the older first.   *)
RowPrecedes(a, b) ==
    \/ a.position < b.position
    \/ /\ a.position = b.position
       /\ a.id[1] < b.id[1] \/ (a.id[1] = b.id[1] /\ a.id[3] < b.id[3])

Provider(r) == [model |-> r.model, key |-> r.key]

Enabled(rows) ==
    LET on == InOrder({r \in rows : r.enabled}, RowPrecedes)
    IN  [k \in DOMAIN on |-> Provider(on[k])]

Plan(purpose) == IF purpose = "import" THEN <<"scrape", "main">> ELSE <<purpose>>

(* Variant: the main chain falls back to the one for scraping.             *)
FallbackInTurn(purpose) == [more |-> <<IF purpose = "main" THEN "scrape" ELSE "main">>, chain |-> <<>>]

(* resolveProviders with what the store returned for the chain asked last: *)
(* an empty chain, or a failed read, falls back; of a chain met second the *)
(* models that are there already are left out.                             *)
Fallback(purpose) ==
    CASE purpose = "triage" -> [more |-> <<"main">>, chain |-> <<>>]
      [] purpose = "scrape" -> IF ScrapeEnv THEN [more |-> <<>>, chain |-> <<EnvScrape>>]
                                           ELSE [more |-> <<"main">>, chain |-> <<>>]
      [] OTHER -> [more |-> <<>>, chain |-> <<Env>>]

NewOnes(have, more) ==
    LET IsNew(k) == /\ \A j \in DOMAIN have : have[j].model # more[k].model
                    /\ \A j \in DOMAIN more : j < k => more[j].model # more[k].model
        new == InOrder({k \in DOMAIN more : IsNew(k)}, <)
    IN  [n \in DOMAIN new |-> more[new[n]]]

Resolve(c, providers) ==
    LET fall == IF providers = <<>> THEN Fallback(Head(ask[c])) ELSE [more |-> <<>>, chain |-> providers]
        rest == fall.more \o Tail(ask[c])
        full == chain[c] \o (IF chain[c] = <<>> THEN fall.chain ELSE NewOnes(chain[c], fall.chain))
    IN  /\ ask' = [ask EXCEPT ![c] = rest]
        /\ chain' = [chain EXCEPT ![c] = full]
        /\ pc' = [pc EXCEPT ![c] = IF rest = <<>> THEN "trying" ELSE "asking"]

Begin(c) ==
    /\ pc[c] = "idle"
    /\ pc' = [pc EXCEPT ![c] = "asking"]
    /\ \E purpose \in Asked : ask' = [ask EXCEPT ![c] = Plan(purpose)]
    /\ UNCHANGED <<table, cache, got, chain, pos, attempt, limited, allLimited, result, saw429,
                   saveVars, late>>

AnswerFromCache(c) ==
    /\ pc[c] = "asking"
    /\ cache[Head(ask[c])].filled
    /\ Resolve(c, cache[Head(ask[c])].chain)
    /\ UNCHANGED <<table, cache, got, pos, attempt, limited, allLimited, result, saw429,
                   saveVars, late>>

ReadTable(c) ==
    /\ pc[c] = "asking"
    /\ ~cache[Head(ask[c])].filled
    /\ got' = [got EXCEPT ![c] = Enabled(List(Head(ask[c])))]
    /\ pc' = [pc EXCEPT ![c] = "filling"]
    /\ UNCHANGED <<table, cache, ask, chain, pos, attempt, limited, allLimited, result, saw429,
                   saveVars, late>>

ReadFails(c) ==
    /\ pc[c] = "asking"
    /\ ~cache[Head(ask[c])].filled
    /\ Resolve(c, <<>>)
    /\ UNCHANGED <<table, cache, got, pos, attempt, limited, allLimited, result, saw429,
                   saveVars, late>>

(* The lock of the store is not held over the read: a save may have come   *)
(* and invalidated the chain meanwhile.                                    *)
FillCache(c) ==
    LET p == Head(ask[c])
    IN  /\ pc[c] = "filling"
        /\ cache' = [cache EXCEPT ![p] = [filled |-> TRUE, chain |-> got[c]]]
        /\ late' = [late EXCEPT ![p] = got[c] # Enabled(List(p))]
        /\ got' = [got EXCEPT ![c] = <<>>]
        /\ Resolve(c, got[c])
        /\ UNCHANGED <<table, pos, attempt, limited, allLimited, result, saw429, saveVars>>

(* cacheTTL.                                                               *)
Expire(p) ==
    /\ cache[p].filled
    /\ cache' = [cache EXCEPT ![p] = NoChain]
    /\ late' = [late EXCEPT ![p] = FALSE]
    /\ UNCHANGED <<table, callVars, saveVars>>

(* --------------------------- walking the chain --------------------------- *)

IsLast(c) == pos[c] = Len(chain[c])

(* The caller is told; what the walk remembered is of no use any more.     *)
Over(c, r) ==
    /\ pc' = [pc EXCEPT ![c] = "over"]
    /\ result' = [result EXCEPT ![c] = r]
    /\ pos' = [pos EXCEPT ![c] = 1]
    /\ attempt' = [attempt EXCEPT ![c] = 1]
    /\ limited' = [limited EXCEPT ![c] = FALSE]
    /\ allLimited' = [allLimited EXCEPT ![c] = TRUE]
    /\ chain' = [chain EXCEPT ![c] = <<>>]

(* Variant: the last provider speaks for all.                              *)
LastMeansLimit(c, byLimit) == byLimit

MeansLimit(c, byLimit) == allLimited[c] /\ byLimit

(* The provider at hand gives up, because of a limit or of something else: *)
(* the next one is tried, and after the last one the caller is told.       *)
GivesUp(c, byLimit) ==
    IF IsLast(c)
    THEN Over(c, IF MeansLimit(c, byLimit) THEN "limited" ELSE "failed")
    ELSE /\ pos' = [pos EXCEPT ![c] = @ + 1]
         /\ attempt' = [attempt EXCEPT ![c] = 1]
         /\ limited' = [limited EXCEPT ![c] = FALSE]
         /\ allLimited' = [allLimited EXCEPT ![c] = @ /\ byLimit]
         /\ UNCHANGED <<pc, result, chain>>

Retry(c) ==
    /\ attempt' = [attempt EXCEPT ![c] = @ + 1]
    /\ UNCHANGED <<pc, pos, allLimited, result, chain>>

tryFrame == <<table, cache, ask, got, saveVars, late>>

Answers(c) ==
    /\ pc[c] = "trying"
    /\ Over(c, "answer")
    /\ UNCHANGED <<tryFrame, saw429>>

(* A 429: only the last provider of the chain is waited for.               *)
RateLimited(c) ==
    /\ pc[c] = "trying"
    /\ saw429' = [saw429 EXCEPT ![c] = @ \cup {pos[c]}]
    /\ IF IsLast(c) /\ attempt[c] < MaxRetries
       THEN Retry(c) /\ limited' = [limited EXCEPT ![c] = TRUE]
       ELSE GivesUp(c, TRUE)
    /\ UNCHANGED tryFrame

(* A failed connection: tried again; after the attempts it counts as a     *)
(* limit only if one of them met a 429.                                    *)
NetworkFails(c) ==
    /\ pc[c] = "trying"
    /\ IF attempt[c] < MaxRetries
       THEN Retry(c) /\ UNCHANGED limited
       ELSE GivesUp(c, limited[c])
    /\ UNCHANGED <<tryFrame, saw429>>

(* Another status, an answer that cannot be used, or the provider's own    *)
(* time is over.                                                           *)
ProviderFails(c) ==
    /\ pc[c] = "trying"
    /\ GivesUp(c, FALSE)
    /\ UNCHANGED <<tryFrame, saw429>>

(* The context of the caller ends.                                         *)
Cancel(c) ==
    /\ pc[c] = "trying"
    /\ Over(c, "cancelled")
    /\ UNCHANGED <<tryFrame, saw429>>

(* ------------------------- saving in the panel ------------------------- *)

KeyOf(ks, id) == (CHOOSE k \in ks : k.id = id).key
Has(ks, id) == \E k \in ks : k.id = id

(* buildRows: an id counts in its own chain only; an input without a key   *)
(* keeps the one of its row, or takes the one of the row it names.         *)
KeptId(s, p, in) == Has({k \in keys[s] : k.purpose = p}, in.id)

(* Variant: what the page sends is taken as it is.                         *)
KeyAsSent(s, p, in) == IF in.key \in {"", "clear"} THEN "none" ELSE in.key

KeyFor(s, p, in) ==
    CASE in.key = "clear" -> "none"
      [] in.key # "" /\ in.key # "clear" -> in.key
      [] in.key = "" /\ KeptId(s, p, in) -> KeyOf(keys[s], in.id)
      [] in.key = "" /\ ~KeptId(s, p, in) /\ Has(keys[s], in.from) -> KeyOf(keys[s], in.from)
      [] OTHER -> "none"

Row(s, p, i) ==
    LET in == form[s][p][i]
    IN  [id |-> IF KeptId(s, p, in) THEN in.id ELSE <<s, p, i>>,
         purpose |-> p, position |-> i, model |-> in.model, enabled |-> in.enabled,
         key |-> KeyFor(s, p, in), by |-> s]

NewRows(s) == UNION {{Row(s, p, i) : i \in DOMAIN form[s][p]} : p \in DOMAIN form[s]}

(* SaveAll up to its transaction.  The three reads are one step.           *)
ReadKeys(s) ==
    /\ spc[s] = "idle"
    /\ \E f \in Forms : form' = [form EXCEPT ![s] = f]
    /\ keys' = [keys EXCEPT ![s] = {[id |-> r.id, purpose |-> r.purpose, key |-> r.key] : r \in table}]
    /\ spc' = [spc EXCEPT ![s] = "read"]
    /\ UNCHANGED <<table, cache, callVars, seen, toDrop, overtaken, late>>

(* Variant: a position that is not written again keeps its row.            *)
RewrittenRows(s) == {r \in table : r.purpose \in DOMAIN form[s] /\ r.position \in DOMAIN form[s][r.purpose]}

ReplacedRows(s) == {r \in table : r.purpose \in DOMAIN form[s]}

(* replaceChain: the DELETEs of the transaction see the rows committed by  *)
(* now.                                                                    *)
DeleteChains(s) ==
    /\ spc[s] = "read"
    /\ seen' = [seen EXCEPT ![s] = ReplacedRows(s)]
    /\ spc' = [spc EXCEPT ![s] = "deleted"]
    /\ UNCHANGED <<table, cache, callVars, form, keys, toDrop, overtaken, late>>

(* Variant: the chain of the triage is forgotten.                          *)
OldDropped(s) == DOMAIN form[s] \cap {"main", "scrape"}

Dropped(s) == DOMAIN form[s]

(* The INSERTs and the commit.  A save that committed in between left rows *)
(* the DELETE did not see: an id that is there again, or twice in the form, *)
(* is refused by the primary key, other rows stay beside the new ones.     *)
Clash(s) ==
    \E r \in NewRows(s), q \in (table \ seen[s]) \cup NewRows(s) : r # q /\ r.id = q.id

Forget(s) ==
    /\ form' = [form EXCEPT ![s] = <<>>]
    /\ keys' = [keys EXCEPT ![s] = {}]
    /\ seen' = [seen EXCEPT ![s] = {}]

Commit(s) ==
    /\ spc[s] = "deleted"
    /\ ~Clash(s)
    /\ table' = (table \ seen[s]) \cup NewRows(s)
    /\ toDrop' = [toDrop EXCEPT ![s] = Dropped(s)]
    /\ overtaken' = [q \in Saves |-> overtaken[q] \/ (q # s /\ spc[q] \in {"read", "deleted"})]
    /\ spc' = [spc EXCEPT ![s] = "saved"]
    /\ Forget(s)
    /\ UNCHANGED <<cache, callVars, late>>

Rollback(s) ==
    /\ spc[s] \in {"read", "deleted"}
    /\ spc' = [spc EXCEPT ![s] = "over"]
    /\ Forget(s)
    /\ UNCHANGED <<table, cache, callVars, toDrop, overtaken, late>>

Invalidate(s, p) ==
    /\ spc[s] = "saved"
    /\ p \in toDrop[s]
    /\ cache' = [cache EXCEPT ![p] = NoChain]
    /\ late' = [late EXCEPT ![p] = FALSE]
    /\ toDrop' = [toDrop EXCEPT ![s] = @ \ {p}]
    /\ spc' = [spc EXCEPT ![s] = IF toDrop[s] = {p} THEN "over" ELSE @]
    /\ UNCHANGED <<table, callVars, form, keys, seen, overtaken>>

(* ------------------------------------------------------------------------ *)

CallStep(c) ==
    \/ AnswerFromCache(c) \/ ReadTable(c) \/ ReadFails(c) \/ FillCache(c)
    \/ Answers(c) \/ RateLimited(c) \/ NetworkFails(c) \/ ProviderFails(c) \/ Cancel(c)

Next ==
    \/ \E c \in Calls : Begin(c) \/ CallStep(c)
    \/ \E p \in Purposes : Expire(p)
    \/ \E s \in Saves :
         \/ ReadKeys(s) \/ DeleteChains(s) \/ Commit(s) \/ Rollback(s)
         \/ \E p \in Purposes : Invalidate(s, p)

Spec == Init /\ [][Next]_vars

(* A call that was begun goes on: requests have time limits.               *)
FairSpec == Spec /\ \A c \in Calls : WF_vars(CallStep(c))

(* ------------------------------ properties ------------------------------ *)

(* The worker is paused for hours by a "limited": it is told so only when  *)
(* every provider of the chain answered 429 in this very call.             *)
PauseMeansLimited ==
    [][\A c \in Calls :
          pc[c] = "trying" /\ result'[c] = "limited" => saw429'[c] = DOMAIN chain[c]]_vars

(* A chain in the cache that is not the one saved is about to be           *)
(* invalidated, or it was read before a save and stored after its          *)
(* invalidation (Providers does not hold its lock over the read).          *)
StaleChainHasACause ==
    \A p \in Purposes :
        cache[p].filled /\ cache[p].chain # Enabled(List(p))
            => late[p] \/ \E s \in Saves : p \in toDrop[s]

(* A chain has the rows of one save only, except when another one          *)
(* committed while its own was under way: nothing in ai_providers keeps    *)
(* two rows of a chain from having the same position.                      *)
ChainOfOneSave ==
    \A r, q \in table :
        r.purpose = q.purpose /\ r.by # q.by
            => \E s \in Saves : s \in {r.by, q.by} /\ overtaken[s]

(* A provider sent back without a key keeps the key it has, except when    *)
(* another save committed since this one read the keys.                    *)
KeyIsKept ==
    [][\A s \in Saves : spc[s] = "deleted" /\ spc'[s] = "saved" /\ ~overtaken[s] =>
          \A p \in DOMAIN form[s] : \A i \in DOMAIN form[s][p] : \A r \in table :
             form[s][p][i].key = "" /\ r.id = form[s][p][i].id /\ r.purpose = p
                 => \E q \in table' : q.id = r.id /\ q.key = r.key]_vars

(* However its providers fail, and whatever is saved meanwhile, a call     *)
(* ends: nobody waits for ever behind the chain.                           *)
CallEnds == \A c \in Calls : pc[c] = "asking" ~> pc[c] = "over"
=============================================================================
