------------------------------ MODULE JobLists ------------------------------
(***************************************************************************)
(* How jobs are compared with the profile and listed: the fit of a stack   *)
(* (internal/jobfit), the list of Descobrir (handler/discovery.go), the    *)
(* list of Vagas by fit and the keywords of a job (handler/job.go).  A     *)
(* term is the sequence of its words; the separators between them are not  *)
(* told apart.  A text is the set of the terms it cites.                   *)
(***************************************************************************)
EXTENDS Orderings

CONSTANTS
    Terms,      \* Terms[t]: the terms that stand for a technology t
    Searchable, \* the terms that the search of the database can find
    Stacks,     \* stacks with the profile to compare them with
    Searches,   \* what Descobrir is asked for, over which posts
    JobPages,   \* what Vagas is asked for, over which jobs
    Postings    \* jobs with their text, the last resume if any, and the profile

(* What the database and JSON give: lists of jobs with ids, numbers.       *)
ASSUME ListsAssumption ==
    /\ IsFiniteSet(DOMAIN Terms) /\ <<>> \notin DOMAIN Terms
    /\ \A q \in Stacks : IsList(q.stack)
    /\ \A q \in Searches :
          /\ IsList(q.posts) /\ IsFiniteSet(q.skills) /\ q.cursor \in Int /\ q.size \in Int
          /\ \A p \in Range(q.posts) : IsFiniteSet(p.techs) /\ p.levels \subseteq {"junior", "mid", "senior"}
          /\ \A id \in DOMAIN q.pipeline : IsList(q.pipeline[id])
    /\ \A q \in JobPages :
          /\ IsList(q.jobs) /\ q.minPct \in Int /\ q.cursor \in Int /\ q.size \in Int
          /\ \A j \in Range(q.jobs) : IsList(j.stack)
          /\ \A i, k \in DOMAIN q.jobs : q.jobs[i].id = q.jobs[k].id => i = k
    /\ \A q \in Postings : IsList(q.stack)

VARIABLES
    search, \* what is asked
    answer  \* what the server answers

listsVars == <<search, answer>>

(* -------------------------------- the fit -------------------------------- *)

(* canonical.                                                              *)
Key(t, aliases) == IF t \in DOMAIN aliases THEN aliases[t] ELSE t

BeginsWith(item, term) == Len(term) <= Len(item) /\ \A k \in DOMAIN term : item[k] = term[k]

(* The item is the term, begins with it or has it as a word.               *)
TechMatch(item, term) ==
    term # <<>> /\ (BeginsWith(item, term) \/ \E k \in DOMAIN item : term = <<item[k]>>)

LevelWeight(level) ==
    CASE level = "intermediate" -> 75
      [] level = "basic" -> 40
      [] OTHER -> 100

(* The skills that cover an item by their names, and by their tags.        *)
Covers(terms, item, aliases) == \E t \in terms : TechMatch(item, Key(t, aliases))
Named(item, profile) == {s \in profile.skills : Covers(s.terms, item, profile.aliases)}
Tagged(item, profile) == {s \in profile.skills : Covers(s.tags, item, profile.aliases)}

(* How well the profile covers an item: by the names of skills if one has  *)
(* it, else by their tags; 0 when it is missing.                           *)
Best(item, profile) ==
    LET named  == Named(item, profile)
        worths == {0} \cup {LevelWeight(s.level) : s \in IF named # {} THEN named ELSE Tagged(item, profile)}
    IN  CHOOSE w \in worths : \A x \in worths : x <= w

QualityOf(pct, items) ==
    IF pct >= 70 /\ items >= 3 THEN "high" ELSE IF pct >= 30 THEN "mid" ELSE "low"

(* The places of a stack whose item is worth w to the profile, an item     *)
(* without a name not being one.                                           *)
Items(stack, profile) == {k \in DOMAIN stack : Key(stack[k], profile.aliases) # <<>>}
Worth(stack, profile, w) ==
    {k \in Items(stack, profile) : Best(Key(stack[k], profile.aliases), profile) = w}

(* Evaluate: the mean of the weights, rounded.                             *)
Fit(stack, profile) ==
    LET n       == Cardinality(Items(stack, profile))
        full    == Cardinality(Worth(stack, profile, 100))
        good    == Cardinality(Worth(stack, profile, 75))
        some    == Cardinality(Worth(stack, profile, 40))
        pct     == (2 * (100 * full + 75 * good + 40 * some) + n) \div (2 * n)
    IN  IF n = 0 \/ profile.skills = {}
        THEN [items |-> 0, pct |-> 0, quality |-> "mid", strong |-> 0, partial |-> 0]
        ELSE [items |-> n, pct |-> pct, quality |-> QualityOf(pct, n),
              strong |-> full, partial |-> good + some]

Tier(fit) ==
    CASE fit.items = 0 -> 0
      [] fit.quality = "high" -> 3
      [] fit.quality = "mid" -> 2
      [] OTHER -> 1

(* ------------------------ the candidates of Descobrir ------------------------ *)

(* The skills the person is strong in, or all when there is none.          *)
StrongSkills(skills) ==
    LET strong == {s \in skills : s.level \in {"advanced", "expert"}}
    IN  IF strong # {} THEN strong ELSE skills

TechCoveredBy(t, skill) == Terms[t] \cap skill.terms # {}

(* PlanSkills: the technologies that stand for a skill, and what remains   *)
(* of its name for the search of the database.                             *)
PlanTechs(skill) == {t \in DOMAIN Terms : TechCoveredBy(t, skill)}
PlanTerms(skill) == (skill.terms \ UNION {Terms[t] : t \in PlanTechs(skill)}) \cap Searchable

SkillHit(post, skill) == PlanTerms(skill) \cap post.phrases # {}

MatchedSkills(post, q) ==
    {s \in StrongSkills(q.skills) : PlanTechs(s) \cap post.techs # {} \/ SkillHit(post, s)}
MatchedTechs(post, q) == q.interest \cap post.techs

(* Variant: the hits of the search enter with the interests too.           *)
CandidateOrHit(post, q) ==
    LET mine == StrongSkills(q.skills)
    IN  \/ post.techs \cap (IF q.interest # {} THEN q.interest ELSE UNION {PlanTechs(s) : s \in mine}) # {}
        \/ \E s \in mine : SkillHit(post, s)

(* ListCandidates: the interests decide when there are any, else skills.   *)
Candidate(post, q) ==
    LET mine == StrongSkills(q.skills)
    IN  IF q.interest # {} THEN post.techs \cap q.interest # {}
        ELSE \/ post.techs \cap UNION {PlanTechs(s) : s \in mine} # {}
             \/ \E s \in mine : SkillHit(post, s)

(* The rows, by their places among the posts: the latest come first.       *)
Listable(q) == {i \in DOMAIN q.posts : Candidate(q.posts[i], q)}

(* What makes posts the same vacancy.                                      *)
Vacancy(p) == IF p.company = "" THEN <<p.id>> ELSE <<p.title, p.company>>

(* Its latest post stands for a vacancy, the first of the rows.            *)
Heads(q) ==
    {i \in Listable(q) : \A k \in Listable(q) : k < i => Vacancy(q.posts[k]) # Vacancy(q.posts[i])}

Wanted(post, q) ==
    IF q.interest # {} THEN MatchedTechs(post, q) # {} ELSE MatchedSkills(post, q) # {}

(* addAlsoOn: one link for each other site that has the vacancy.           *)
AlsoOn(q, i) ==
    LET others == {k \in Listable(q) : k > i /\ Vacancy(q.posts[k]) = Vacancy(q.posts[i])}
    IN  {k \in others :
            /\ q.posts[k].source # q.posts[i].source
            /\ \A l \in others : l < k => q.posts[l].source # q.posts[k].source}

(* PipelineStacks: the stack the AI read, once the job is in the pipeline. *)
PipelineStack(post, q) == IF post.id \in DOMAIN q.pipeline THEN q.pipeline[post.id] ELSE <<>>

(* The technologies of a post are their own places: their order does not   *)
(* count.                                                                  *)
JobFit(post, q) ==
    LET read == PipelineStack(post, q)
    IN  Fit(IF read # <<>> THEN read ELSE [t \in post.techs |-> t], q)

OnView(q) ==
    {i \in Heads(q) : Wanted(q.posts[i], q) /\ (q.posts[i].dismissed <=> q.view = "dismissed")}

JobAt(q, i) ==
    [post |-> q.posts[i], fit |-> JobFit(q.posts[i], q), skills |-> MatchedSkills(q.posts[i], q),
     techs |-> MatchedTechs(q.posts[i], q), also |-> {q.posts[k] : k \in AlsoOn(q, i)}]

OnList(q) == Picked([i \in DOMAIN q.posts |-> JobAt(q, i)], OnView(q))

Hidden(q) == Cardinality({i \in Heads(q) : Wanted(q.posts[i], q) /\ q.posts[i].dismissed})

(* rankDiscovered; the latest first among equals.                          *)
RankOf(j) ==
    <<Tier(j.fit), 2 * j.fit.strong + j.fit.partial, j.fit.pct,
      Cardinality(j.skills), Cardinality(j.techs)>>
Outranks(a, b) == \E k \in 1..5 : a[k] > b[k] /\ \A l \in 1..5 : l < k => a[l] = b[l]

RankedBefore(jobs) ==
    {p \in (DOMAIN jobs) \X (DOMAIN jobs) :
        \/ Outranks(RankOf(jobs[p[1]]), RankOf(jobs[p[2]]))
        \/ RankOf(jobs[p[1]]) = RankOf(jobs[p[2]]) /\ p[1] < p[2]}

Ranked(jobs) ==
    [n \in 1..Cardinality(DOMAIN jobs) |-> jobs[InOrder(DOMAIN jobs, RankedBefore(jobs))[n]]]

(* -------------------------------- filters -------------------------------- *)

InCities(p, f) == p.workplace = "remote" \/ f.cities = {} \/ p.cities \cap f.cities # {}

MatchesLocation(p, f) ==
    IF f.modes = {} THEN p.abroad \/ InCities(p, f)
    ELSE IF p.abroad THEN "abroad" \in f.modes
    ELSE /\ f.modes # {"abroad"}
         /\ p.workplace = "" \/ p.workplace \in f.modes
         /\ InCities(p, f)

MatchesSeniority(levels, f) ==
    \/ f.levels = {}
    \/ levels = {} /\ f.unknown
    \/ levels \cap f.levels # {}

SkillNames(j) == {s.name : s \in j.skills}

(* filterDiscovered: the jobs that pass the filters but those set aside.   *)
Passing(jobs, f, aside) ==
    {k \in DOMAIN jobs :
        /\ MatchesLocation(jobs[k].post, f)
        /\ aside = "source" \/ f.sources = {} \/ jobs[k].post.source \in f.sources
        /\ aside = "skill" \/ f.named \subseteq SkillNames(jobs[k])
        /\ aside = "level" \/ MatchesSeniority(jobs[k].post.levels, f)}

(* The counts beside each option: of the jobs that pass the other filters. *)
Facets(jobs, f) ==
    LET bySource == Passing(jobs, f, "source")
        bySkill  == Passing(jobs, f, "skill")
        byLevel  == Passing(jobs, f, "level")
    IN  [sources |-> [s \in {jobs[k].post.source : k \in bySource} |->
                        Cardinality({k \in bySource : jobs[k].post.source = s})],
         skills  |-> [s \in UNION {SkillNames(jobs[k]) : k \in bySkill} |->
                        Cardinality({k \in bySkill : s \in SkillNames(jobs[k])})],
         levels  |-> [l \in {"junior", "mid", "senior"} |->
                        Cardinality({k \in byLevel : l \in jobs[k].post.levels})],
         unknown |-> Cardinality({k \in byLevel : jobs[k].post.levels = {}})]

Results(jobs, f) == Picked(jobs, Passing(jobs, f, "nothing"))

(* pageBounds. *)
PageOf(list, cursor, size) ==
    LET start == IF cursor < 0 THEN 0 ELSE cursor
        room  == IF size < 1 THEN 1 ELSE size
    IN  [i \in {k \in 1..room : start + k <= Len(list)} |-> list[start + i]]

(* otherStack: what the post cites besides what is already pointed out.    *)
OtherStack(j) ==
    {t \in j.post.techs \ j.techs : ~ \E s \in j.skills : TechCoveredBy(t, s)}

(* PageDetails: a post deleted meanwhile has no details.                   *)
AlreadyAdded(post, q) == post.id \in DOMAIN q.pipeline /\ post.id \notin q.gone

(* fillPage: and it stays on the page without them.                        *)
Filled(page, q) ==
    [n \in DOMAIN page |->
        [job |-> page[n], stack |-> OtherStack(page[n]), added |-> AlreadyAdded(page[n].post, q)]]

(* ---------------------------- the list of Vagas ---------------------------- *)

ClampPct(v) == IF v < 0 THEN 0 ELSE IF v > 100 THEN 100 ELSE v

(* The fit of a job, less than nothing when its stack is not known yet.    *)
PctOf(job, q) == IF job.stack = <<>> THEN -1 ELSE Fit(job.stack, q).pct

(* The jobs of the filters that the database knows, the newest first.      *)
QuerySelectJobFitRows(q) == {i \in DOMAIN q.jobs : q.quality \in {"", q.jobs[i].stored}}

PassingFit(q) ==
    {i \in QuerySelectJobFitRows(q) :
        ClampPct(q.minPct) > 0 => PctOf(q.jobs[i], q) >= ClampPct(q.minPct)}

(* The newest first, or the best.                                          *)
BeforeByFit(q) ==
    {p \in PassingFit(q) \X PassingFit(q) :
        LET a == PctOf(q.jobs[p[1]], q)
            b == PctOf(q.jobs[p[2]], q)
        IN  IF q.byFit /\ a # b THEN a > b ELSE p[1] < p[2]}

(* listJobsByFit, before the jobs of the page are read.                    *)
ByFit(q) ==
    [n \in 1..Cardinality(PassingFit(q)) |-> q.jobs[InOrder(PassingFit(q), BeforeByFit(q))[n]]]

(* A job deleted before the page is read leaves no hole in it.             *)
JobsOfPage(list, gone, cursor, size) ==
    LET page == PageOf(list, cursor, size)
    IN  ThoseWith(page, [i \in DOMAIN page |-> page[i].id \notin gone])

(* attachFit: the quality of a completed job that is on the page follows   *)
(* the profile, in the answer and in the row.                              *)
Attached(job, q) ==
    [id |-> job.id, stack |-> job.stack, completed |-> job.completed,
     stored |-> IF job.stack # <<>> /\ job.completed /\ job.stored # ""
                THEN Fit(job.stack, q).quality ELSE job.stored]

AfterLooking(q, page) ==
    [i \in DOMAIN q.jobs |-> IF q.jobs[i] \in Range(page) THEN Attached(q.jobs[i], q) ELSE q.jobs[i]]

(* ----------------------- the keywords of a job's page ----------------------- *)

(* MatchTechs, over the whole catalogue.                                   *)
TechsCited(text) == {t \in DOMAIN Terms : Terms[t] \cap text # {}}

(* techFor: the technology that a term names, if any; its name before the  *)
(* terms of others.                                                        *)
TechFor(term) ==
    LET of == {t \in DOMAIN Terms : term \in Terms[t]}
    IN  IF term \in DOMAIN Terms THEN {term} ELSE IF of = {} THEN {} ELSE {CHOOSE t \in of : TRUE}

(* keywordTerms: the stack, then what the text cites besides, each         *)
(* technology once and under its own name.                                 *)
Class(name, q) ==
    LET key == Key(name, q.aliases)
    IN  IF TechFor(key) # {} THEN TechFor(key) ELSE {key}

AnyOrder(S) == CHOOSE s \in [1..Cardinality(S) -> S] : \A x \in S : \E i \in DOMAIN s : s[i] = x
Cited(q) == q.stack \o AnyOrder(TechsCited(q.text))

FirstCited(q) ==
    LET names == Cited(q)
        named == {i \in DOMAIN names : Key(names[i], q.aliases) # <<>>}
    IN  {i \in named : \A k \in named : k < i => Class(names[k], q) # Class(names[i], q)}

KeywordTerms(q) ==
    LET names == Cited(q)
        tech(i) == TechFor(Key(names[i], q.aliases))
    IN  Picked([i \in DOMAIN names |-> IF tech(i) = {} THEN names[i] ELSE CHOOSE t \in tech(i) : TRUE],
               FirstCited(q))

(* inText: under any spelling of the catalogue, or else any of the aliases.*)
InText(text, term, aliases) ==
    LET key  == Key(term, aliases)
        tech == TechFor(key)
        spellings == {term, key} \cup {a \in DOMAIN aliases : aliases[a] = key}
    IN  IF tech # {} THEN tech \cap TechsCited(text) # {} ELSE spellings \cap text # {}

(* latestResumeText: no text at all without a resume.                      *)
LatestResumeText(q) == IF q.resume = <<>> THEN {} ELSE q.resume[1]

Keywords(q) ==
    LET terms == KeywordTerms(q)
        cited == [i \in DOMAIN terms |-> InText(LatestResumeText(q), terms[i], q.aliases)]
        known == [i \in DOMAIN terms |-> Best(Key(terms[i], q.aliases), q) > 0]
    IN  [inResume     |-> ThoseWith(terms, cited),
         missing      |-> ThoseWith(terms, [i \in DOMAIN terms |-> ~cited[i] /\ known[i]]),
         notInProfile |-> ThoseWith(terms, [i \in DOMAIN terms |-> ~cited[i] /\ ~known[i]])]

(* ------------------------------- the answers ------------------------------- *)

Unanswered == [about |-> "nothing"]

ListsInit ==
    /\ answer = Unanswered
    /\ \/ \E q \in Stacks : search = [about |-> "fit", q |-> q]
       \/ \E q \in Searches : search = [about |-> "posts", q |-> q]
       \/ \E q \in JobPages : search = [about |-> "jobs", q |-> q]
       \/ \E q \in Postings : search = [about |-> "job", q |-> q]

Looks(for) == answer = Unanswered /\ search.about = for /\ UNCHANGED search

Evaluate ==
    /\ Looks("fit")
    /\ answer' = [about |-> "fit", fit |-> Fit(search.q.stack, search.q)]

(* GET /discovery/jobs *)
ListDiscovered ==
    /\ Looks("posts")
    /\ LET q    == search.q
           jobs == Ranked(OnList(q))
           page == PageOf(Results(jobs, q), q.cursor, q.size)
       IN  answer' = [about |-> "posts", jobs |-> jobs, facets |-> Facets(jobs, q),
                      page |-> Filled(page, q), hidden |-> Hidden(q)]

(* GET /jobs, filtered or ordered by fit *)
ListJobs ==
    /\ Looks("jobs")
    /\ LET page == JobsOfPage(ByFit(search.q), search.q.gone, search.q.cursor, search.q.size)
       IN  answer' = [about |-> "jobs", page |-> page, jobs |-> AfterLooking(search.q, page)]

(* GET /jobs/{id} *)
GetJob ==
    /\ Looks("job")
    /\ answer' = [about |-> "job", fit |-> Fit(search.q.stack, search.q), keywords |-> Keywords(search.q)]

ListsNext == Evaluate \/ ListDiscovered \/ ListJobs \/ GetJob

ListsSpec == ListsInit /\ [][ListsNext]_listsVars

(* ------------------------------- properties ------------------------------- *)

(* To lack one more technology never makes a job a better one, neither by  *)
(* its coverage nor by its quality; a better level in a skill never makes  *)
(* it a worse one; and the order of the stack does not count.              *)
Worse(f, g) == f.pct <= g.pct /\ (f.items > 0 /\ g.items > 0 => Tier(f) <= Tier(g))

Raised(q, s) ==
    [skills |-> (q.skills \ {s})
                  \cup {[name |-> s.name, terms |-> s.terms, tags |-> s.tags, level |-> "expert"]},
     aliases |-> q.aliases]

LackingNeverHelps ==
    LET q == search.q
        n == Len(q.stack)
    IN  /\ \A t \in DOMAIN Terms :
              Best(Key(t, q.aliases), q) = 0 => Worse(Fit(Append(q.stack, t), q), answer.fit)
        /\ \A s \in q.skills : Worse(answer.fit, Fit(q.stack, Raised(q, s)))
        /\ Fit([k \in 1..n |-> q.stack[n + 1 - k]], q) = answer.fit

(* A post that says what the person looks for is on the list, or is a link *)
(* of the post that stands for its vacancy, or repeats a site it has; else *)
(* the user dismissed the vacancy, and it is one of those counted.         *)
NothingIsLost ==
    LET q == search.q
        wanted == {i \in DOMAIN q.posts : Wanted(q.posts[i], q)}
        same(i, k) == Vacancy(q.posts[i]) = Vacancy(q.posts[k])
        first(i) == {k \in wanted : same(k, i) /\ \A l \in wanted : l < k => ~same(l, i)}
        found(i) == \E n \in DOMAIN answer.jobs :
                        LET j == answer.jobs[n]
                        IN  \/ q.posts[i] = j.post
                            \/ /\ Vacancy(q.posts[i]) = Vacancy(j.post)
                               /\ q.posts[i].source \in {o.source : o \in j.also \cup {j.post}}
        aside(i) == \E k \in first(i) : ~(q.posts[k].dismissed <=> q.view = "dismissed")
    IN  /\ \A i \in wanted : found(i) \/ aside(i)
        /\ \A n, m \in DOMAIN answer.jobs :
              Vacancy(answer.jobs[n].post) = Vacancy(answer.jobs[m].post) => n = m
        /\ answer.hidden =
             Cardinality({Vacancy(q.posts[i]) : i \in {i \in wanted : \E k \in first(i) : q.posts[k].dismissed}})

(* The number beside an option is that of the results when it is the only  *)
(* one chosen of its filter.                                               *)
FilterOf(q) ==
    [modes |-> q.modes, cities |-> q.cities, levels |-> q.levels, unknown |-> q.unknown,
     sources |-> q.sources, named |-> q.named]

FacetsForetell ==
    LET f == FilterOf(search.q)
        all == Range(answer.jobs)
        count(g) == Len(Results(answer.jobs, g))
        told(counts, x) == IF x \in DOMAIN counts THEN counts[x] ELSE 0
    IN  /\ \A s \in {j.post.source : j \in all} :
              told(answer.facets.sources, s) = count([f EXCEPT !.sources = {s}])
        /\ \A s \in UNION {SkillNames(j) : j \in all} :
              told(answer.facets.skills, s) = count([f EXCEPT !.named = {s}])
        /\ \A l \in {"junior", "mid", "senior"} :
              answer.facets.levels[l] = count([f EXCEPT !.levels = {l}, !.unknown = FALSE])
        /\ answer.facets.unknown = count([f EXCEPT !.levels = {"none"}, !.unknown = TRUE])

(* To tick one more place or level, where one is ticked, hides nothing.    *)
WideningKeeps ==
    LET f == FilterOf(search.q)
        within(g, h) == Range(Results(answer.jobs, g)) \subseteq Range(Results(answer.jobs, h))
    IN  /\ f.modes # {} => \A m \in {"remote", "onsite", "abroad"} :
              within(f, [f EXCEPT !.modes = f.modes \cup {m}])
        /\ f.cities # {} => within(f, [f EXCEPT !.cities = f.cities \cup {"other"}])
        /\ f.levels # {} => \A l \in {"junior", "mid", "senior"} :
              within(f, [f EXCEPT !.levels = f.levels \cup {l}])

(* A walk through the pages shows every job that passes, each in one place *)
(* and nothing else.                                                       *)
WalkIsWhole(q) ==
    LET list == ByFit(q)
        room == IF q.size < 1 THEN 1 ELSE q.size
        page(m) == JobsOfPage(list, {}, m * room, q.size)
        spots == {s \in (0..Len(list)) \X (1..room) : s[2] \in DOMAIN page(s[1])}
        job(s) == page(s[1])[s[2]]
    IN  /\ \A j \in Range(list) : \E s \in spots : job(s) = j
        /\ \A s \in spots : job(s) \in Range(list)
        /\ \A s, t \in spots : job(s) = job(t) => s = t

(* And the jobs that are there again when the same page is asked for again *)
(* have the quality that the filter says.                                  *)
FilterIsTrue(q) ==
    LET now == [jobs |-> answer.jobs, skills |-> q.skills, aliases |-> q.aliases,
                minPct |-> q.minPct, byFit |-> q.byFit, quality |-> q.quality]
        again == JobsOfPage(ByFit(now), q.gone, q.cursor, q.size)
        able(j) == j.completed /\ j.stored # "" /\ j.stack # <<>>
    IN  q.quality # "" =>
            \A j \in Range(again) :
                (\E i \in Range(answer.page) : i.id = j.id) /\ able(j) => Fit(j.stack, q).quality = q.quality

PagesAreTrue == WalkIsWhole(search.q) /\ FilterIsTrue(search.q)

(* The aliases know the spellings of the catalogue: an alias does not turn *)
(* a technology into another, leads to a last name, and no side is blank.  *)
Unified(q) ==
    /\ \A a \in DOMAIN q.aliases :
          a # <<>> /\ q.aliases[a] # <<>> /\ Key(q.aliases[a], q.aliases) = q.aliases[a]
    /\ \A t \in DOMAIN Terms : \A v \in {t} \cup Terms[t] : TechFor(Key(v, q.aliases)) = {t}

(* The three lists of keywords have what the job asks for once, each       *)
(* technology under one name; a covered one is never among those that the  *)
(* profile lacks, when its spellings are aliases of each other; and        *)
(* without a resume nothing is said to be in it.                           *)
KeywordsOf(q, lists) ==
    LET flat == lists.inResume \o lists.missing \o lists.notInProfile
        asked == (Range(q.stack) \ {<<>>}) \cup TechsCited(q.text)
        spelled(w) == \A t \in Class(w, q) \cap DOMAIN Terms :
                         \A v \in Terms[t] : Key(v, q.aliases) = Key(t, q.aliases)
    IN  /\ Unified(q) =>
              /\ {Class(w, q) : w \in asked} = {Class(w, q) : w \in Range(flat)}
              /\ \A i, k \in DOMAIN flat : Class(flat[i], q) = Class(flat[k], q) => i = k
              /\ \A w \in asked :
                    spelled(w) /\ Best(Key(w, q.aliases), q) > 0 =>
                        Class(w, q) \notin {Class(x, q) : x \in Range(lists.notInProfile)}
        /\ q.resume = <<>> => lists.inResume = <<>>

KeywordsAreTrue == KeywordsOf(search.q, answer.keywords)

(* The answers about jobs are what their comments promise, over every      *)
(* input of the instance (jobfit/jobfit.go:14-122, handler/discovery.go:   *)
(* 217, 439, discovery/location.go:24, handler/job.go:296, 357,            *)
(* jobfit/keywords.go:24-31): see the six parts above.                     *)
AnswersAreRight ==
    /\ answer.about = "fit"   => LackingNeverHelps
    /\ answer.about = "posts" => NothingIsLost /\ FacetsForetell /\ WideningKeeps
    /\ answer.about = "jobs"  => PagesAreTrue
    /\ answer.about = "job"   => KeywordsAreTrue
=============================================================================
