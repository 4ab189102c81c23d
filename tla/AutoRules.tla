------------------------------ MODULE AutoRules ------------------------------
(***************************************************************************)
(* The decisions of the automatic selection that no model of language      *)
(* takes: which jobs of the catalogue are read (candidates), what is kept  *)
(* of the answer about them (parseAutoVerdicts, autoVerifyMissing,         *)
(* autoApplyRules) and which of them enter the pipeline (autoChoose).      *)
(* Texts are abstracted to what the rules look for in them.  Times are     *)
(* whole units.                                                            *)
(***************************************************************************)
EXTENDS Orderings

CONSTANTS
    Histories, \* sets of experiences
    Replies,   \* what the AI answered about the jobs of a batch, with the settings
    Rankings,  \* ranked lists of jobs, with the settings
    Readings,  \* what was read: candidates with their verdicts, and the settings
    Now        \* the present, in months

ASSUME InputsAssumption ==
    /\ Now \in Int
    /\ \A exps \in Histories :
         IsFiniteSet(exps) /\ \A e \in exps : e.start \in Int /\ e.stop \in Int
    /\ \A r \in Replies : IsList(r.answers) /\ r.career \in Int /\ r.job.stretch \in BOOLEAN
    /\ \A r \in Replies : \A a \in Range(r.answers) :
         a.score \in Int /\ {a.apply, a.blocker} \subseteq BOOLEAN /\ IsList(a.missing)
    /\ \A p \in Rankings : IsList(p.jobs) /\ p.limit \in Nat
    /\ \A c \in Readings : IsList(c.cands) /\ c.n \in Nat /\ c.minScore \in Int
    /\ \A c \in Readings : \A x \in Range(c.cands) : x.coverage \in Int /\ x.verdict.score \in Int

VARIABLES
    question,  \* what is to be decided
    decision   \* what the code decides about it

rulesVars == <<question, decision>>

QualityRank(q) == CASE q = "high" -> 3 [] q = "mid" -> 2 [] q = "low" -> 1 [] OTHER -> 0

(* ------------------------- what the AI answered ------------------------- *)

Clamp(x) == IF x < 0 THEN 0 ELSE IF x > 100 THEN 100 ELSE x

(* rawYears: what is not a number from 0 to 40 counts as "does not say".   *)
RawYears(y) == IF y \in 0..40 THEN y ELSE 0

(* rawMissing: an item without a weight counts as central; empty ones go.  *)
(* An item keeps its place in the answer.                                  *)
RawMissing(items) ==
    [k \in {k \in DOMAIN items : items[k].item # {}} |->
        [item |-> items[k].item, central |-> items[k].weight # "minor"]]

(* One evaluation of the answer; a blocker overrules what the AI advised.  *)
Verdict(a) ==
    [score |-> Clamp(a.score), apply |-> a.apply /\ ~a.blocker, blocker |-> a.blocker,
     years |-> RawYears(a.years), workplace |-> a.workplace, missing |-> RawMissing(a.missing)]

(* The evaluations of a batch of n jobs by number; the last one about a    *)
(* job counts.  Without any the answer is an error (the empty function).   *)
ParseVerdicts(answers, n) ==
    LET about(i) == {k \in DOMAIN answers : answers[k].job = i}
        last(i)  == CHOOSE k \in about(i) : \A l \in about(i) : l <= k
    IN  [i \in {i \in 1..n : about(i) # {}} |-> Verdict(answers[last(i)])]

(* autoProfileHas: one of the alternatives an item names is in the         *)
(* profile, at the middle level or above.                                  *)
ProfileHas(item, skills) ==
    \E s \in skills : s.name \in item /\ s.level \in {"intermediate", "advanced", "expert"}

VerifyMissing(v, skills) ==
    [score |-> v.score, apply |-> v.apply, blocker |-> v.blocker,
     years |-> v.years, workplace |-> v.workplace,
     missing |-> [k \in {k \in DOMAIN v.missing : ~ProfileHas(v.missing[k].item, skills)} |-> v.missing[k]]]

(* ---------------------------- the cut rules ---------------------------- *)

StretchMinScore == 80

Central(v) == Cardinality({k \in DOMAIN v.missing : v.missing[k].central})
Minor(v) == Cardinality({k \in DOMAIN v.missing : ~v.missing[k].central})

TooManyMissing(v) ==
    \/ Central(v) >= 2
    \/ Central(v) = 1 /\ Minor(v) >= 2
    \/ Minor(v) >= 4

AsksTooLong(v, career) == career > 0 /\ 2 * v.years > 3 * career

WrongPlace(v, job, places) ==
    /\ places # {}
    /\ job.workplace = ""
    /\ v.workplace # ""
    /\ v.workplace \notin places

Discount(v) ==
    LET capped == IF Central(v) = 1 /\ v.score > 65 THEN 65 ELSE v.score
    IN  Clamp(capped - 5 * Minor(v))

(* autoApplyRules; career < 0 is a career of unknown length.               *)
Cut(v, job, career, places) ==
    v.blocker \/ AsksTooLong(v, career) \/ WrongPlace(v, job, places) \/ TooManyMissing(v)

Score(v, job, career, places) == IF Cut(v, job, career, places) THEN v.score ELSE Discount(v)

ApplyRules(v, job, career, places) ==
    LET score == Score(v, job, career, places)
        stretched == job.stretch /\ (score < StretchMinScore \/ DOMAIN v.missing # {})
    IN  [score |-> score, apply |-> v.apply /\ ~Cut(v, job, career, places) /\ ~stretched,
         missing |-> v.missing]

(* ------------------------------ the choice ------------------------------ *)

(* A candidate: the verdict about it and how much of its stack is covered. *)
Approved(c, minScore) == c.verdict.answered /\ c.verdict.apply /\ c.verdict.score >= minScore

Ahead(cands, i, j) ==
    LET a == cands[i] b == cands[j]
    IN  \/ a.verdict.score > b.verdict.score
        \/ a.verdict.score = b.verdict.score /\ a.coverage > b.coverage
        \/ a.verdict.score = b.verdict.score /\ a.coverage = b.coverage /\ i < j

(* autoChoose: at most n approved candidates, the highest score first.     *)
Choose(cands, minScore, n) ==
    LET ok == {i \in DOMAIN cands : Approved(cands[i], minScore)}
    IN  Cap(InOrder(ok, {ij \in ok \X ok : Ahead(cands, ij[1], ij[2])}), n)

(* ------------------------- career and its level ------------------------- *)

(* The period of an experience; the current job lasts until now.           *)
Span(e, now) == [from |-> e.start, to |-> IF ~e.current /\ e.ended THEN e.stop ELSE now]

Spans(exps, now) ==
    {s \in {Span(e, now) : e \in {x \in exps : x.dated}} : s.to > s.from}

(* Variant: jobs at the same time add up.                                  *)
ExperienceSummed(exps, now) ==
    IF Spans(exps, now) = {} THEN -1
    ELSE LET s == InOrder(Spans(exps, now), Sooner(Spans(exps, now)))
             till[k \in 0..Cardinality(DOMAIN s)] == IF k = 0 THEN 0 ELSE till[k - 1] + s[k].to - s[k].from
         IN  till[Cardinality(DOMAIN s)]

(* autoExperience: jobs at the same time count once; -1 without any.       *)
Experience(exps, now) == IF Spans(exps, now) = {} THEN -1 ELSE Merged(Spans(exps, now), 0)

LevelFit(years) ==
    CASE years < 1  -> [target |-> {"intern", "junior"}, stretch |-> {"mid"}]
      [] years < 3  -> [target |-> {"junior", "mid"}, stretch |-> {"senior"}]
      [] years < 6  -> [target |-> {"mid"}, stretch |-> {"junior", "senior"}]
      [] years < 10 -> [target |-> {"senior"}, stretch |-> {"mid", "expert"}]
      [] OTHER      -> [target |-> {"senior", "expert"}, stretch |-> {"mid"}]

(* autoLevelRank: 0 at the person's level, 1 next to it, -1 out of reach.  *)
LevelRank(levels, fit) ==
    CASE levels = {} -> 0
      [] "intern" \in levels /\ "intern" \notin fit.target -> -1
      [] levels \cap fit.target # {}  -> 0
      [] levels \cap fit.stretch # {} -> 1
      [] OTHER -> -1

(* ---------------------------- the candidates ---------------------------- *)

(* autoDedup: the same title, and a word of the company in common or no    *)
(* word in either.                                                         *)
SameJob(a, b) ==
    /\ a.title = b.title
    /\ a.company \cap b.company # {} \/ (a.company = {} /\ b.company = {})

(* What the list of jobs already tells: the reasons to leave a job aside.  *)
Eligible(j, p) ==
    /\ j.items
    /\ QualityRank(j.quality) >= QualityRank(p.minQuality)
    /\ ~(p.onlyStrong /\ ~j.strong)
    /\ ~j.old
    /\ ~j.excluded
    /\ ~j.nontech
    /\ ~j.affirmativeTitle

(* fit is <<>> when a level was chosen by hand.                            *)
Level(j, p) == IF p.fit = <<>> THEN 0 ELSE LevelRank(j.levels, p.fit[1])
At(p, level, seen) == {k \in seen : Level(p.jobs[k], p) = level}

(* The walk stops when twice the limit is gathered at the person's level.  *)
Goes(p, seen) == Cardinality(At(p, 0, seen)) < 2 * p.limit
Takes(p, k, seen) ==
    Goes(p, seen) /\ Eligible(p.jobs[k], p) /\ \A l \in seen : ~SameJob(p.jobs[l], p.jobs[k])

(* The jobs of the list that autoDedup saw, the first k - 1 being walked.  *)
Seen(p) ==
    LET before[k \in 1..(Len(p.jobs) + 1)] ==
            IF k = 1 THEN {}
            ELSE IF Takes(p, k - 1, before[k - 1]) THEN before[k - 1] \cup {k - 1} ELSE before[k - 1]
    IN  before[Len(p.jobs) + 1]

(* candidates: jobs at the person's level first, then the ones next to it  *)
(* in the room that is left; then the ones whose description is for some   *)
(* groups only are dropped.                                                *)
Gather(p) ==
    LET here == Picked(p.jobs, At(p, 0, Seen(p)))
        near == Cap(Picked(p.jobs, At(p, 1, Seen(p))), 2 * p.limit - Len(here))
    IN  [i \in DOMAIN here |-> [job |-> here[i], stretch |-> FALSE]]
            \o [i \in DOMAIN near |-> [job |-> near[i], stretch |-> TRUE]]

Candidates(p) ==
    LET all == Gather(p)
    IN  Cap(ThoseWith(all, [i \in DOMAIN all |-> ~all[i].job.affirmativeText]), p.limit)

(* validateAutoSelectSettings.                                             *)
ValidSettings(s) ==
    /\ s.perRun \in 1..20
    /\ s.perDay \in 1..100
    /\ s.perRun <= s.perDay
    /\ s.candidates \in 5..50
    /\ s.candidates >= s.perRun
    /\ s.minScore \in 0..100
    /\ QualityRank(s.minQuality) > 0
    /\ s.mode \in {"full", "resume_only", "cover_only"}

(* ------------------------------ the decisions ------------------------------ *)

Undecided == [about |-> "nothing"]

RulesInit ==
    /\ decision = Undecided
    /\ \/ \E e \in Histories : question = [about |-> "career", exps |-> e]
       \/ \E r \in Replies : question = [about |-> "reply", reply |-> r]
       \/ \E p \in Rankings : question = [about |-> "page", page |-> p]
       \/ \E c \in Readings : question = [about |-> "choice", reading |-> c]

Asks(what) == decision = Undecided /\ question.about = what /\ UNCHANGED question

CountCareer ==
    /\ Asks("career")
    /\ decision' = [about |-> "career", months |-> Experience(question.exps, Now)]

(* The loop of run over a batch: what is kept of the reply, job by job.    *)
Judged(r) ==
    LET read == ParseVerdicts(r.answers, r.n)
    IN  [i \in DOMAIN read |->
            ApplyRules(VerifyMissing(read[i], r.skills), r.job, r.career, r.places)]

JudgeReply ==
    /\ Asks("reply")
    /\ decision' = [about |-> "reply", verdicts |-> Judged(question.reply)]

GatherCandidates ==
    /\ Asks("page")
    /\ decision' = [about |-> "page", jobs |-> Candidates(question.page)]

ChooseBest ==
    /\ Asks("choice")
    /\ LET c == question.reading
       IN  decision' = [about |-> "choice", chosen |-> Choose(c.cands, c.minScore, c.n)]

RulesNext == CountCareer \/ JudgeReply \/ GatherCandidates \/ ChooseBest

RulesSpec == RulesInit /\ [][RulesNext]_rulesVars

(* ------------------------------- properties ------------------------------- *)

(* The career is the number of months in which the person had a job: jobs  *)
(* held at the same time count once, gaps do not count.                    *)
CareerIsWorkedMonths ==
    LET worked == UNION {s.from..(s.to - 1) : s \in Spans(question.exps, Now)}
    IN  decision.months = IF worked = {} THEN -1 ELSE Cardinality(worked)

(* A reply in which the k-th answer names one more requirement.            *)
Lacking(r, k, lack) ==
    LET a == r.answers[k]
        b == [job |-> a.job, score |-> a.score, apply |-> a.apply, blocker |-> a.blocker,
              years |-> a.years, workplace |-> a.workplace, missing |-> Append(a.missing, lack)]
    IN  [answers |-> [j \in DOMAIN r.answers |-> IF j = k THEN b ELSE r.answers[j]], n |-> r.n,
         skills |-> r.skills, job |-> r.job, career |-> r.career, places |-> r.places]

(* A verdict that survives the rules would survive them with less missing: *)
(* to lack one more requirement never gets a job approved nor raises its   *)
(* score, whichever rule cuts in; and a job next to the person's level     *)
(* only gets in with nothing missing.                                      *)
MissingNeverHelps ==
    LET r == question.reply
        worse(v, w) == w.apply => v.apply /\ w.score <= v.score
        lacks == [item: {{"unknown"}}, weight: {"central", "minor"}]
    IN  \A i \in DOMAIN decision.verdicts :
            LET v == decision.verdicts[i]
            IN  /\ v.score \in 0..100
                /\ v.apply /\ r.job.stretch => DOMAIN v.missing = {} /\ v.score >= StretchMinScore
                /\ \A k \in DOMAIN r.answers, lack \in lacks : worse(v, Judged(Lacking(r, k, lack))[i])

(* The AI never reads the same vacancy twice, a job next to the level      *)
(* never before one at it, and a job at the level that could be read is    *)
(* left out only as a copy of an earlier one or for lack of room.          *)
PageIsWellRead ==
    LET p == question.page
        list == decision.jobs
        able(j) == Eligible(j, p) /\ ~j.affirmativeText
        earlier(k) == {l \in 1..(k - 1) : Eligible(p.jobs[l], p)}
    IN  /\ Len(list) <= p.limit
        /\ \A a, b \in DOMAIN list :
              a < b => ~SameJob(list[a].job, list[b].job) /\ (list[a].stretch => list[b].stretch)
        /\ \A a \in DOMAIN list :
              able(list[a].job) /\ Level(list[a].job, p) = IF list[a].stretch THEN 1 ELSE 0
        /\ \A k \in DOMAIN p.jobs :
              able(p.jobs[k]) /\ Level(p.jobs[k], p) = 0 =>
                \/ \E a \in DOMAIN list : SameJob(list[a].job, p.jobs[k])
                \/ \E l \in earlier(k) : SameJob(p.jobs[l], p.jobs[k])
                \/ Cardinality(earlier(k)) >= p.limit

(* At most n jobs are chosen, all approved, each once, and nobody that is  *)
(* approved is left out in favour of one with a lower score.               *)
ChoiceIsFair ==
    LET best == decision.chosen
        all == question.reading.cands
        n == question.reading.n
        ok == {i \in DOMAIN all : Approved(all[i], question.reading.minScore)}
    IN  /\ Range(best) \subseteq ok
        /\ Cardinality(Range(best)) = Len(best)
        /\ Len(best) = IF Cardinality(ok) < n THEN Cardinality(ok) ELSE n
        /\ \A i \in ok \ Range(best), j \in Range(best) : all[i].verdict.score <= all[j].verdict.score

(* Each decision of the automatic selection (handler/auto_select.go:317,   *)
(* auto_select_ai.go:107-743) is the one its comment promises, over every  *)
(* input of the instance: see the four parts above.                        *)
DecisionsAreRight ==
    /\ decision.about = "career" => CareerIsWorkedMonths
    /\ decision.about = "reply"  => MissingNeverHelps
    /\ decision.about = "page"   => PageIsWellRead
    /\ decision.about = "choice" => ChoiceIsFair
=============================================================================
