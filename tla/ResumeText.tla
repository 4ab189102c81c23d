----------------------------- MODULE ResumeText -----------------------------
(***************************************************************************)
(* What becomes of the text the AI wrote for a resume: a summary that      *)
(* breaks a rule is sent back once and then cut (generateWithCorrection),  *)
(* and what the profile does not support is left out (resume.Assemble,     *)
(* VerifyStrengths).  A text is the set of the names and of the numbers it *)
(* mentions; a name may be written in more than one way.  Times are        *)
(* months.                                                                 *)
(***************************************************************************)
EXTENDS Orderings

CONSTANTS
    Tasks,   \* sets of tasks: a profile (src), the AI's answer, its correction, if that call ends well
    Lower,   \* Lower[w]: the name w in lower case
    Short,   \* names of one or two letters
    Dotted,  \* names with a dot in them
    Kinds,   \* technologies of the catalogue: sets of names of one technology
    Today

\* A lower case stays one, and a name keeps its length and its dots in it.
ASSUME SpellingAssumption ==
    /\ \A w \in DOMAIN Lower : Lower[w] \in DOMAIN Lower /\ Lower[Lower[w]] = Lower[w]
    /\ \A names \in {Short, Dotted} : \A x \in names, w \in DOMAIN Lower :
          x \in DOMAIN Lower /\ Lower[w] = Lower[x] => w \in names

IsProfile(src) ==
    /\ IsList(src.exps) /\ src.jobStack \subseteq DOMAIN Lower
    /\ \A e \in Range(src.exps) :
          /\ e.from \in Int /\ e.to \in Int
          /\ IsList(e.stack) /\ Range(e.stack) \cup e.text \subseteq DOMAIN Lower
IsAnswer(a) ==
    /\ {"summary", "exps", "skills", "translations", "projects", "strengths"} \subseteq DOMAIN a
    /\ IsList(a.summary) /\ IsList(a.exps) /\ IsList(a.skills) /\ IsList(a.projects) /\ IsList(a.strengths)
    /\ \A s \in Range(a.summary) : s.words \subseteq DOMAIN Lower
    /\ \A x \in Range(a.exps) : IsList(x.bullets) /\ \A b \in Range(x.bullets) : b.words \subseteq DOMAIN Lower
    /\ \A g \in Range(a.skills) : IsList(g)
    /\ IsFiniteSet(a.translations)

ASSUME TasksAssumption ==
    /\ Today \in Int
    /\ \A some \in Tasks : \A t \in some :
          /\ IsProfile(t.src) /\ IsAnswer(t.first)
          /\ t.second = <<>> \/ (t.second = <<t.second[1]>> /\ IsAnswer(t.second[1]))

VARIABLES
    task,  \* what is written about
    step,  \* "asked", "correcting", "written", "done"
    text,  \* the answer in hand
    resume \* the resume and the analysis that are stored

resumeVars == <<task, step, text, resume>>

(* ------------------------- what the profile says ------------------------- *)

Canonical(src, w) == IF Lower[w] \in DOMAIN src.aliases THEN src.aliases[Lower[w]] ELSE Lower[w]

(* wordRegexp: in either case.                                             *)
Cites(words, w) == \E x \in words : Lower[x] = Lower[w]

(* mentions: short names only as they are written.                         *)
Mentions(words, w) == IF w \in Short THEN w \in words ELSE Cites(words, w)

TextOf(e) == e.text \cup Range(e.stack)

(* profileIndex.has *)
Has(src, w) ==
    LET known == src.skills \cup UNION {Range(src.exps[i].stack) : i \in DOMAIN src.exps}
        written == UNION {TextOf(src.exps[i]) : i \in DOMAIN src.exps} \cup UNION Range(src.projects)
    IN  Canonical(src, w) \in {Canonical(src, k) : k \in known} \/ Cites(written, w)

(* The periods that count; without an end, or in a current job, until      *)
(* today.                                                                  *)
Periods(src) ==
    LET of(e) == [from |-> e.from, to |-> IF e.current \/ e.to = 0 THEN Today ELSE e.to]
    IN  {p \in {of(e) : e \in {x \in Range(src.exps) : x.from # 0}} : p.to > p.from}

(* YearsOfExperience: whole years of the periods, merged when they meet.   *)
YearsOfExperience(src) == Merged(Periods(src), 0) \div 12

(* ------------------------------- the summary ------------------------------- *)

(* A summary is a sequence of sentences: what they claim and name.         *)
Forbidden(src) ==
    (IF YearsOfExperience(src) = 0 THEN {"zero years", "inflated"} ELSE {})
        \cup (IF src.educated THEN {} ELSE {"degree"})
Unknown(src) == {w \in src.jobStack : ~Has(src, w)}

Breaks(src, claims, words) ==
    claims \cap Forbidden(src) # {} \/ \E w \in Unknown(src) : Cites(words, w)

SummaryViolated(src, summary) ==
    \E k \in DOMAIN summary : Breaks(src, summary[k].claims, summary[k].words)

(* StripViolatingSentences: a sentence ends at every dot, the one within a *)
(* name too, so that no piece has such a name.                             *)
Strip(src, summary) ==
    ThoseWith(summary, [k \in DOMAIN summary |->
        ~Breaks(src, summary[k].claims, summary[k].words \ Dotted)])

(* -------------------------------- the bullets -------------------------------- *)

EvidencedIn(src, w, i) ==
    \/ Canonical(src, w) \in {Canonical(src, t) : t \in Range(src.exps[i].stack)}
    \/ Mentions(TextOf(src.exps[i]), w)

(* The places in the stacks of the other experiences, and their order.     *)
OtherTechs(src, i) ==
    UNION {{j} \X DOMAIN src.exps[j].stack : j \in DOMAIN src.exps \ {i}}
Tech(src, p) == src.exps[p[1]].stack[p[2]]
Above(p, q) == p[1] < q[1] \/ (p[1] = q[1] /\ p[2] < q[2])

(* A technology and its variations.                                        *)
Names(src, w) ==
    {w, Canonical(src, w)} \cup {v \in DOMAIN src.aliases : src.aliases[v] = Canonical(src, w)}

(* Variant: the names as they are written, without their variations.       *)
ForeignAsWritten(src, i) ==
    {w \in {Tech(src, p) : p \in OtherTechs(src, i)} : ~EvidencedIn(src, w, i)}

(* foreignTechs: the first name of each technology of the others that this *)
(* experience does not show, with its variations.                          *)
New(src, i, p) ==
    /\ ~EvidencedIn(src, Tech(src, p), i)
    /\ \A q \in OtherTechs(src, i) :
          Above(q, p) /\ Canonical(src, Tech(src, q)) = Canonical(src, Tech(src, p))
              => EvidencedIn(src, Tech(src, q), i)
Foreign(src, i) ==
    UNION {Names(src, Tech(src, p)) : p \in {q \in OtherTechs(src, i) : New(src, i, q)}}

(* verifiedBullets: the numbers are of this experience, and no name is of  *)
(* another.                                                                *)
Verified(src, i, bullets) ==
    ThoseWith(bullets, [k \in DOMAIN bullets |->
        /\ bullets[k].numbers \subseteq src.exps[i].numbers
        /\ \A w \in Foreign(src, i) : ~Mentions(bullets[k].words, w)])

(* The last of the answers about an experience, if there is one.           *)
About(answers, i) == {k \in DOMAIN answers : answers[k].id = i}
LastAbout(answers, i) ==
    answers[CHOOSE k \in About(answers, i) : \A l \in About(answers, i) : l <= k]

(* What was achieved, when nothing is left of what the AI wrote.           *)
Bullets(src, i, answers) ==
    LET kept == Verified(src, i, IF About(answers, i) = {} THEN <<>> ELSE LastAbout(answers, i).bullets)
    IN  IF kept = <<>> THEN src.exps[i].achievements ELSE kept

(* translatedRole, roleTranslationOK: the levels and offices a role names. *)
Role(src, i, answers) ==
    LET own  == src.exps[i].role
        said == IF About(answers, i) = {} THEN own ELSE LastAbout(answers, i).role
        ok   == said \subseteq own /\ own \cap {"intern", "junior"} \subseteq said
    IN  IF src.lang = "en" /\ ok THEN said ELSE own

(* -------------------------------- the skills -------------------------------- *)

(* newSkillTranslations: [from, to, adds], adds when the translation says  *)
(* more than the name does.                                                *)
Accepted(src, a) ==
    IF src.lang # "en" THEN {}
    ELSE {t \in a.translations : ~t.adds /\ Lower[t.from] # Lower[t.to]}

(* The orders in which a map is read: of two translations that give one    *)
(* name, or are of one, the one that is read last stays.                   *)
Orders(accepted) ==
    {o \in [accepted -> 1..Cardinality(accepted)] : \A t, u \in accepted : o[t] = o[u] => t = u}
Latest(order, some) == CHOOSE t \in some : \A u \in some : order[u] <= order[t]

Original(order, w) ==
    LET giving == {t \in DOMAIN order : Lower[t.to] = Lower[w]}
    IN  IF giving = {} THEN w ELSE Latest(order, giving).from
Display(order, w) ==
    LET of == {t \in DOMAIN order : Lower[t.from] = Lower[w]}
    IN  IF of = {} THEN w ELSE Latest(order, of).to

(* The skills of a list: as the profile calls them and as they are shown.  *)
Item(order, listed) ==
    [of |-> Original(order, listed), name |-> Display(order, Original(order, listed))]

(* The first of a technology in its group, of those the profile has ...    *)
Fresh(src, rows, g, k) ==
    /\ Has(src, rows[g][k].of)
    /\ \A l \in 1..(k - 1) :
          Has(src, rows[g][l].of) => Canonical(src, rows[g][l].of) # Canonical(src, rows[g][k].of)

(* ... is shown, unless its name is in the resume already.                 *)
Shows(src, rows, g, k) ==
    /\ Fresh(src, rows, g, k)
    /\ \A h \in 1..g : \A l \in DOMAIN rows[h] :
          Above(<<h, l>>, <<g, k>>) /\ Fresh(src, rows, h, l)
              => Lower[rows[h][l].name] # Lower[rows[g][k].name]

(* The groups, without those of which nothing is left.                     *)
SkillGroups(src, order, groups) ==
    LET rows == [g \in DOMAIN groups |-> [k \in DOMAIN groups[g] |-> Item(order, groups[g][k])]]
        left == [g \in DOMAIN rows |->
                    ThoseWith(rows[g], [k \in DOMAIN rows[g] |-> Shows(src, rows, g, k)])]
    IN  ThoseWith(left, [g \in DOMAIN left |-> left[g] # <<>>])

MaxProjects == 3

(* Projects of the profile, each once, the first three.                    *)
Projects(src, ids) ==
    LET known == ThoseWith(ids, [k \in DOMAIN ids |-> ids[k] \in DOMAIN src.projects])
    IN  Cap(FirstOfEach(known, known), MaxProjects)

(* VerifyStrengths: what names a technology of the catalogue, or of the    *)
(* job, under no name that the profile has is left out.                    *)
Strengths(src, points) ==
    ThoseWith(points, [k \in DOMAIN points |-> \A g \in Kinds \cup {{w} : w \in src.jobStack} :
        (\E w \in g : Cites(points[k], w)) => \E w \in g : Has(src, w)])

MaxAnalysisItems == 4

Assembled(src, a, order) ==
    [summary   |-> a.summary,
     bullets   |-> [i \in DOMAIN src.exps |-> Bullets(src, i, a.exps)],
     roles     |-> [i \in DOMAIN src.exps |-> Role(src, i, a.exps)],
     skills    |-> SkillGroups(src, order, a.skills),
     read      |-> order,
     projects  |-> Projects(src, a.projects),
     strengths |-> Strengths(src, Cap(a.strengths, MaxAnalysisItems))]

(* -------------------------------- the steps -------------------------------- *)

Nothing == [is |-> "nothing"]

ResumeInit ==
    /\ \E some \in Tasks : task \in some
    /\ step = "asked"
    /\ text = Nothing
    /\ resume = Nothing

Generate ==
    /\ step = "asked"
    /\ text' = task.first
    /\ step' = IF SummaryViolated(task.src, task.first.summary) THEN "correcting" ELSE "written"
    /\ UNCHANGED <<task, resume>>

(* One correction is asked for; the first answer stays when it fails.      *)
Correct ==
    /\ step = "correcting"
    /\ LET now == IF task.second = <<>> THEN text ELSE task.second[1]
       IN  text' = IF SummaryViolated(task.src, now.summary)
                  THEN [now EXCEPT !.summary = Strip(task.src, @)] ELSE now
    /\ step' = "written"
    /\ UNCHANGED <<task, resume>>

Assemble ==
    /\ step = "written"
    /\ \E order \in Orders(Accepted(task.src, text)) :
          resume' = Assembled(task.src, text, order)
    /\ step' = "done"
    /\ UNCHANGED <<task, text>>

ResumeNext == Generate \/ Correct \/ Assemble

ResumeSpec == ResumeInit /\ [][ResumeNext]_resumeVars

(* ------------------------------- properties ------------------------------- *)

Src == task.src
Classes(words) == {Canonical(Src, w) : w \in words}

(* The summary names no technology of the job that the profile does not    *)
(* have, unless the name has a dot in it, no experience to who has worked  *)
(* less than a year, and no degree to who has none.                        *)
SummaryIsTrue ==
    LET worked == UNION {p.from..(p.to - 1) : p \in Periods(Src)}
        said(f) == UNION {resume.summary[k][f] : k \in DOMAIN resume.summary}
    IN  /\ Cardinality(worked) < 12 => said("claims") \cap {"zero years", "inflated"} = {}
        /\ "degree" \in said("claims") => Src.educated
        /\ \A w \in Src.jobStack \ Dotted : Cites(said("words"), w) => Has(Src, w)

(* A bullet does not tell of a number that its experience does not have,   *)
(* nor of a technology that only another one shows; a short name is only   *)
(* recognised when the other one writes it so.                             *)
BulletsAreOwn ==
    \A i \in DOMAIN Src.exps : \A b \in Range(resume.bullets[i]) \ Range(Src.exps[i].achievements) :
        LET own == Classes(TextOf(Src.exps[i]))
            others(w) == {t \in {Tech(Src, p) : p \in OtherTechs(Src, i)} : Canonical(Src, t) = Canonical(Src, w)}
        IN  /\ b.numbers \subseteq Src.exps[i].numbers
            /\ \A w \in b.words :
                  others(w) # {} /\ Canonical(Src, w) \notin own => w \in Short /\ others(w) # {w}

(* Each skill is shown once, is the profile's or a translation of one that *)
(* is and says no more, and none that the AI listed and the profile has is *)
(* lost: its technology has a name that is shown.                          *)
SkillsAreKnown ==
    LET shown == resume.skills
        called(w) == Original(resume.read, w)
        isShown(name) == \E g \in DOMAIN shown : \E k \in DOMAIN shown[g] : Lower[shown[g][k].name] = Lower[name]
    IN  /\ \A g, h \in DOMAIN shown : \A k \in DOMAIN shown[g], l \in DOMAIN shown[h] :
              Lower[shown[g][k].name] = Lower[shown[h][l].name] => g = h /\ k = l
        /\ \A g \in DOMAIN shown : \A x \in Range(shown[g]) :
              /\ Has(Src, x.of)
              /\ \/ x.name = x.of
                 \/ \E t \in text.translations : ~t.adds /\ Lower[t.from] = Lower[x.of] /\ t.to = x.name
        /\ \A g \in Range(text.skills) : \A w \in Range(g) : Has(Src, called(w)) =>
              \E v \in Range(g) : /\ Canonical(Src, called(v)) = Canonical(Src, called(w))
                                 /\ isShown(Display(resume.read, called(v)))

(* No strength rests on a technology of the job that the profile lacks.    *)
StrengthsAreKnown ==
    \A words \in Range(resume.strengths), w \in Src.jobStack : Cites(words, w) => Has(Src, w)

(* The resume says nothing that the profile does not support               *)
(* (resume/assemble.go:61, summary.go:97, analysis.go:74): see the four   *)
(* parts above.                                                            *)
ResumeIsSupported ==
    step = "done" =>
        SummaryIsTrue /\ BulletsAreOwn /\ SkillsAreKnown /\ StrengthsAreKnown
=============================================================================
