------------------------------- MODULE MCDesk -------------------------------
(***************************************************************************)
(* Instances for TLC of the parts behind the user's own pages that work    *)
(* apart from each other: the profile and its cache, its rows, the         *)
(* catalogue and the bell, the board of applications, the PDFs, the        *)
(* decisions of the automatic selection, the lists of jobs, and the text   *)
(* of a resume.  A behaviour is about one of them; the others stay as they *)
(* begin.                                                                  *)
(***************************************************************************)
EXTENDS Desk, AutoRules, JobLists, ResumeText, MCTexts, FiniteSetsExt, TLC

TwoTopics == {"skills", "experiences"}
SkillsLast == <<"experiences", "skills">>
\* The worker reads every topic, a page reads one.
WorkerAndPage == {<<"experiences", "skills">>, <<"skills">>}

-----------------------------------------------------------------------------
(* The catalogue: posts without a company, posts of one company, and the   *)
(* latest of these, which does not match.                                  *)

Post(u, c, date, matches) ==
    [url |-> u, title |-> "dev", company |-> c, date |-> date, matches |-> matches]

DeskPosts == {Post("u1", "", 1, TRUE), Post("u2", "", 2, TRUE), Post("u3", "acme", 1, TRUE),
              Post("u4", "acme", 2, TRUE), Post("u5", "acme", 3, FALSE)}

-----------------------------------------------------------------------------
(* What the automatic selection decides about. *)

\* Up to three experiences, with and without gaps and overlaps.
Experiences ==
    {[dated |-> TRUE, start |-> a, ended |-> e, stop |-> b, current |-> FALSE] :
        a \in {0, 1, 3}, b \in {1, 2, 4}, e \in BOOLEAN}
        \cup {[dated |-> d, start |-> 2, ended |-> TRUE, stop |-> 3, current |-> TRUE] : d \in BOOLEAN}
MCHistories == UNION {kSubset(k, Experiences) : k \in 0..3}

\* Up to two central and four minor requirements missing, one perhaps known.
Lacks ==
    {[k \in 1..(c + m) |-> [item   |-> IF k = 1 THEN {"go", "rails"} ELSE {"rails"},
                            weight |-> IF k <= c THEN "central" ELSE "minor"]] :
        c \in 0..2, m \in 0..4}
Answers ==
    [job: {1}, score: {50, 85, 101}, apply: {TRUE}, blocker: BOOLEAN, years: {3, 41},
     workplace: {"", "onsite"}, missing: Lacks]
MCReplies ==
    [answers: {<<a>> : a \in Answers}, n: {2}, skills: {{}, {[name |-> "go", level |-> "expert"]}},
     career: {-1, 1}, places: {{"remote"}}, job: [stretch: BOOLEAN, workplace: {"", "remote"}]]

Plain ==
    [title |-> "dev", company |-> {}, levels |-> {}, items |-> TRUE, quality |-> "high",
     strong |-> TRUE, old |-> FALSE, excluded |-> FALSE, nontech |-> FALSE,
     affirmativeTitle |-> FALSE, affirmativeText |-> FALSE]
Offers ==
    {Plain, [Plain EXCEPT !.quality = "low"],
     [Plain EXCEPT !.title = "dba", !.affirmativeText = TRUE],
     [Plain EXCEPT !.company = {"acme"}],
     [Plain EXCEPT !.company = {"acme", "labs"}, !.levels = {"senior"}],
     [Plain EXCEPT !.title = "qa", !.levels = {"senior", "mid"}],
     [Plain EXCEPT !.title = "ops", !.levels = {"senior"}],
     [Plain EXCEPT !.title = "ops", !.levels = {"intern", "mid"}]}
OffersUpTo(max) == UNION {[1..n -> Offers] : n \in 0..max}
MidLevel == [target |-> {"mid"}, stretch |-> {"junior", "senior"}]
Page(list, limit, fit) ==
    [jobs |-> list, limit |-> limit, fit |-> fit, minQuality |-> "mid", onlyStrong |-> FALSE]
MCRankings ==
    {Page(list, 1, fit) : list \in OffersUpTo(4), fit \in {<<>>, <<MidLevel>>}}
        \cup {Page(list, 2, <<MidLevel>>) : list \in OffersUpTo(3)}

Verdicts ==
    {[answered |-> TRUE, apply |-> TRUE, score |-> s] : s \in {69, 70, 90}}
        \cup {[answered |-> a, apply |-> FALSE, score |-> 90] : a \in BOOLEAN}
Read == UNION {[1..n -> [coverage: {1, 2}, verdict: Verdicts]] : n \in 0..3}
MCReadings == [cands: Read, n: 0..2, minScore: {70}]

-----------------------------------------------------------------------------
TwoLetters == {"Go", "go"}
WithDot == {"Node.js", "node.js"}
TechGroups == {{"Go", "golang"}, {"kubernetes"}}

VARIABLE part

Parts == {"cache", "bell", "rows", "applications", "pdf", "rules", "jobs", "resumes"}

deskVars == <<part, vars, bellVars, rowsVars, boardVars, pdfVars, rulesVars, listsVars, resumeVars>>

DeskInit ==
    /\ part \in Parts
    /\ Init
    /\ Bell!Init
    /\ Rows!Init /\ (part # "rows" => tab = "skills")
    /\ Applications!Init
    /\ Pdf!Init /\ (part # "pdf" => ~began)
    /\ IF part = "rules" THEN RulesInit
       ELSE question = Undecided /\ decision = Undecided
    /\ IF part = "jobs" THEN ListsInit
       ELSE search = [about |-> "nothing"] /\ answer = Unanswered
    /\ IF part = "resumes" THEN ResumeInit
       ELSE task = Nothing /\ step = "asked" /\ text = Nothing /\ resume = Nothing

Only(p) ==
    /\ part = p
    /\ UNCHANGED part
    /\ p # "cache" => UNCHANGED vars
    /\ p # "bell" => UNCHANGED bellVars
    /\ p # "rows" => UNCHANGED rowsVars
    /\ p # "applications" => UNCHANGED boardVars
    /\ p # "pdf" => UNCHANGED pdfVars
    /\ p # "rules" => UNCHANGED rulesVars
    /\ p # "jobs" => UNCHANGED listsVars
    /\ p # "resumes" => UNCHANGED resumeVars

DeskNext ==
    \/ Only("cache") /\ Next
    \/ Only("bell") /\ Bell!Next
    \/ Only("rows") /\ Rows!Next
    \/ Only("applications") /\ Applications!Next
    \/ Only("pdf") /\ Pdf!Next
    \/ Only("rules") /\ RulesNext
    \/ Only("jobs") /\ ListsNext
    \/ Only("resumes") /\ ResumeNext

DeskSpec == DeskInit /\ [][DeskNext]_deskVars /\ Fairness

=============================================================================
