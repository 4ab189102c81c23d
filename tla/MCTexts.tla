------------------------------- MODULE MCTexts -------------------------------
(***************************************************************************)
(* What TLC tries of JobLists and ResumeText: profiles, posts and filters  *)
(* of Descobrir, lists of Vagas, and answers of the AI about a resume.     *)
(***************************************************************************)
EXTENDS Integers, Sequences, FiniteSets, FiniteSetsExt, TLC

Go == <<"go">>
Node == <<"node", "js">>
Sql == <<"sql">>
ListTerms == (Go :> {Go, <<"golang">>}) @@ (Node :> {Node, <<"nodejs">>})
ListSearchable == {<<"golang">>, Sql, <<"rest", "api">>}

Skill(n, t, g, l) == [name |-> n, terms |-> t, tags |-> g, level |-> l]
SkillLevels == {"basic", "intermediate", "expert"}
\* Two skills by their names, one of them with tags too.
People ==
    {{Skill("Go (Golang)", {Go, <<"golang">>}, {Sql}, a), Skill("SQL", {Sql}, {<<"rest">>}, b)} :
        a \in SkillLevels, b \in SkillLevels}
    \cup {{Skill("Node", {<<"node">>}, {Go}, l)} : l \in SkillLevels} \cup {{}}
AliasTables == {<<>>, (<<"golang">> :> Go) @@ (<<"mysql">> :> Sql)}
StackItems == {Go, <<"golang">>, <<"mysql">>, <<"node", "js">>, <<"rest", "api">>, <<>>}
ListStacks ==
    [stack: UNION {[1..n -> StackItems] : n \in 0..3}, skills: People, aliases: AliasTables]

SomePost == [id |-> 0, source |-> "gupy", title |-> "dev", company |-> "acme", techs |-> {Go}, phrases |-> {},
         levels |-> {}, workplace |-> "", cities |-> {}, abroad |-> FALSE, dismissed |-> FALSE]
PostKinds ==
    {SomePost, [SomePost EXCEPT !.source = "himalayas", !.abroad = TRUE, !.levels = {"senior"}],
     [SomePost EXCEPT !.source = "himalayas", !.techs = {Node}, !.levels = {"mid", "senior"}, !.workplace = "remote"],
     [SomePost EXCEPT !.techs = {}, !.phrases = {Sql}, !.workplace = "onsite", !.cities = {"sp"}],
     [SomePost EXCEPT !.company = "", !.source = "github", !.techs = {Go, Node}, !.phrases = {Sql}, !.levels = {"junior"}],
     [SomePost EXCEPT !.title = "dba", !.phrases = {Sql}, !.workplace = "onsite", !.cities = {"rio"}],
     [SomePost EXCEPT !.dismissed = TRUE, !.title = "dev"]}
PostLists == {[i \in DOMAIN l |-> [l[i] EXCEPT !.id = i]] : l \in UNION {[1..n -> PostKinds] : n \in 2..3}}
Person == {Skill("Go (Golang)", {Go, <<"golang">>}, {}, "expert"), Skill("SQL", {Sql}, {}, "advanced"),
           Skill("Node", {Node}, {}, "basic")}
Filters ==
    {[modes |-> m, cities |-> c, levels |-> l, unknown |-> u, sources |-> {}, named |-> {}] :
        m \in {{}, {"remote", "abroad"}}, c \in {{}, {"sp"}}, l \in {{}, {"senior"}}, u \in {TRUE}}
    \cup {[modes |-> {}, cities |-> {}, levels |-> {"mid"}, unknown |-> FALSE, sources |-> s, named |-> k] :
        s \in {{}, {"gupy"}}, k \in {{}, {"SQL"}, {"Go (Golang)", "SQL"}}}
With(p, i, v, f) ==
    [posts |-> p, interest |-> i, view |-> v, skills |-> Person, aliases |-> <<>>, pipeline |-> (1 :> <<Go, Sql>>),
     gone |-> {1}, cursor |-> 0, size |-> 2] @@ f
ListSearches == {With(p, i, v, f) : p \in PostLists, i \in {{}, {Node}}, v \in {"listed", "dismissed"}, f \in Filters}

JobKinds ==
    {[id |-> 0, stack |-> s, completed |-> TRUE, stored |-> t] :
        s \in {<<>>, <<Go>>, <<Go, Sql, Node>>}, t \in {"high"}} \cup {[id |-> 0, stack |-> <<Go>>, completed |-> TRUE, stored |-> "low"]}
JobsListed == {[i \in DOMAIN l |-> [l[i] EXCEPT !.id = i]] : l \in UNION {[1..n -> JobKinds] : n \in 1..3}}
ListJobPages ==
    [jobs: JobsListed, skills: {Person}, aliases: {<<>>}, minPct: {-1, 0, 60, 101}, byFit: BOOLEAN, quality: {"", "high"},
     cursor: {0, 1}, size: {1, 2}, gone: {{}, {2}}]

ListPostings ==
    [stack: UNION {[1..n -> StackItems] : n \in 0..2}, text: {{}, {<<"golang">>}, {<<"nodejs">>, Sql}},
     resume: {<<>>, <<{}>>, <<{Go}>>, <<{<<"mysql">>, <<"nodejs">>}>>}, skills: People \cup {{Skill("Golang", {<<"golang">>}, {}, "basic")}},
     aliases: AliasTables \cup {(<<"golang">> :> Go) @@ (<<"nodejs">> :> Node)}]

-----------------------------------------------------------------------------
(* Resumes. *)

Spellings == {<<"Go", "go">>, <<"Golang", "golang">>, <<"K8s", "k8s">>, <<"Kubernetes", "kubernetes">>,
          <<"Node.js", "node.js">>, <<"Mensageria", "mensageria">>, <<"Filas", "filas">>, <<"Messaging", "messaging">>}
TextLower == [w \in {p[1] : p \in Spellings} \cup {p[2] : p \in Spellings} |-> IF \E p \in Spellings : p[1] = w THEN (CHOOSE p \in Spellings : p[1] = w)[2] ELSE w]
TextAliases == ("golang" :> "go") @@ ("k8s" :> "kubernetes")

Held(stack, text, numbers, from, to) ==
    [stack |-> stack, text |-> text, numbers |-> numbers, role |-> {"junior"}, achievements |-> <<[words |-> {}, numbers |-> {"7"}]>>,
     from |-> from, to |-> to, current |-> FALSE]
Applicant(exps, skills) ==
    [lang |-> "en", exps |-> exps, skills |-> skills, projects |-> <<{}, {"Node.js"}>>, educated |-> FALSE,
     jobStack |-> {"kubernetes", "node.js"}, aliases |-> TextAliases]
TextAnswer ==
    [summary |-> <<>>, exps |-> <<>>, skills |-> <<>>, translations |-> {}, projects |-> <<1, 2, 1, 5>>, strengths |-> <<{"Kubernetes"}, {"Go"}>>]
OneJob == Held(<<>>, {}, {}, 1, 14)

\* Whose technology a bullet is about.
StacksHeld == {<<>>, <<"Go">>, <<"Golang">>, <<"Golang", "Go">>, <<"K8s">>}
Bulleted ==
    {[src |-> Applicant(<<Held(s, t, n, 1, 6), Held(o, {}, {}, 5, 12), Held(q, {}, {}, 12, 13)>>, {}), second |-> <<>>,
      first |-> [TextAnswer EXCEPT !.exps = <<[id |-> 1, role |-> r, bullets |-> <<[words |-> {w}, numbers |-> {"40"}], [words |-> {w}, numbers |-> {"50"}]>>]>>]] :
        s \in StacksHeld, o \in StacksHeld, q \in StacksHeld, t \in {{}, {"Kubernetes"}, {"Go"}}, n \in {{"40"}}, w \in {"Go", "golang", "Kubernetes"},
        r \in {{}, {"junior", "lead"}}}

\* Skills under their names and under the translations the AI gave.
TranslationsGiven ==
    {[from |-> f, to |-> "Messaging", adds |-> FALSE] : f \in {"Mensageria", "Filas", "K8s"}}
        \cup {[from |-> "Mensageria", to |-> "Messaging", adds |-> TRUE], [from |-> "Go", to |-> "Golang", adds |-> FALSE]}
Listed == {"Go", "golang", "Mensageria", "messaging", "K8s", "Kubernetes"}
Skilled ==
    {[src |-> Applicant(<<OneJob>>, k), second |-> <<>>,
      first |-> [TextAnswer EXCEPT !.skills = g, !.translations = t]] :
        k \in {{"Mensageria", "Filas"}, {"Go", "Mensageria", "K8s"}, {"Golang", "Messaging"}}, t \in UNION {kSubset(n, TranslationsGiven) : n \in 0..2},
        g \in {<<<<x, y>>, <<z>>>> : x \in Listed, y \in Listed, z \in Listed}}

\* Summaries that break a rule, once or again.
Sentences == {[claims |-> c, words |-> w] : c \in {{}, {"inflated"}, {"degree"}}, w \in {{}, {"Kubernetes"}, {"Node.js"}}}
Summaries == {<<>>} \cup [1..2 -> Sentences]
Summarised ==
    {[src |-> [Applicant(<<Held(<<s>>, {}, {}, f, 12), [OneJob EXCEPT !.from = f + 3, !.to = t]>>, {}) EXCEPT !.projects = <<>>],
      first |-> [TextAnswer EXCEPT !.summary = a],
      second |-> b] :
        s \in {"Go", "K8s"}, f \in {0, 1, 3}, t \in {6, 14}, a \in Summaries,
        b \in {<<>>} \cup {<<[TextAnswer EXCEPT !.summary = <<x>>]>> : x \in Sentences}}
TextTasks == {Bulleted, Skilled, Summarised}
=============================================================================
