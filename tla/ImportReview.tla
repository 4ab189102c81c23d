----------------------------- MODULE ImportReview -----------------------------
(***************************************************************************)
(* What becomes of a resume that was read (profileimport/draft.go,         *)
(* apply.go): the draft, with levels suggested from the months of use and  *)
(* marks on what the profile has; its review by the user; and the          *)
(* transaction that saves it, while other pages change the same profile.   *)
(* A name of a skill is how it is written and the words it may be known    *)
(* by; a month is a number, 0 when there is none.                          *)
(***************************************************************************)
EXTENDS Orderings

CONSTANTS
    Documents, \* what the AI understood of each resume
    Aliases,   \* stack_aliases and builtinAliases: the word a word stands for
    Tongues,   \* knownLanguages and languageAliases: the code of a word
    Typed,     \* names of skills that the user types
    Tabs,      \* pages with a review
    Now,       \* the month it is
    MaxEdits   \* bound on changes by hand and on drafts

\* What the JSON of the AI is unmarshalled into; only experiences are in the first list.
ASSUME DocumentsAreLists ==
    /\ Now \in Nat
    /\ \A d \in Documents :
         /\ IsList(d.experiences) /\ IsList(d.others) /\ IsList(d.skills) /\ IsList(d.langs) /\ IsList(d.found)
         /\ \A e \in Range(d.experiences) : e.section = "experience" /\ IsList(e.stack)
         /\ \A x \in Range(d.others) : x.section # "experience"

None == 0
Levels == {"basic", "intermediate", "advanced", "expert"}
TongueLevels == {"basic", "intermediate", "advanced", "fluent", "native"}
Fields == {"full_name", "about"}

VARIABLES
    saved,  \* rows of user_experiences and of the sections like it
    skills, \* user_skills by name: [level, gone, by]; a name is taken for good
    langs,  \* user_languages: code and level of each row
    fields, \* user_profiles
    draft,  \* draft[p]: what page p has to review, <<>> without any
    tx,     \* tx[p]: the request being saved and what was read for it, or <<>>
    edits,
    \* history
    wanted,  \* fields as whoever wrote them last wanted them
    undone,  \* fields edited while a request that had read them was being saved
    refused  \* why saving was refused: names taken, and whether the reading was old

reviewVars == <<saved, skills, langs, fields, draft, tx, edits, wanted, undone, refused>>

ReviewInit ==
    /\ saved = <<>> /\ skills = <<>> /\ langs = <<>>
    /\ fields = [f \in Fields |-> ""] /\ wanted = fields
    /\ draft = [p \in Tabs |-> <<>>] /\ tx = [p \in Tabs |-> <<>>]
    /\ edits = 0 /\ undone = {} /\ refused = <<>>

-----------------------------------------------------------------------------
(* Names, months and lists *)

\* "Go (Golang)" may be known as a whole, by the word outside or by the one inside.
CanonKey(name) ==
    LET known == {i \in DOMAIN name.words : name.words[i] \in DOMAIN Aliases}
    IN  IF known # {} THEN Aliases[name.words[CHOOSE i \in known : \A j \in known : i <= j]]
        ELSE name.words[IF 2 \in DOMAIN name.words THEN 2 ELSE 1]

CanonKeys(names) == [i \in DOMAIN names |-> CanonKey(names[i])]
SkillKeys(skillList) == [i \in DOMAIN skillList |-> CanonKey(skillList[i].name)]
Codes(ls) == [i \in DOMAIN ls |-> ls[i].code]

IsKnownLanguage(name) == name.words[1] \in DOMAIN Tongues
LanguageCode(word) == IF word \in DOMAIN Tongues THEN Tongues[word] ELSE word

NormMonth(m) == IF m \in 1..(Now + 12) THEN m ELSE None

-----------------------------------------------------------------------------
(* Draft.Normalize *)

(* usage: periods that overlap or touch count once; one without an end     *)
(* lasts until now.                                                        *)
Uses(e, name) ==
    \/ \E t \in Range(e.stack) : CanonKey(t) = CanonKey(name)
    \/ name.form \in e.mentions

Periods(exps, name) ==
    {p \in {[from |-> e.start, to |-> IF e.end # None THEN e.end ELSE Now] :
               e \in {x \in exps : Uses(x, name) /\ x.start # None}} : p.to >= p.from}

Usage(exps, name) == Merged(Periods(exps, name), 1)

LevelFromMonths(m) == IF m >= 36 THEN "advanced" ELSE IF m >= 12 THEN "intermediate" ELSE "basic"

\* The skills of the list are mentioned first, then each experience's stack.
Spots(listed, exps) ==
    ({0} \X DOMAIN listed) \cup UNION {{i} \X DOMAIN exps[i].stack : i \in DOMAIN exps}
Mention(listed, exps, p) ==
    IF p[1] = 0 THEN listed[p[2]]
    ELSE [name |-> exps[p[1]].stack[p[2]], level |-> "", explicit |-> FALSE]
Earlier(p, q) == p[1] < q[1] \/ (p[1] = q[1] /\ p[2] < q[2])

Stated(s) == s.explicit /\ s.level \in Levels

\* The first mention of a skill stays, with the first level that any of them states.
AddSkill(said, p) ==
    LET same   == {q \in DOMAIN said : CanonKey(said[q].name) = CanonKey(said[p].name)}
        stated == {q \in same : Stated(said[q])}
    IN  [name |-> said[p].name, explicit |-> stated # {},
         level |-> IF stated = {} THEN ""
                   ELSE said[CHOOSE q \in stated : \A x \in stated : x = q \/ Earlier(q, x)].level]

IsSkill(name) == CanonKey(name) # "" /\ ~IsKnownLanguage(name)

\* Most used first; the sort is stable.
NormalizeSkills(listed, exps) ==
    LET said   == [p \in {q \in Spots(listed, exps) : IsSkill(Mention(listed, exps, q).name)} |->
                      Mention(listed, exps, p)]
        firsts == {p \in DOMAIN said :
                      \A q \in DOMAIN said : Earlier(q, p) => CanonKey(said[q].name) # CanonKey(said[p].name)}
        months == [p \in firsts |-> Usage(Range(exps), said[p].name)]
        order  == InOrder(firsts, {pq \in firsts \X firsts :
                      \/ months[pq[1]] > months[pq[2]]
                      \/ months[pq[1]] = months[pq[2]] /\ Earlier(pq[1], pq[2])})
        rated(p) == LET s == AddSkill(said, p)
                    IN  [name |-> s.name, explicit |-> s.explicit, months |-> months[p],
                         level |-> IF s.explicit THEN s.level ELSE LevelFromMonths(months[p])]
    IN  Cap([k \in DOMAIN order |-> rated(order[k])], 80)

Keyed(items) == ThoseWith(items, [i \in DOMAIN items |-> "" \notin Range(items[i].key)])

NormalizeExperiences(exps) ==
    LET named == Keyed(exps)
        clean(e) ==
            LET stack == Cap(e.stack, 30)
            IN  [section |-> e.section, key |-> e.key, mentions |-> e.mentions,
                 start |-> NormMonth(e.start), end |-> NormMonth(e.end),
                 current |-> e.current /\ NormMonth(e.end) = None,
                 stack |-> FirstOfEach(stack, CanonKeys(stack))]
    IN  Cap([i \in DOMAIN named |-> clean(named[i])], 40)

\* Education, projects and certificates.
NormalizeItems(items) ==
    LET named == Keyed(items)
    IN  Cap([i \in DOMAIN named |->
                [section |-> named[i].section, key |-> named[i].key,
                 start |-> NormMonth(named[i].start), end |-> NormMonth(named[i].end)]], 40)

NormalizeLanguages(ls) ==
    LET named == ThoseWith(ls, [i \in DOMAIN ls |-> ls[i].word # ""])
        coded == [i \in DOMAIN named |->
                     [code |-> LanguageCode(named[i].word),
                      level |-> IF named[i].level \in TongueLevels THEN named[i].level ELSE "intermediate"]]
    IN  Cap(FirstOfEach(coded, Codes(coded)), 15)

\* What the text says of languages that the AI did not mention.
MergeLanguages(ls, found) ==
    LET all == ls \o NormalizeLanguages(found) IN Cap(FirstOfEach(all, Codes(all)), 15)

Normalize(d) ==
    LET exps == NormalizeExperiences(d.experiences)
    IN  [fields |-> d.fields,
         items  |-> exps \o NormalizeItems(d.others),
         skills |-> NormalizeSkills(d.skills, exps),
         langs  |-> MergeLanguages(NormalizeLanguages(d.langs), d.found)]

-----------------------------------------------------------------------------
(* Draft.MarkExisting *)

Alive == {n \in DOMAIN skills : ~skills[n].gone}

\* An experience is known by its month too.
ItemKey(x) == <<x.section, x.key, IF x.section = "experience" THEN x.start ELSE None>>

ItemExists(x) == \E k \in DOMAIN saved : ItemKey(saved[k]) = ItemKey(x)

\* Variant: the rows are found by the name as it is written.
SkillRowByName(rows, n) == {m \in DOMAIN rows : ~rows[m].gone /\ m = n}

\* Rows of one skill or language: the last of the list counts, whichever it is.
SkillRow(rows, n) == {m \in DOMAIN rows : ~rows[m].gone /\ CanonKey(m) = CanonKey(n)}
LanguageRow(rows, code) == {k \in DOMAIN rows : rows[k].code = code}
TheRow(set) == CHOOSE x \in set : TRUE

LevelOf(rows, set) == IF set = {} THEN "" ELSE rows[TheRow(set)].level

MarkExisting(d) ==
    [fields |-> d.fields,
     items  |-> [i \in DOMAIN d.items |-> [item |-> d.items[i], exists |-> ItemExists(d.items[i])]],
     skills |-> [i \in DOMAIN d.skills |->
                    [skill |-> d.skills[i], was |-> LevelOf(skills, SkillRow(skills, d.skills[i].name))]],
     langs  |-> [i \in DOMAIN d.langs |->
                    [lang |-> d.langs[i], was |-> LevelOf(langs, LanguageRow(langs, d.langs[i].code))]],
     basis  |-> saved]

\* Service.read: the draft that the page shows.
Read(p, d) ==
    /\ draft[p] = <<>> /\ edits < MaxEdits
    /\ edits' = edits + 1
    /\ draft' = [draft EXCEPT ![p] = MarkExisting(Normalize(d))]
    /\ UNCHANGED <<saved, skills, langs, fields, tx, wanted, undone, refused>>

-----------------------------------------------------------------------------
(* The review: import.js *)

\* Months that are asked for are filled in.
Complete(x) ==
    IF x.section \in {"experience", "project"} /\ x.start = None THEN [x EXCEPT !.start = Now] ELSE x

\* The user may type in one more skill.
Additions == {<<>>} \cup {<<[name |-> n, level |-> "intermediate"]>> : n \in Typed}

\* What the page proposes, or everything, with fields and skills of the user's choice.
Request(d, all, ticked, typed) ==
    LET items  == ThoseWith(d.items, [i \in DOMAIN d.items |-> all \/ ~d.items[i].exists])
        chosen == ThoseWith(d.skills, [i \in DOMAIN d.skills |-> all \/ d.skills[i].was = ""])
        spoken == ThoseWith(d.langs, [i \in DOMAIN d.langs |-> all \/ d.langs[i].was # d.langs[i].lang.level])
        level(s) == IF s.was # "" /\ ~s.skill.explicit THEN s.was ELSE s.skill.level
    IN  [fields |-> [f \in ticked |-> d.fields[f]],
         items  |-> [i \in DOMAIN items |-> Complete(items[i].item)],
         asked  |-> [i \in DOMAIN items |-> ~items[i].exists /\ Complete(items[i].item) = items[i].item],
         skills |-> [i \in DOMAIN chosen |-> [name |-> chosen[i].skill.name, level |-> level(chosen[i])]] \o typed,
         langs  |-> [i \in DOMAIN spoken |-> spoken[i].lang]]

-----------------------------------------------------------------------------
(* Apply, in the transaction of its handler *)

\* ApplyRequest.Validate, and the name that the profile must have.
Validate(r) ==
    /\ \A x \in Range(r.items) :
          /\ x.section \in {"experience", "project"} => x.start # None
          /\ x.section = "education" \/ (x.section = "experience" /\ ~x.current)
                => (x.start # None /\ x.end # None => x.end >= x.start)
    /\ \A s \in Range(r.skills) : CanonKey(s.name) # "" /\ s.level \in Levels
    /\ \A l \in Range(r.langs) : l.code # "" /\ l.level \in TongueLevels

Pick(r, read) == [f \in Fields |-> IF f \in DOMAIN r.fields THEN r.fields[f] ELSE read[f]]

\* What is in the profile is read first; a request that is refused changes nothing.
BeginApply(p, r) ==
    /\ draft[p] # <<>> /\ tx[p] = <<>>
    /\ Validate(r) /\ (DOMAIN r.fields # {} => Pick(r, fields)["full_name"] # "")
    /\ tx' = [tx EXCEPT ![p] = <<[request |-> r, fields |-> fields, skills |-> skills, langs |-> langs]>>]
    /\ UNCHANGED <<saved, skills, langs, fields, draft, edits, wanted, undone, refused>>

Chosen(list, key) == {list[i] : i \in Firsts(key)}

RatedSkills(t) == Chosen(t.request.skills, SkillKeys(t.request.skills))
NewSkills(t) == {s \in RatedSkills(t) : SkillRow(t.skills, s.name) = {}}

ApplySkills(t) ==
    LET changed(n) == {s \in RatedSkills(t) : /\ SkillRow(t.skills, s.name) # {}
                                              /\ TheRow(SkillRow(t.skills, s.name)) = n
                                              /\ t.skills[n].level # s.level}
        by == IF t.skills = skills THEN "import" ELSE "raced"
    IN  [n \in DOMAIN skills \cup {s.name : s \in NewSkills(t)} |->
            IF n \notin DOMAIN skills
            THEN [level |-> (CHOOSE s \in NewSkills(t) : s.name = n).level, gone |-> FALSE, by |-> by]
            ELSE IF changed(n) # {}
            THEN [level |-> TheRow(changed(n)).level, gone |-> skills[n].gone, by |-> skills[n].by]
            ELSE skills[n]]

ApplyLanguages(t) ==
    LET asked == t.request.langs
        changed(k) == {l \in Chosen(asked, Codes(asked)) : /\ LanguageRow(t.langs, l.code) # {}
                                                           /\ TheRow(LanguageRow(t.langs, l.code)) = k
                                                           /\ t.langs[k].level # l.level}
        new == Picked(asked, {i \in Firsts(Codes(asked)) : LanguageRow(t.langs, asked[i].code) = {}})
        by == IF t.langs = langs THEN "import" ELSE "raced"
    IN  [k \in DOMAIN langs |->
            IF changed(k) # {}
            THEN [code |-> langs[k].code, level |-> TheRow(changed(k)).level, by |-> langs[k].by]
            ELSE langs[k]]
            \o [i \in DOMAIN new |-> [code |-> new[i].code, level |-> new[i].level, by |-> by]]

\* Why an item is put in the profile: it is proposed as new, and is new.
ApplyItems(p, r) ==
    LET new(i) == /\ r.asked[i] /\ draft[p].basis = saved
                  /\ \A j \in 1..(i - 1) : ItemKey(r.items[j]) # ItemKey(r.items[i])
    IN  saved \o [i \in DOMAIN r.items |->
                    [section |-> r.items[i].section, key |-> r.items[i].key, start |-> r.items[i].start,
                     proposed |-> new(i)]]

\* The pages whose request has read the fields and is being saved.
Holding == {p \in Tabs : tx[p] # <<>> /\ DOMAIN tx[p][1].request.fields # {}}

Refuse(p, taken) ==
    /\ refused' = <<[names |-> taken, old |-> skills # tx[p][1].skills]>>
    /\ tx' = [tx EXCEPT ![p] = <<>>]
    /\ UNCHANGED <<saved, skills, langs, fields, draft, edits, wanted, undone>>

\* Everything or nothing: a name that any row has, deleted or not, is refused.
EndApply(p) ==
    /\ tx[p] # <<>>
    /\ LET t == tx[p][1]
           r == t.request
           taken == {s.name : s \in NewSkills(t)} \cap DOMAIN skills
       IN  IF taken # {} THEN Refuse(p, taken)
           ELSE /\ saved' = ApplyItems(p, r)
                /\ skills' = ApplySkills(t)
                /\ langs' = ApplyLanguages(t)
                /\ fields' = IF DOMAIN r.fields = {} THEN fields ELSE Pick(r, t.fields)
                /\ wanted' = [f \in Fields |-> IF f \in DOMAIN r.fields THEN r.fields[f] ELSE wanted[f]]
                /\ undone' = IF Holding \ {p} # {} THEN undone \cup DOMAIN r.fields ELSE undone \ DOMAIN r.fields
                /\ tx' = [tx EXCEPT ![p] = <<>>]
                /\ draft' = [draft EXCEPT ![p] = <<>>]
                /\ UNCHANGED <<edits, refused>>

-----------------------------------------------------------------------------
(* The pages of the profile, meanwhile: users.go *)

ByHand == edits < MaxEdits /\ edits' = edits + 1

AddSkillByHand(n) ==
    /\ ByHand /\ n \notin DOMAIN skills
    /\ skills' = [m \in DOMAIN skills \cup {n} |->
                     IF m = n THEN [level |-> "basic", gone |-> FALSE, by |-> "hand"] ELSE skills[m]]
    /\ UNCHANGED <<saved, langs, fields, draft, tx, wanted, undone, refused>>

DeleteSkillByHand(n) ==
    /\ ByHand /\ n \in DOMAIN skills /\ ~skills[n].gone
    /\ skills' = [skills EXCEPT ![n] = [level |-> skills[n].level, gone |-> TRUE, by |-> skills[n].by]]
    /\ UNCHANGED <<saved, langs, fields, draft, tx, wanted, undone, refused>>

EditField(f) ==
    /\ ByHand /\ fields[f] # "by hand"
    /\ fields' = [fields EXCEPT ![f] = "by hand"] /\ wanted' = [wanted EXCEPT ![f] = "by hand"]
    /\ undone' = IF Holding # {} THEN undone \cup {f} ELSE undone \ {f}
    /\ UNCHANGED <<saved, skills, langs, draft, tx, refused>>

ReviewNext ==
    \/ \E p \in Tabs :
         \/ \E d \in Documents : Read(p, d)
         \/ draft[p] # <<>>
            /\ \E all \in BOOLEAN, ticked \in SUBSET {f \in Fields : draft[p].fields[f] # ""}, typed \in Additions :
                 BeginApply(p, Request(draft[p], all, ticked, typed))
         \/ EndApply(p)
    \/ \E n \in Typed \cup DOMAIN skills : AddSkillByHand(n) \/ DeleteSkillByHand(n)
    \/ \E f \in Fields : EditField(f)

ReviewSpec == ReviewInit /\ [][ReviewNext]_reviewVars

-----------------------------------------------------------------------------
(* Properties *)

\* "nunca são duplicadas": a skill or a language that an import adds is not in
\* the profile under another spelling, unless the profile changed after the
\* import had read it; and the languages neither.
NamesOnce ==
    /\ \A m, n \in Alive :
          m # n /\ CanonKey(m) = CanonKey(n) => {skills[m].by, skills[n].by} \cap {"hand", "raced"} # {}
    /\ \A i, k \in DOMAIN langs :
          i < k /\ langs[i].code = langs[k].code => langs[k].by = "raced"

\* "itens já existentes vêm desmarcados para não duplicar" (README.md:111): what
\* the page proposes as new, and is saved as proposed, is nowhere in the profile.
ProposedIsNew ==
    \A i, k \in DOMAIN saved : i < k /\ ItemKey(saved[i]) = ItemKey(saved[k]) => ~saved[k].proposed

\* "campo nil = manter o valor atual": a field has what was last asked of it, by
\* hand or by a review, unless it was saved between the reading and the writing of
\* all of them by somebody else's review.
FieldsAsWanted == \A f \in Fields : fields[f] # wanted[f] => f \in undone

\* When nothing changed meanwhile, only the name of a deleted skill has a review
\* refused: the name stays taken for good.
RefusedForDeleted ==
    refused # <<>> /\ ~refused[1].old => \A n \in refused[1].names : skills[n].gone

\* The time a level is suggested from is the number of months in which the skill
\* was used, and the most used comes first.
MonthsAreCounted ==
    \A p \in Tabs : draft[p] # <<>> =>
        LET d == draft[p]
            exps == {x \in {d.items[i].item : i \in DOMAIN d.items} : x.section = "experience"}
            worked(n) == UNION {s.from..s.to : s \in Periods(exps, n)}
        IN  /\ \A i \in DOMAIN d.skills : d.skills[i].skill.months = Cardinality(worked(d.skills[i].skill.name))
            /\ \A i, j \in DOMAIN d.skills : i < j => d.skills[j].skill.months <= d.skills[i].skill.months

\* A review changes the profile as its user was shown: each part as stated above.
ReviewIsKept ==
    NamesOnce /\ ProposedIsNew /\ FieldsAsWanted /\ RefusedForDeleted /\ MonthsAreCounted
=============================================================================
