------------------------------ MODULE MCImport ------------------------------
(***************************************************************************)
(* An instance for TLC of the import of a resume.  A behaviour is about    *)
(* the reading of the file (ProfileImport) or about the review of what was *)
(* read (ImportReview); the other stays as it begins.                      *)
(***************************************************************************)
EXTENDS ProfileImport, ImportReview

Named(form, words) == [form |-> form, words |-> words]
Go == Named("Go", <<"go">>)
Golang == Named("Golang", <<"golang">>)
GoGolang == Named("Go (Golang)", <<"go (golang)", "go", "golang">>)
React == Named("React", <<"react">>)
English == Named("English", <<"english">>)

Job(company, start, end, stack, mentions) ==
    [section |-> "experience", key |-> <<company, "dev">>, start |-> start, end |-> end,
     current |-> FALSE, stack |-> stack, mentions |-> mentions]
Item(section, key, start, end) ==
    [section |-> section, key |-> <<key>>, start |-> start, end |-> end]
Listed(name, level, explicit) == [name |-> name, level |-> level, explicit |-> explicit]
Spoken(word, level) == [word |-> word, level |-> level]

\* Periods that overlap, touch and leave a gap; a month that is missing; words for
\* one skill; a language among the skills and one the AI did not mention.
Resume ==
    [fields |-> [full_name |-> "Ana", about |-> ""],
     experiences |-> <<Job("acme", 1, 10, <<Golang, Go>>, {}), Job("labs", 8, 20, <<GoGolang>>, {"React"}),
                       Job("labs", 21, 30, <<Go>>, {}), Job("corp", 38, 0, <<Go>>, {"React"}), Job("", 1, 2, <<>>, {})>>,
     others |-> <<>>,
     skills |-> <<Listed(React, "", FALSE), Listed(English, "advanced", TRUE), Listed(GoGolang, "expert", TRUE)>>,
     langs |-> <<Spoken("english", "advanced"), Spoken("en", "basic")>>,
     found |-> <<Spoken("spanish", "basic"), Spoken("english", "fluent")>>]
Later ==
    [fields |-> [full_name |-> "", about |-> "dev"],
     experiences |-> <<Job("acme", 1, 12, <<React>>, {}), Job("old", 0, 0, <<>>, {})>>,
     others |-> <<Item("education", "uni", 0, 12), Item("project", "site", 0, 0), Item("project", "site", 2, 0)>>,
     skills |-> <<Listed(Golang, "basic", TRUE)>>,
     langs |-> <<Spoken("english", "fluent")>>, found |-> <<>>]

MCDocuments == {Resume, Later}
MCAliases == [golang |-> "go"]
MCTongues == [english |-> "en", en |-> "en", spanish |-> "es"]
MCTyped == {Go}

VARIABLE part

ImportInit == part \in {"reading", "review"} /\ Init /\ ReviewInit

ImportNext ==
    /\ UNCHANGED part
    /\ \/ part = "reading" /\ Next /\ UNCHANGED reviewVars
       \/ part = "review" /\ ReviewNext /\ UNCHANGED vars

ImportSpec == ImportInit /\ [][ImportNext]_<<part, vars, reviewVars>> /\ Fairness
=============================================================================
