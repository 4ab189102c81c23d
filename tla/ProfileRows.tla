---------------------------- MODULE ProfileRows ----------------------------
(***************************************************************************)
(* The rows of the profile: the statements of each section, the handlers   *)
(* that run them, the page that walks through a list of them, and the      *)
(* reading of a whole section through the cache.  A row keeps its place in *)
(* the order (date or name) and nothing else of its contents.  A statement *)
(* and the deletion of its topic are one step here; ProfileCache has what  *)
(* happens between the two and when one of them fails.                     *)
(***************************************************************************)
EXTENDS Integers, Sequences, FiniteSets

CONSTANTS
    Users,    \* the one whose profile it is, and another
    Me,       \* the one whose pages and worker are looked at
    Sizes,    \* page sizes
    MaxRows   \* bound on rows ever inserted

Paged == {"experiences", "academic", "certificates", "projects", "skills"}
Sections == Paged \cup {"languages", "profile"}

VARIABLES
    tab,     \* the section at work; the others have rows and keys of their own
    table,   \* its rows: [id, section, owner, place, gone]
    cached,  \* the key user:<Me>:<tab>: <<>>, or <<the rows it has>>
    pages,   \* the pages shown since the first one, in turn
    last,    \* the button for the next page is disabled
    moved    \* history: the list changed since the first page was loaded

vars == <<tab, table, cached, pages, last, moved>>

Init ==
    /\ tab \in Sections
    /\ table = {} /\ cached = <<>>
    /\ pages = <<>> /\ last = FALSE /\ moved = FALSE

-----------------------------------------------------------------------------
(* Statements: user.sql.go, languages.sql.go *)

InsertInto(section, u, place) ==
    table \cup {[id |-> Cardinality(table) + 1, section |-> section, owner |-> u,
                 place |-> place, gone |-> FALSE]}

Those(section, u, i) == {r \in table : r.section = section /\ r.owner = u /\ r.id = i}
Place(rows, place) == (table \ rows) \cup {[r EXCEPT !.place = place] : r \in rows}
SoftDelete(rows) == (table \ rows) \cup {[r EXCEPT !.gone = TRUE] : r \in rows}

QueryInsertExperience(u, d)      == InsertInto("experiences", u, d)
QueryInsertAcademicHistory(u, d) == InsertInto("academic", u, d)
QueryInsertCertificate(u, d)     == InsertInto("certificates", u, d)
QueryInsertProject(u, d)         == InsertInto("projects", u, d)
QueryInsertSkill(u, d)           == InsertInto("skills", u, d)
QueryInsertLanguage(u, d)        == InsertInto("languages", u, d)

(* Rows that are deleted are written too, except for languages.            *)
QueryUpdateExperience(u, i, d)      == Place(Those("experiences", u, i), d)
QueryUpdateAcademicHistory(u, i, d) == Place(Those("academic", u, i), d)
QueryUpdateCertificate(u, i, d)     == Place(Those("certificates", u, i), d)
QueryUpdateProject(u, i, d)         == Place(Those("projects", u, i), d)
QueryUpdateSkill(u, i, d)           == Place(Those("skills", u, i), d)
QueryUpdateLanguage(u, i, d) ==
    Place({r \in Those("languages", u, i) : ~r.gone}, d)

QueryDeleteExperience(u, i)      == SoftDelete(Those("experiences", u, i))
QueryDeleteAcademicHistory(u, i) == SoftDelete(Those("academic", u, i))
QueryDeleteCertificate(u, i)     == SoftDelete(Those("certificates", u, i))
QueryDeleteProject(u, i)         == SoftDelete(Those("projects", u, i))
QueryDeleteSkill(u, i)           == SoftDelete(Those("skills", u, i))
QueryDeleteLanguage(u, i)        == SoftDelete(Those("languages", u, i))

Upsert(part, u, d) ==
    {r \in table : ~(r.id = part /\ r.owner = u)}
        \cup {[id |-> part, section |-> "profile", owner |-> u, place |-> d, gone |-> FALSE]}

QueryUpsertProfile(u, d) == Upsert("profile", u, d)
QueryUpsertLinks(u, d)   == Upsert("links", u, d)

Live(section, u) == {r \in table : r.section = section /\ r.owner = u /\ ~r.gone}

(* The orders the database may give: rows in one place come in any.        *)
Listings(rows) ==
    {s \in [1..Cardinality(rows) -> rows] : \A i, j \in DOMAIN s : i < j => s[i] # s[j]}
NewestFirst(rows) ==
    {s \in Listings(rows) : \A i, j \in DOMAIN s : i < j => s[i].place >= s[j].place}
ByName(rows) ==
    {s \in Listings(rows) : \A i, j \in DOMAIN s : i < j => s[i].place <= s[j].place}

QuerySelectAllExperiences(u)       == NewestFirst(Live("experiences", u))
QuerySelectAllAcademicHistories(u) == NewestFirst(Live("academic", u))
QuerySelectAllCertificates(u)      == NewestFirst(Live("certificates", u))
QuerySelectAllProjects(u)          == NewestFirst(Live("projects", u))
QuerySelectAllSkills(u)            == ByName(Live("skills", u))
QuerySelectAllLanguages(u)         == ByName(Live("languages", u))
QuerySelectProfile(u)              == ByName(Live("profile", u))

(* LIMIT size OFFSET offset, and the count of all rows with each of them:  *)
(* a page without rows has no count (GenericList answers 0).               *)
PageOf(orders, offset, size) ==
    {[rows  |-> SubSeq(s, offset + 1, IF offset + size < Len(s) THEN offset + size ELSE Len(s)),
      total |-> IF offset < Len(s) THEN Len(s) ELSE 0] : s \in orders}

QueryListExperiences(u, o, n)       == PageOf(NewestFirst(Live("experiences", u)), o, n)
QueryListAcademicHistories(u, o, n) == PageOf(NewestFirst(Live("academic", u)), o, n)
QueryListCertificates(u, o, n)      == PageOf(NewestFirst(Live("certificates", u)), o, n)
QueryListProjects(u, o, n)          == PageOf(NewestFirst(Live("projects", u)), o, n)
QueryListSkills(u, o, n)            == PageOf(ByName(Live("skills", u)), o, n)

-----------------------------------------------------------------------------
(* Handlers: users.go.  A statement that finds no row succeeds too. *)

Writes(section, u, new) ==
    /\ tab = section
    /\ table' = new
    /\ cached' = IF u = Me THEN <<>> ELSE cached
    /\ moved' = (moved \/ {r \in new : r.owner = Me /\ ~r.gone} # Live(section, Me))
    /\ UNCHANGED <<tab, pages, last>>

Room == Cardinality(table) < MaxRows

InsertExperience(u, d)  == Room /\ Writes("experiences", u, QueryInsertExperience(u, d))
InsertAcademic(u, d)    == Room /\ Writes("academic", u, QueryInsertAcademicHistory(u, d))
InsertCertificate(u, d) == Room /\ Writes("certificates", u, QueryInsertCertificate(u, d))
InsertProject(u, d)     == Room /\ Writes("projects", u, QueryInsertProject(u, d))
InsertSkill(u, d)       == Room /\ Writes("skills", u, QueryInsertSkill(u, d))
InsertLanguage(u, d)    == Room /\ Writes("languages", u, QueryInsertLanguage(u, d))

UpdateExperience(u, i, d)  == Writes("experiences", u, QueryUpdateExperience(u, i, d))
UpdateAcademic(u, i, d)    == Writes("academic", u, QueryUpdateAcademicHistory(u, i, d))
UpdateCertificate(u, i, d) == Writes("certificates", u, QueryUpdateCertificate(u, i, d))
UpdateProject(u, i, d)     == Writes("projects", u, QueryUpdateProject(u, i, d))
UpdateSkill(u, i, d)       == Writes("skills", u, QueryUpdateSkill(u, i, d))
UpdateLanguage(u, i, d)    == Writes("languages", u, QueryUpdateLanguage(u, i, d))

DeleteExperience(u, i)  == Writes("experiences", u, QueryDeleteExperience(u, i))
DeleteAcademic(u, i)    == Writes("academic", u, QueryDeleteAcademicHistory(u, i))
DeleteCertificate(u, i) == Writes("certificates", u, QueryDeleteCertificate(u, i))
DeleteProject(u, i)     == Writes("projects", u, QueryDeleteProject(u, i))
DeleteSkill(u, i)       == Writes("skills", u, QueryDeleteSkill(u, i))
DeleteLanguage(u, i)    == Writes("languages", u, QueryDeleteLanguage(u, i))

UpsertProfile(u, d) == Writes("profile", u, QueryUpsertProfile(u, d))
UpsertLinks(u, d)   == Writes("profile", u, QueryUpsertLinks(u, d))

(* The worker and GetProfile read a section as a whole.                    *)
SelectAll ==
    CASE tab = "experiences"  -> QuerySelectAllExperiences(Me)
      [] tab = "academic"     -> QuerySelectAllAcademicHistories(Me)
      [] tab = "certificates" -> QuerySelectAllCertificates(Me)
      [] tab = "projects"     -> QuerySelectAllProjects(Me)
      [] tab = "skills"       -> QuerySelectAllSkills(Me)
      [] tab = "languages"    -> QuerySelectAllLanguages(Me)
      [] tab = "profile"      -> QuerySelectProfile(Me)

ReadThrough ==
    /\ cached = <<>>
    /\ \E s \in SelectAll : cached' = <<s>>
    /\ UNCHANGED <<tab, table, pages, last, moved>>

-----------------------------------------------------------------------------
(* The page: profile.js *)

ListOf(offset, size) ==
    CASE tab = "experiences"  -> QueryListExperiences(Me, offset, size)
      [] tab = "academic"     -> QueryListAcademicHistories(Me, offset, size)
      [] tab = "certificates" -> QueryListCertificates(Me, offset, size)
      [] tab = "projects"     -> QueryListProjects(Me, offset, size)
      [] tab = "skills"       -> QueryListSkills(Me, offset, size)

(* The k-th page of the walk takes the place of what was there.            *)
Show(k, size) ==
    /\ tab \in Paged
    /\ \E answer \in ListOf((k - 1) * size, size) :
         /\ pages' = Append(SubSeq(pages, 1, k - 1), [size |-> size, rows |-> answer.rows])
         /\ last' = (k * size >= answer.total)
    /\ moved' = (k # 1 /\ moved)
    /\ UNCHANGED <<tab, table, cached>>

(* Variant: a step of one page too many.                                   *)
NextPageSkips ==
    /\ pages # <<>> /\ ~last
    /\ tab \in Paged
    /\ \E answer \in ListOf((Len(pages) + 1) * pages[1].size, pages[1].size) :
         /\ pages' = Append(pages, [size |-> pages[1].size, rows |-> answer.rows])
         /\ last' = ((Len(pages) + 2) * pages[1].size >= answer.total)
    /\ UNCHANGED <<tab, table, cached, moved>>

ChangePageSize(size) == Show(1, size)
NextPage == pages # <<>> /\ ~last /\ Show(Len(pages) + 1, pages[1].size)
PrevPage == Len(pages) > 1 /\ Show(Len(pages) - 1, pages[1].size)

Places == 1..2

Next ==
    \/ \E u \in Users, d \in Places :
         \/ InsertExperience(u, d) \/ InsertAcademic(u, d) \/ InsertCertificate(u, d)
         \/ InsertProject(u, d) \/ InsertSkill(u, d) \/ InsertLanguage(u, d)
         \/ UpsertProfile(u, d) \/ UpsertLinks(u, d)
         \/ \E i \in 1..MaxRows :
              \/ UpdateExperience(u, i, d) \/ UpdateAcademic(u, i, d) \/ UpdateCertificate(u, i, d)
              \/ UpdateProject(u, i, d) \/ UpdateSkill(u, i, d) \/ UpdateLanguage(u, i, d)
    \/ \E u \in Users, i \in 1..MaxRows :
         \/ DeleteExperience(u, i) \/ DeleteAcademic(u, i) \/ DeleteCertificate(u, i)
         \/ DeleteProject(u, i) \/ DeleteSkill(u, i) \/ DeleteLanguage(u, i)
    \/ ReadThrough
    \/ \E size \in Sizes : ChangePageSize(size)
    \/ NextPage \/ PrevPage

Spec == Init /\ [][Next]_vars

-----------------------------------------------------------------------------
Tied == \E r, q \in Live(tab, Me) : r # q /\ r.place = q.place

\* Spot <<k, n>> is the n-th one of the k-th page.
Spots == UNION {{k} \X DOMAIN pages[k].rows : k \in DOMAIN pages}
At(p) == pages[p[1]].rows[p[2]]
Earlier(p, q) == p[1] < q[1] \/ (p[1] = q[1] /\ p[2] < q[2])

Precedes(r, q) ==
    IF tab \in {"skills", "languages", "profile"} THEN r.place < q.place ELSE r.place > q.place

(* From the first page to the last one shows the section as it is, each    *)
(* row once and in order, if the list did not change on the way and no two *)
(* rows share a place: offsets into a list without a tie-break promise no  *)
(* more.                                                                   *)
WalkShowsAll ==
    pages # <<>> /\ last /\ ~moved /\ ~Tied =>
        /\ {At(p) : p \in Spots} = Live(tab, Me)
        /\ \A p, q \in Spots : Earlier(p, q) => Precedes(At(p), At(q))

(* What the worker reads from the cache are the rows the pages show.       *)
CacheHasTheRows ==
    cached # <<>> => {cached[1][n] : n \in DOMAIN cached[1]} = Live(tab, Me)

ListsAgree == WalkShowsAll /\ CacheHasTheRows
=============================================================================
