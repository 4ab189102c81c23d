-------------------------------- MODULE Desk --------------------------------
(***************************************************************************)
(* Parts behind the user's own pages that work apart from each other: the  *)
(* profile and its cache, its rows, the catalogue and the bell, the board  *)
(* of applications of a job, and the PDFs of resumes.                      *)
(***************************************************************************)
EXTENDS ProfileCache

CONSTANTS
    Posts, MaxBirths,                     \* the catalogue
    Requests, Marked, MaxEvents, MaxFails, \* the board
    PdfRequests, MaxPdfFaults,            \* the PDFs
    Users, Me, Sizes, MaxRows             \* the rows of the profile

\* Posts are compared by their dates, and "nobody" is what holds a free lock.
ASSUME DatesAreNumbers == \A p \in Posts : p.date \in Nat
\* The pages offer sizes from a list of their own (the selects of index.html).
ASSUME SizesArePositive == Sizes \subseteq Nat \ {0}
ASSUME NobodyAsks == "nobody" \notin Requests /\ "nobody" \notin PdfRequests

VARIABLES
    catalogue, active, dismissed, fresh, marked, enabled, births, page, asked, shown, due,
    stage, events, locked, tx, clock, fails,
    began, alive, todo, out, lock, req, late, readers, ch, made, saved, pdfFaults,
    tab, table, cached, pages, last, moved

Bell == INSTANCE Catalogue
Applications == INSTANCE Board
Rows == INSTANCE ProfileRows
Pdf == INSTANCE PdfService WITH
    Requests <- PdfRequests, MaxFaults <- MaxPdfFaults, faults <- pdfFaults

bellVars == <<catalogue, active, dismissed, fresh, marked, enabled, births, page, asked, shown, due>>
boardVars == <<stage, events, locked, tx, clock, fails>>
pdfVars == <<began, alive, todo, out, lock, req, late, readers, ch, made, saved, pdfFaults>>
rowsVars == <<tab, table, cached, pages, last, moved>>

-----------------------------------------------------------------------------
(* The mark of the bell passes nothing that its list had to show: stated   *)
(* and explained in Catalogue.                                             *)
SeenWasShown == Bell!SeenWasShown

(* The lists of the profile and its cached sections have the rows that are *)
(* there: stated and explained in ProfileRows.                             *)
ListsAgree == Rows!ListsAgree

(* The board, the stage and the history of a job agree: stated and         *)
(* explained in Board.                                                     *)
BoardAgrees == Applications!BoardAgrees

(* The path saved for a resume is that of its own PDF: stated and          *)
(* explained in PdfService.                                                *)
PathHasItsFile == Pdf!PathHasItsFile
=============================================================================
