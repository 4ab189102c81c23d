----------------------------- MODULE PdfService -----------------------------
(***************************************************************************)
(* PDFs are made by one Python process behind a mutex: a line with the     *)
(* request goes in, a line with the answer comes out, and nothing in the   *)
(* answer says whose it is (internal/handler/pdf_service.go).  Each        *)
(* request is for a resume of its own (GeneratePDF).                       *)
(***************************************************************************)
EXTENDS Naturals, Sequences, FiniteSets

CONSTANTS
    Requests,
    MaxFaults   \* bound on deaths of the process and starts that fail

VARIABLES
    began,    \* s.cmd # nil: some start succeeded
    alive,    \* the process that the handles belong to runs
    todo,     \* lines written to it
    out,      \* lines it has answered: whether the PDF of a request was made
    lock,     \* the request that holds s.mu, or "nobody"
    req,      \* req[r]: where Generate and its handler are
    late,     \* the requests whose 60 s are over, or whose client is gone
    readers,  \* the goroutines that scan the output
    ch,       \* ch[r]: what the goroutine of r sent
    made,     \* the resumes whose PDFs are on disk
    saved,    \* the resumes with resume_pdf_path
    faults

vars == <<began, alive, todo, out, lock, req, late, readers, ch, made, saved, faults>>
process == <<began, alive, todo, out, readers>>

Nothing == [is |-> "nothing"]
EOF == [is |-> "eof"]
Line(r, ok) == [is |-> "line", of |-> r, ok |-> ok]

Init ==
    /\ began \in BOOLEAN /\ alive = began
    /\ todo = <<>> /\ out = <<>>
    /\ lock = "nobody"
    /\ req = [r \in Requests |-> "idle"]
    /\ late = {} /\ readers = {}
    /\ ch = [r \in Requests |-> Nothing]
    /\ made = {} /\ saved = {}
    /\ faults = 0

Fault == faults < MaxFaults /\ faults' = faults + 1

(* Kill, Wait and start: what was in the pipes is gone.  When the start    *)
(* fails the handles of the dead process stay.                             *)
Restart ==
    /\ todo' = <<>> /\ out' = <<>> /\ readers' = {}
    /\ UNCHANGED began
    /\ \/ alive' = TRUE /\ UNCHANGED faults
       \/ alive' = FALSE /\ Fault

Leaves(r, how) ==
    /\ req' = [req EXCEPT ![r] = how]
    /\ lock' = "nobody"

Ask(r) ==
    /\ req[r] = "idle"
    /\ req' = [req EXCEPT ![r] = "waits"]
    /\ UNCHANGED <<process, lock, late, ch, made, saved, faults>>

Deadline(r) ==
    /\ req[r] \in {"waits", "writes", "reads", "saves"} /\ r \notin late
    /\ late' = late \cup {r}
    /\ UNCHANGED <<process, lock, req, ch, made, saved, faults>>

(* Waiting for the mutex has no deadline.  A process that never started is *)
(* not started later either.                                               *)
Lock(r) ==
    /\ req[r] = "waits" /\ lock = "nobody"
    /\ IF began
       THEN req' = [req EXCEPT ![r] = "writes"] /\ lock' = r
       ELSE Leaves(r, "failed")
    /\ UNCHANGED <<process, late, ch, made, saved, faults>>

Write(r) ==
    /\ req[r] = "writes" /\ alive
    /\ todo' = Append(todo, r)
    /\ readers' = readers \cup {r}
    /\ req' = [req EXCEPT ![r] = "reads"]
    /\ UNCHANGED <<began, alive, out, lock, late, ch, made, saved, faults>>

(* A closed pipe: start again and write once more, which fails when the    *)
(* start did.                                                              *)
WriteFails(r) ==
    /\ req[r] = "writes" /\ ~alive
    /\ \/ /\ alive' = TRUE /\ UNCHANGED faults
          /\ todo' = <<r>> /\ readers' = {r}
          /\ req' = [req EXCEPT ![r] = "reads"] /\ UNCHANGED lock
       \/ /\ alive' = FALSE /\ Fault
          /\ todo' = <<>> /\ readers' = {}
          /\ Leaves(r, "failed")
    /\ out' = <<>>
    /\ UNCHANGED <<began, late, ch, made, saved>>

(* serve(): one answer for each line, in turn, an error included.          *)
Serve(ok) ==
    /\ alive /\ todo # <<>>
    /\ todo' = Tail(todo)
    /\ out' = Append(out, Line(Head(todo), ok))
    /\ made' = IF ok THEN made \cup {Head(todo)} ELSE made
    /\ UNCHANGED <<began, alive, readers, lock, req, late, ch, saved, faults>>

Dies ==
    /\ alive /\ Fault
    /\ alive' = FALSE /\ todo' = <<>>
    /\ UNCHANGED <<began, out, readers, lock, req, late, ch, made, saved>>

(* scanner.Scan() in a goroutine: a line, or the end of the output.        *)
Scan(r) ==
    /\ r \in readers
    /\ \/ out # <<>> /\ out' = Tail(out) /\ ch' = [ch EXCEPT ![r] = Head(out)]
       \/ out = <<>> /\ ~alive /\ UNCHANGED out /\ ch' = [ch EXCEPT ![r] = EOF]
    /\ readers' = readers \ {r}
    /\ UNCHANGED <<began, alive, todo, lock, req, late, made, saved, faults>>

Answered(r) ==
    /\ req[r] = "reads" /\ ch[r].is = "line"
    /\ Leaves(r, IF ch[r].ok THEN "saves" ELSE "failed")
    /\ UNCHANGED <<process, late, ch, made, saved, faults>>

AnswerEnds(r) ==
    /\ req[r] = "reads" /\ ch[r] = EOF
    /\ Restart
    /\ Leaves(r, "failed")
    /\ UNCHANGED <<late, ch, made, saved>>

(* Variant: the process is left at its work.                               *)
ExpiresAndLeaves(r) ==
    /\ req[r] = "reads" /\ r \in late
    /\ Leaves(r, "failed")
    /\ UNCHANGED <<process, late, ch, made, saved, faults>>

(* The select may take this branch although the answer is there too.       *)
Expires(r) ==
    /\ req[r] = "reads" /\ r \in late
    /\ Restart
    /\ Leaves(r, "failed")
    /\ UNCHANGED <<late, ch, made, saved>>

(* GeneratePDF: QueryUpdateResumePaths with the same deadline.             *)
Save(r) ==
    /\ req[r] = "saves"
    /\ \/ r \notin late /\ saved' = saved \cup {r} /\ req' = [req EXCEPT ![r] = "done"]
       \/ r \in late /\ UNCHANGED saved /\ req' = [req EXCEPT ![r] = "failed"]
    /\ UNCHANGED <<process, lock, late, ch, made, faults>>

Next ==
    \/ \E r \in Requests :
         \/ Ask(r) \/ Deadline(r) \/ Lock(r) \/ Write(r) \/ WriteFails(r) \/ Scan(r)
         \/ Answered(r) \/ AnswerEnds(r) \/ Expires(r) \/ Save(r)
    \/ \E ok \in BOOLEAN : Serve(ok)
    \/ Dies

Spec == Init /\ [][Next]_vars

-----------------------------------------------------------------------------
(* A resume has the path of a PDF only once that PDF was made: no request  *)
(* takes the answer to another, whatever expired, died or was started      *)
(* again before it.                                                        *)
PathHasItsFile == saved \subseteq made
=============================================================================
