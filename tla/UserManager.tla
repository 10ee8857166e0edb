----------------------------- MODULE UserManager -----------------------------
(***************************************************************************)
(* The browser sessions on pfSense's and HUE's user administration         *)
(* (acc-prov-vm/src/pfsense.js, hue.js): one login, then operations that   *)
(* find the student's row, open its edit page, check whose page it is,     *)
(* save, and read the account back.  One step is one page load or click.   *)
(*                                                                         *)
(* Three parties use the pages at the same time: the site's worker, the    *)
(* administrator's cleanup script, which deletes on pfSense, and people in *)
(* the office, who delete and disable by hand, so that rows move.          *)
(* Which operations a job needs is module SiteWorker's subject: here the   *)
(* worker does any of them in any order.                                   *)
(***************************************************************************)
EXTENDS Integers, Sequences, SequencesExt

CONSTANTS
    Student,      \* the username a job or a cleanup is about
    Others,       \* other usernames in the list
    FullName,     \* the full name the job or the cleanup gives
    OtherName,    \* another person's full name
    WorkerOps,    \* the operations the worker uses
    Lists,        \* the user lists there may be at first
    MaxAttempts,  \* WORKER_MAX_ATTEMPTS
    MaxTrouble    \* bound: steps that fail, and changes by the office

Account == [name : {Student} \cup Others, full : {FullName, OtherName},
            disabled : BOOLEAN, expires : {"before", "asked"}, pw : {"old", "new"}]

\* Both products hold a username only once.
NamesAreUnique(list) ==
    \A i, j \in DOMAIN list : list[i].name = list[j].name => i = j

Parameters ==
    /\ Student \notin Others
    /\ FullName # OtherName
    /\ WorkerOps \subseteq {"create", "setPassword", "expire", "extend", "enable", "disable", "reset"}
    /\ MaxAttempts \in Nat \ {0} /\ MaxTrouble \in Nat
    /\ \A list \in Lists : list \in Seq(Account) /\ NamesAreUnique(list)

ASSUME UserAssumption == Parameters

VARIABLES
    gui,      \* "pfsense" or "hue"
    rows,     \* the user list, in the order of the page
    session,  \* per party, its browser session
    failed,   \* failed deliveries of the worker's job
    trouble   \* steps that failed, and changes by the office

vars == <<gui, rows, session, failed, trouble>>

NewAccount == [name |-> Student, full |-> FullName, disabled |-> FALSE, expires |-> "asked", pw |-> "new"]

Parties == {"worker", "cleanup"}
\* setExpiration is "extend" where it is given the full name, and "expire" where not.
Ops(p) ==
    IF p = "cleanup" THEN {"delete"}
    ELSE IF gui = "hue" THEN WorkerOps \ {"setPassword", "expire", "extend", "enable"}
    ELSE WorkerOps \ {"reset"}

\* The pages an operation goes through.
Steps(op) ==
    CASE op = "create"                -> <<"absent", "add", "find", "verify">>
      [] op = "setPassword"           -> <<"find", "open", "save">>
      [] op = "delete"                -> <<"find", "open", "find", "trash", "absent">>
      [] OTHER                        -> <<"find", "open", "save", "find", "verify">>

Nobody == "nobody"
Closed == [op |-> "closed", left |-> <<>>, href |-> 0, form |-> Nobody]
Ready  == [Closed EXCEPT !.op = "none"]

Has(name) == \E i \in DOMAIN rows : rows[i].name = name
RowOf(name) == CHOOSE i \in DOMAIN rows : rows[i].name = name

Init ==
    /\ gui \in {"pfsense", "hue"}
    /\ rows \in Lists
    /\ session = [p \in Parties |-> Closed]
    /\ failed = 0
    /\ trouble = 0

-----------------------------------------------------------------------------
(* A session *)

\* The worker's message comes back until its attempts are used.
MayStart(p) == session[p] = Closed /\ (IF p = "worker" THEN failed < MaxAttempts ELSE gui = "pfsense")

Login(p) ==
    /\ MayStart(p)
    /\ session' = [session EXCEPT ![p] = Ready]
    /\ UNCHANGED <<gui, rows, failed, trouble>>

\* The password is not the right one: the delivery fails, as after any error.
LoginRefused ==
    /\ MayStart("worker")
    /\ failed' = failed + 1
    /\ UNCHANGED <<gui, rows, session, trouble>>

Close(p) ==
    /\ session[p] = Ready
    /\ session' = [session EXCEPT ![p] = Closed]
    /\ failed' = IF p = "worker" THEN 0 ELSE failed
    /\ UNCHANGED <<gui, rows, trouble>>

\* The last attempt has failed: a failed result, and the next job.
GiveUp ==
    /\ failed = MaxAttempts
    /\ failed' = 0
    /\ UNCHANGED <<gui, rows, session, trouble>>

Start(p, op) ==
    /\ session[p] = Ready
    /\ session' = [session EXCEPT ![p] = [Ready EXCEPT !.op = op, !.left = Steps(op)]]
    /\ UNCHANGED <<gui, rows, failed, trouble>>

At(p, step) == session[p].left # <<>> /\ Head(session[p].left) = step

Moves(p, next) == session' = [session EXCEPT ![p] = next] /\ UNCHANGED failed

\* The operation goes on, or is done: the session is ready for another.
Onwards(p, href, form) ==
    Moves(p, IF Len(session[p].left) = 1 THEN Ready
             ELSE [session[p] EXCEPT !.left = Tail(@), !.href = href, !.form = form])

Done(p) == Moves(p, Ready)

\* The session is closed, and a job's message goes back to the queue.
Throws(p) ==
    /\ session' = [session EXCEPT ![p] = Closed]
    /\ failed' = IF p = "worker" THEN failed + 1 ELSE failed

-----------------------------------------------------------------------------
(* The pages *)

\* The row is looked up by the exact username; its links hold the row's index.
Find(p) ==
    /\ At(p, "find")
    /\ IF Has(Student) THEN Onwards(p, RowOf(Student), Student) ELSE Throws(p)
    /\ UNCHANGED <<gui, rows, trouble>>

Absent(p) ==
    /\ At(p, "absent")
    /\ IF Has(Student) THEN Throws(p) ELSE Onwards(p, 0, Nobody)
    /\ UNCHANGED <<gui, rows, trouble>>

\* The account the page's link or form leads to now: pfSense's holds the index of
\* a row, HUE's a name.
Shown(p) == IF gui = "pfsense" THEN session[p].href ELSE IF Has(Student) THEN RowOf(Student) ELSE 0

\* That is still the account the page was about.
SameRow(p) == Shown(p) \in DOMAIN rows /\ rows[Shown(p)].name = session[p].form

ChecksFullName(op) == op \in {"setPassword", "extend", "delete"}

\* Mutant: the page that came up is not checked again.
IsTheirs_Unchecked(p, a) == TRUE
IsTheirs(p, a) == a.name = Student /\ (ChecksFullName(session[p].op) => a.full = FullName)

Open(p) ==
    /\ At(p, "open")
    /\ LET i == Shown(p) IN
       IF i \notin DOMAIN rows THEN Throws(p)
       ELSE IF ~IsTheirs(p, rows[i]) THEN Throws(p)
       ELSE IF session[p].op \in {"enable", "disable"} /\ rows[i].disabled = (session[p].op = "disable") THEN Done(p)
       ELSE Onwards(p, i, rows[i].name)
    /\ UNCHANGED <<gui, rows, trouble>>

Changed(op, a) ==
    CASE op = "setPassword" -> [a EXCEPT !.pw = "new"]
      [] op \in {"expire", "extend"} -> [a EXCEPT !.expires = "asked"]
      [] op = "enable"      -> [a EXCEPT !.disabled = FALSE]
      [] op = "disable"     -> [a EXCEPT !.disabled = TRUE]
      [] op = "reset"       -> [a EXCEPT !.pw = "new", !.disabled = FALSE]

\* The rows a form or a link may reach: the one at its index, or under its name.
Reached(p) == {i \in DOMAIN rows : i = Shown(p) \/ rows[i].name = session[p].form}

\* Nothing is looked at between the check of the page and the click.  What pfSense
\* does with a form whose row has moved is not in this repository: it may change
\* the row that took the place, find the account by its name, or refuse.
Save(p) ==
    /\ At(p, "save")
    /\ \/ /\ \E i \in Reached(p) : rows' = [rows EXCEPT ![i] = Changed(session[p].op, @)]
          /\ Onwards(p, 0, Nobody)
       \/ ~SameRow(p) /\ Throws(p) /\ UNCHANGED rows
    /\ UNCHANGED <<gui, trouble>>

\* The list is kept in the order of names, so a new row may move the others.
Add(p) ==
    /\ At(p, "add")
    /\ IF Has(Student)
       THEN Throws(p) /\ UNCHANGED rows
       ELSE /\ \E i \in 1..(Len(rows) + 1) : rows' = InsertAt(rows, i, NewAccount)
            /\ Onwards(p, 0, Nobody)
    /\ UNCHANGED <<gui, trouble>>

\* The alert that is waited for names the deleted user.  A link whose row has
\* moved is as open as such a form.
Trash(p) ==
    /\ At(p, "trash")
    /\ \/ \E i \in Reached(p) :
            /\ rows' = RemoveAt(rows, i)
            /\ IF rows[i].name = Student THEN Onwards(p, 0, Nobody) ELSE Throws(p)
       \/ ~SameRow(p) /\ Throws(p) /\ UNCHANGED rows
    /\ UNCHANGED <<gui, trouble>>

AsAsked(op, a) ==
    /\ a.name = Student
    /\ (op \in {"create", "reset", "enable"}) => ~a.disabled
    /\ op = "disable" => a.disabled
    /\ (op \in {"expire", "extend"} \/ (op = "create" /\ gui = "pfsense")) => a.expires = "asked"
    /\ (op = "create" /\ gui = "pfsense") => a.full = FullName

ReadsBack(p, a) == AsAsked(session[p].op, a)

Verify(p) ==
    /\ At(p, "verify")
    /\ LET i == Shown(p) IN
       IF i \notin DOMAIN rows THEN Throws(p)
       ELSE IF ~ReadsBack(p, rows[i]) THEN Throws(p)
       ELSE Done(p)
    /\ UNCHANGED <<gui, rows, trouble>>

-----------------------------------------------------------------------------
(* What else happens *)

Trouble == trouble < MaxTrouble /\ trouble' = trouble + 1

\* A page does not load, a locator finds nothing, the form is refused.
StepFails(p) ==
    /\ session[p] # Closed /\ Trouble
    /\ Throws(p)
    /\ UNCHANGED <<gui, rows>>

\* The page shows no error, and nothing was saved.
SaveIsLost(p) ==
    /\ At(p, "save") \/ At(p, "add")
    /\ Trouble
    /\ Onwards(p, 0, Nobody)
    /\ UNCHANGED <<gui, rows>>

\* The office's changes; it adds nobody while a session is open (see README).
OfficeDeletes ==
    /\ Trouble
    /\ \E i \in DOMAIN rows : rows' = RemoveAt(rows, i)
    /\ UNCHANGED <<gui, session, failed>>

OfficeDisables ==
    /\ Trouble
    /\ \E i \in DOMAIN rows : rows' = [rows EXCEPT ![i].disabled = TRUE]
    /\ UNCHANGED <<gui, session, failed>>

Page(p) == Find(p) \/ Absent(p) \/ Open(p) \/ Save(p) \/ Add(p) \/ Trash(p) \/ Verify(p)

Party(p) ==
    \/ Login(p) \/ Close(p)
    \/ \E op \in Ops(p) : Start(p, op)
    \/ Page(p)
    \/ StepFails(p) \/ SaveIsLost(p)

Next ==
    \/ \E p \in Parties : Party(p)
    \/ LoginRefused \/ GiveUp
    \/ OfficeDeletes \/ OfficeDisables

Spec == Init /\ [][Next]_vars

-----------------------------------------------------------------------------
\* The row that has come to stand where the one on pfSense's page stood, when a
\* save or a delete is clicked: the code cannot tell, and pfSense may not either.
TookPlace(p, i) ==
    gui = "pfsense" /\ (At(p, "save") \/ At(p, "trash")) /\ i = session[p].href /\ ~SameRow(p)

\* A session changes no other person's account: not one under another username,
\* although the link to an edit page is the index of a row and rows move while it
\* is followed (pfsense.js:5-6), and, where the full name is given, not a namesake's
\* (pfsense.js:213, 225, 262-263).  The one account it may hit is the one that took
\* the student's place after the page was checked and before the click.
OthersAreKept ==
    [][\A p \in Parties : session'[p] # session[p] =>
          \A i \in DOMAIN rows :
             /\ \/ rows[i].name # Student
                \/ ChecksFullName(session[p].op) /\ rows[i].full # FullName
             /\ ~TookPlace(p, i)
             => rows[i] \in ToSet(rows')]_vars

=============================================================================
