----------------------------- MODULE RequestForm -----------------------------
(***************************************************************************)
(* The student's side of the web application: the form that submits a new  *)
(* request, edits one that waits, or asks for more time; the drafts kept   *)
(* in the browser; and the calls to the API, which may be lost on the way  *)
(* there or back and are answered while the student goes on working.       *)
(*                                                                         *)
(* The backend answers a call in one step (module RequestStore has what    *)
(* happens inside it), and an approver may decide at any time.  A tab that *)
(* has never been opened is a page that has just been loaded.  The list of *)
(* requests is not kept: it may be as old as the tab, so any request may   *)
(* still be listed as waiting.                                             *)
(***************************************************************************)
EXTENDS Naturals, Sequences, FiniteSets, Functions

CONSTANTS
    Tabs,         \* the browser tabs in which the student has the application open
    Types, Texts, \* resource types, and what the other fields may say
    Typed,        \* what the student leaves in the fields of a form
    Decisions,    \* what becomes of a request the approvers have looked at
    MaxForms,     \* bound: forms opened
    MaxRequests,  \* bound: requests a form is submitted for
    MaxDrafts,    \* bound: draft ids given
    MaxCalls,     \* bound: calls under way
    MaxErrors,    \* bound: errors after which a form is used no more
    MaxTrouble    \* bound: calls lost

ASSUME BoundsAssumption ==
    /\ MaxForms \in Nat /\ MaxRequests \in Nat
    /\ MaxDrafts \in Nat /\ MaxCalls \in Nat
    /\ MaxErrors \in Nat /\ MaxTrouble \in Nat

Empty == ""  \* a field that was not filled in

Data == [type : Types \cup {Empty}, text : Texts \cup {Empty}]
EMPTY == [type |-> Empty, text |-> Empty]

ASSUME TypedAssumption == Typed \subseteq Data

VARIABLES
    requests,  \* the student's rows, by id
    drafts,    \* localStorage: the drafts, by id
    made,      \* draft ids given so far
    page,      \* per tab: the form on the screen, and the drafts as listed
    calls,     \* calls to the API that have not been answered to the page
    forms,     \* forms opened so far
    failures,  \* per form, the answers that were an error
    trouble    \* calls lost so far

vars == <<requests, drafts, made, page, calls, forms, failures, trouble>>

\* The value of a date input, a text that only satisfies the pattern, and no date.
EndDates == {"day", "dddd-dd-dd", Empty}

NoForm == [n |-> 0, mode |-> "none", rid |-> 0, data |-> EMPTY, draft |-> 0,
           loading |-> FALSE, loaded |-> FALSE, busy |-> FALSE]
FreshPage == [form |-> NoForm, listed |-> drafts]

Init ==
    /\ requests = <<>>
    /\ drafts = << >>
    /\ made = 0
    /\ page = [t \in Tabs |-> [form |-> NoForm, listed |-> << >>]]
    /\ calls = {}
    /\ forms = 0
    /\ failures = [n \in 1..MaxForms |-> 0]
    /\ trouble = 0

Form(t) == page[t].form
WithForm(t, f) == [page EXCEPT ![t].form = f]
Shows(t, c) == Form(t).n = c.n

------------------------------------------------------------------------------
\* The page

\* The page is loaded, or loaded again.  (What a page waited for when it is loaded again
\* is like an answer that was lost.)
LoadPage(t) ==
    /\ \A c \in calls : c.tab # t
    /\ page' = [page EXCEPT ![t] = FreshPage]
    /\ UNCHANGED <<requests, drafts, made, calls, forms, failures, trouble>>

Opened(mode, rid, data, draft) ==
    [NoForm EXCEPT !.n = forms + 1, !.mode = mode, !.rid = rid, !.data = data,
                   !.draft = draft, !.loading = rid # 0]

Call(t, f, kind) ==
    [n |-> f.n, tab |-> t, kind |-> kind, rid |-> f.rid, data |-> f.data, draft |-> f.draft,
     loaded |-> f.loaded, end |-> Empty, answer |-> "none"]

CanOpen(t) == Form(t) = NoForm /\ forms < MaxForms

OpenNew(t, data, draft) ==
    /\ CanOpen(t)
    /\ page' = WithForm(t, Opened("new", 0, data, draft))
    /\ forms' = forms + 1
    /\ UNCHANGED <<requests, drafts, made, calls, failures, trouble>>

\* The form of a request is opened empty and asks for the row.
OpenRequest(t, r, mode) ==
    LET f == Opened(mode, r, EMPTY, 0) IN
    /\ CanOpen(t)
    /\ mode = "view" => requests[r].status # "PENDING"
    /\ Cardinality(calls) < MaxCalls
    /\ page' = WithForm(t, f)
    /\ forms' = forms + 1
    /\ calls' = calls \cup {Call(t, f, "load")}
    /\ UNCHANGED <<requests, drafts, made, failures, trouble>>

Open(t) ==
    \/ OpenNew(t, EMPTY, 0)
    \/ \E d \in DOMAIN page[t].listed : OpenNew(t, page[t].listed[d], d)
    \/ \E r \in DOMAIN requests, mode \in {"edit", "view"} : OpenRequest(t, r, mode)

\* The form may be closed while its call is on the way.
Close(t) ==
    /\ Form(t) # NoForm
    /\ page' = WithForm(t, NoForm)
    /\ UNCHANGED <<requests, drafts, made, calls, forms, failures, trouble>>

RemoveDraft(t, d) ==
    LET left == Restrict(drafts, DOMAIN drafts \ {d}) IN
    /\ Form(t) = NoForm
    /\ d \in DOMAIN page[t].listed
    /\ drafts' = left
    /\ page' = [page EXCEPT ![t].listed = left]
    /\ UNCHANGED <<requests, made, calls, forms, failures, trouble>>

------------------------------------------------------------------------------
\* The form

MayType_TypeOpen(f, data) == f.mode \in {"new", "edit"} /\ ~f.loading

\* The type of a request is fixed once it is submitted.
MayType(f, data) ==
    /\ f.mode \in {"new", "edit"} /\ ~f.loading
    /\ f.mode = "edit" => data.type = f.data.type

Type(t, data) ==
    /\ MayType(Form(t), data)
    /\ data # Form(t).data
    /\ page' = WithForm(t, [Form(t) EXCEPT !.data = data])
    /\ UNCHANGED <<requests, drafts, made, calls, forms, failures, trouble>>

\* A draft that is no longer stored is saved under a new id.
DraftId(f) == IF f.draft \in DOMAIN drafts THEN f.draft ELSE made + 1

SaveDraft(t) ==
    LET f == Form(t)
        d == DraftId(f)
        saved == [x \in DOMAIN drafts \cup {d} |-> IF x = d THEN f.data ELSE drafts[x]] IN
    /\ f.mode = "new" /\ ~f.busy
    /\ d <= MaxDrafts
    /\ drafts' = saved
    /\ made' = IF d > made THEN d ELSE made
    /\ page' = [page EXCEPT ![t] = [form |-> [f EXCEPT !.draft = d], listed |-> saved]]
    /\ UNCHANGED <<requests, calls, forms, failures, trouble>>

validate(data) == data.type # Empty /\ data.text # Empty

MaySubmit(f) ==
    /\ f.mode \in {"new", "edit"} /\ ~f.loading /\ ~f.busy
    /\ validate(f.data)

Waits(t, c) ==
    /\ Cardinality(calls) < MaxCalls /\ failures[c.n] < MaxErrors
    /\ page' = WithForm(t, [Form(t) EXCEPT !.busy = TRUE])
    /\ calls' = calls \cup {c}
    /\ UNCHANGED <<requests, drafts, made, forms, failures, trouble>>

Submit(t) ==
    LET kind == IF Form(t).mode = "edit" THEN "update" ELSE "create" IN
    /\ MaySubmit(Form(t))
    /\ kind = "create" => Len(requests) + Cardinality({c \in calls : c.kind = "create"}) < MaxRequests
    /\ Waits(t, Call(t, Form(t), kind))

\* The date is later than the current end and a reason is given.  A request that is in
\* use stays so here, so the form shows its status.
AskForMoreTime(t) ==
    /\ Form(t).mode = "view" /\ Form(t).loaded /\ ~Form(t).busy
    /\ requests[Form(t).rid].status = "ACTIVE"
    /\ Waits(t, [Call(t, Form(t), "ask") EXCEPT !.end = "day"])

------------------------------------------------------------------------------
\* The backend

\* The pattern was written /^d{4}-d{2}-d{2}$/, with d for a digit.
MatchesPattern(end) == end = "dddd-dd-dd"
Parses(end) == end = "day"
ExtensionRequestSchema(end) == MatchesPattern(end) /\ Parses(end)

Takes(c) ==
    CASE c.kind = "load"   -> TRUE
      [] c.kind = "create" -> validate(c.data)
      [] c.kind = "update" -> /\ requests[c.rid].status = "PENDING"
                              /\ requests[c.rid].data.type = c.data.type
      [] c.kind = "ask"    -> /\ ExtensionRequestSchema(c.end)
                              /\ requests[c.rid].status = "ACTIVE"

\* The rows after a call that is taken.  The form and its draft are only recorded.
Effect(c) ==
    CASE c.kind = "create" -> Append(requests, [data |-> c.data, status |-> "PENDING",
                                                form |-> c.n, draft |-> c.draft])
      [] c.kind = "update" -> [requests EXCEPT ![c.rid].data = c.data]
      [] OTHER             -> requests

Serve(c) ==
    /\ c.answer = "none"
    /\ requests' = IF Takes(c) THEN Effect(c) ELSE requests
    /\ calls' = (calls \ {c}) \cup
         {[c EXCEPT !.answer = IF Takes(c) THEN "ok" ELSE "refused",
                    !.data = IF c.kind = "load" THEN requests[c.rid].data ELSE @]}
    /\ UNCHANGED <<drafts, made, page, forms, failures, trouble>>

\* The call, or its answer, does not arrive.
Lose(c) ==
    /\ c.answer # "lost" /\ trouble < MaxTrouble
    /\ calls' = (calls \ {c}) \cup {[c EXCEPT !.answer = "lost"]}
    /\ trouble' = trouble + 1
    /\ UNCHANGED <<requests, drafts, made, page, forms, failures>>

\* An approver decides, and what was approved is set up.
Decide(r, status) ==
    /\ requests[r].status = "PENDING"
    /\ requests' = [requests EXCEPT ![r].status = status]
    /\ UNCHANGED <<drafts, made, page, calls, forms, failures, trouble>>

------------------------------------------------------------------------------
\* The answers

Loaded(t, c) ==
    LET f == [Form(t) EXCEPT !.loading = FALSE]
        l == [f EXCEPT !.loaded = TRUE, !.data = c.data] IN
    IF ~Shows(t, c) THEN Form(t) ELSE IF c.answer = "ok" THEN l ELSE f

\* A form that waits is told of an error.
AfterFailure_StillBusy(f) == f
AfterFailure(f) == [f EXCEPT !.busy = FALSE]

DeletedWith_Always(c) == Restrict(drafts, DOMAIN drafts \ {c.draft})

\* handleDone: the draft of a request that was submitted is not needed any more.
DeletedWith(c) ==
    IF c.answer = "ok" THEN Restrict(drafts, DOMAIN drafts \ {c.draft}) ELSE drafts

\* The page after the answer to a submission.  Success closes the form that is open,
\* also when the form the answer is for was closed and another one opened since.
AfterSubmission(t, c) ==
    IF c.answer = "ok"
      THEN [form |-> NoForm, listed |-> IF c.kind = "create" THEN DeletedWith(c) ELSE page[t].listed]
      ELSE [page[t] EXCEPT !.form = IF Shows(t, c) THEN AfterFailure(@) ELSE @]

Answer(c) ==
    LET t == c.tab IN
    /\ c.answer # "none"
    /\ calls' = calls \ {c}
    /\ drafts' = IF c.kind = "create" THEN DeletedWith(c) ELSE drafts
    /\ page' = CASE c.kind = "load" -> WithForm(t, Loaded(t, c))
                 [] c.kind = "ask"  -> IF Shows(t, c) THEN WithForm(t, AfterFailure(Form(t))) ELSE page
                 [] OTHER           -> [page EXCEPT ![t] = AfterSubmission(t, c)]
    /\ failures' = IF c.answer # "ok" /\ Shows(t, c)
                     THEN [failures EXCEPT ![c.n] = @ + 1] ELSE failures
    /\ UNCHANGED <<requests, made, forms, trouble>>

------------------------------------------------------------------------------
Next ==
    \/ \E t \in Tabs : LoadPage(t) \/ Open(t) \/ Close(t) \/ SaveDraft(t) \/ Submit(t)
                       \/ AskForMoreTime(t)
    \/ \E t \in Tabs, d \in 1..MaxDrafts : RemoveDraft(t, d)
    \/ \E t \in Tabs, data \in Typed : Type(t, data)
    \/ \E c \in calls : Serve(c) \/ Lose(c) \/ Answer(c)
    \/ \E r \in DOMAIN requests, status \in Decisions : Decide(r, status)

Spec == Init /\ [][Next]_vars

------------------------------------------------------------------------------
\* Properties

\* A draft leaves the browser's storage only because the student deletes it, or once
\* the request it was submitted as is stored: not when the submission fails, and not
\* for a call whose request was lost.
DraftIsKeptUntilSubmitted ==
    [][\A d \in DOMAIN drafts \ DOMAIN drafts' :
          \/ \E t \in Tabs : RemoveDraft(t, d)
          \/ \E r \in DOMAIN requests : requests[r].draft = d]_vars

\* A request is changed only from a form that had loaded it: one whose loading failed
\* stays open, empty and editable, and cannot be saved over the request.
EditStartsFromTheRequest ==
    [][\A r \in DOMAIN requests :
          requests'[r].data # requests[r].data =>
              \E c \in calls : c.kind = "update" /\ c.rid = r /\ c.loaded]_vars

\* A form is busy, or loading, only as long as a call of its own is under way: no
\* answer, refusal or loss leaves it locked with nothing to wait for.
WaitsForItsCall ==
    \A t \in Tabs :
        /\ Form(t).busy => \E c \in calls : c.tab = t /\ Shows(t, c) /\ c.kind # "load"
        /\ Form(t).loading => \E c \in calls : c.tab = t /\ Shows(t, c) /\ c.kind = "load"

\* The backend refuses no ask for a request in use that names a day (validation.js:60:
\* "a later end date for a request in use").
AskIsTaken ==
    \A c \in calls : c.kind = "ask" /\ Parses(c.end) /\ requests[c.rid].status = "ACTIVE"
                        => c.answer # "refused"
==============================================================================
