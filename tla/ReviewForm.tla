------------------------------ MODULE ReviewForm ------------------------------
(***************************************************************************)
(* The approver's side of the web application: the form that shows a       *)
(* request with its overlapping requests and its automatic setup, offers   *)
(* the decisions that are possible, asks before an overlap is approved,    *)
(* and is kept current while a job runs; and the reviewer API behind it.   *)
(*                                                                         *)
(* The backend answers a call in one step (module RequestStore has what    *)
(* happens inside it).  The requests are of one student, for one type, and *)
(* their dates intersect.  Other approvers, the scheduler and the site act *)
(* on the same rows.  A comment is only a condition of a click and is left *)
(* out; asks for more time never reach the approver (module RequestForm).  *)
(***************************************************************************)
EXTENDS Naturals, FiniteSets

CONSTANTS
    Requests,    \* the student's requests
    Automated,   \* those that are set up automatically
    MaxForms,    \* bound: forms opened
    MaxCalls,    \* bound: calls under way
    MaxJobs,     \* bound: jobs queued
    MaxTrouble   \* bound: calls lost

ASSUME RequestsAssumption == Automated \subseteq Requests
ASSUME BoundsAssumption ==
    MaxForms \in Nat /\ MaxCalls \in Nat /\ MaxJobs \in Nat /\ MaxTrouble \in Nat

VARIABLES
    rows,     \* the requests with their latest CREATE and REVOKE jobs
    form,     \* the form that is open
    calls,    \* calls to the API that have not been answered to the form
    forms,    \* forms opened so far
    jobs,     \* jobs queued so far
    trouble   \* calls lost so far

vars == <<rows, form, calls, forms, jobs, trouble>>

None == "none"
Statuses == {"PENDING", "APPROVED", "REJECTED", "ACTIVE", "COMPLETED"}
JobStatuses == {"Queued", "Sent", "Succeeded", "Failed"}
Running == {"Queued", "Sent"}

\* A request before it is submitted.
NoRow == [status |-> None, create |-> None, revoke |-> None]
Rows == [status : Statuses \cup {None}, create : JobStatuses \cup {None},
         revoke : JobStatuses \cup {None}]

NoDetail == [row |-> NoRow, overlaps |-> {}]
NoForm == [n |-> 0, rid |-> None, detail |-> NoDetail, loading |-> FALSE, confirming |-> FALSE, busy |-> FALSE]

Init ==
    /\ rows = [r \in Requests |-> NoRow]
    /\ form = NoForm
    /\ calls = {}
    /\ forms = 0 /\ jobs = 0 /\ trouble = 0

------------------------------------------------------------------------------
\* The reviewer API

Live == {"PENDING", "APPROVED", "ACTIVE"}
findOverlaps(r) == {x \in Requests \ {r} : rows[x].status \in Live}

\* Overlaps are listed for every request; the form looks at those of a pending one alone.
getRequestForReview(r) ==
    [row |-> rows[r], overlaps |-> IF rows[r].status = "PENDING" THEN findOverlaps(r) ELSE {}]

\* The latest job of a request: a removal comes after every set-up.
LastJob(row) == IF row.revoke # None THEN row.revoke ELSE row.create

ActivationAllowed_WhileRunning(row) == TRUE
ActivationAllowed(row) == row.create \in {None, "Failed"}

\* What the service accepts, an overlap apart.
Allowed(action, row) ==
    CASE action \in {"approve", "reject"} -> row.status = "PENDING"
      [] action = "activate" -> row.status = "APPROVED" /\ ActivationAllowed(row)
      [] action = "complete" -> row.status = "ACTIVE"
      [] action = "retry"    -> /\ LastJob(row) = "Failed"
                                /\ row.revoke = None => row.status = "APPROVED"

\* A request that was set up automatically is removed by one job, again if the last failed.
Revoke(row) ==
    IF row.create # None /\ row.revoke \in {None, "Failed"} THEN "Queued" ELSE row.revoke

After(action, r) ==
    LET row == rows[r] IN
    CASE action = "approve"  -> [row EXCEPT !.status = "APPROVED",
                                            !.create = IF r \in Automated THEN "Queued" ELSE @]
      [] action = "reject"   -> [row EXCEPT !.status = "REJECTED"]
      [] action = "activate" -> [row EXCEPT !.status = "ACTIVE"]
      [] action = "complete" -> [row EXCEPT !.status = "COMPLETED",
                                            !.revoke = Revoke(row)]
      [] action = "retry"    -> IF row.revoke = None THEN [row EXCEPT !.create = "Queued"]
                                                     ELSE [row EXCEPT !.revoke = "Queued"]

\* A decision queues at most one job.
NewJobs(r, row) ==
    IF \/ row.create = "Queued" /\ rows[r].create # "Queued"
       \/ row.revoke = "Queued" /\ rows[r].revoke # "Queued"
      THEN 1 ELSE 0

MustConfirm_Never(r, confirm) == FALSE
MustConfirm(r, confirm) == findOverlaps(r) # {} /\ ~confirm

Apply(action, r) ==
    /\ Allowed(action, rows[r])
    /\ jobs + NewJobs(r, After(action, r)) <= MaxJobs
    /\ rows' = [rows EXCEPT ![r] = After(action, r)]
    /\ jobs' = jobs + NewJobs(r, After(action, r))

------------------------------------------------------------------------------
\* The form

\* The decisions the footer offers for a request.
Offers(row) ==
    CASE row.status = "PENDING" -> {"approve", "reject"}
      [] row.status = "APPROVED" /\ row.create = "Failed" -> {"activate", "retry"}
      [] row.status = "APPROVED" /\ row.create = None -> {"activate"}
      [] row.status \notin {"PENDING", "APPROVED"} /\ row.revoke = "Failed" -> {"retry"}
      [] row.status = "ACTIVE" /\ row.revoke # "Failed" -> {"complete"}
      [] OTHER -> {}

\* While the question is shown only the approval is offered, or Back.
Offered(f) == IF f.detail.row.status = "PENDING" /\ f.confirming THEN {"approve"}
              ELSE Offers(f.detail.row)

\* The overlaps on the screen.
overlaps(f) == IF f.detail.row.status = "PENDING" THEN f.detail.overlaps ELSE {}

Call(f, kind) == [n |-> f.n, rid |-> f.rid, kind |-> kind, confirm |-> f.confirming,
                  saw |-> overlaps(f), answer |-> None, detail |-> NoDetail]

Open(r) ==
    LET f == [NoForm EXCEPT !.n = forms + 1, !.rid = r, !.loading = TRUE] IN
    /\ form = NoForm /\ forms < MaxForms /\ Cardinality(calls) < MaxCalls
    /\ rows[r].status # None
    /\ form' = f
    /\ forms' = f.n
    /\ calls' = calls \cup {Call(f, "load")}
    /\ UNCHANGED <<rows, jobs, trouble>>

\* The form may be closed while its call is on the way.
Close ==
    /\ form # NoForm
    /\ form' = NoForm
    /\ UNCHANGED <<rows, calls, forms, jobs, trouble>>

\* Approving with overlaps on the screen first asks.
AskFirst(action) == action = "approve" /\ overlaps(form) # {} /\ ~form.confirming

Confirm ==
    /\ "approve" \in Offered(form) /\ ~form.busy
    /\ AskFirst("approve")
    /\ form' = [form EXCEPT !.confirming = TRUE]
    /\ UNCHANGED <<rows, calls, forms, jobs, trouble>>

Back ==
    /\ form.confirming /\ ~form.busy
    /\ form' = [form EXCEPT !.confirming = FALSE]
    /\ UNCHANGED <<rows, calls, forms, jobs, trouble>>

Review(action) ==
    /\ action \in Offered(form) /\ ~form.busy
    /\ ~AskFirst(action)
    /\ Cardinality(calls) < MaxCalls
    /\ form' = [form EXCEPT !.busy = TRUE]
    /\ calls' = calls \cup {Call(form, action)}
    /\ UNCHANGED <<rows, forms, jobs, trouble>>

setupRunning_Queued(f) == LastJob(f.detail.row) = "Queued"
setupRunning(f) == LastJob(f.detail.row) \in Running

\* Every five seconds, whether or not the last poll was answered.
Poll ==
    /\ setupRunning(form)
    /\ Cardinality(calls) < MaxCalls
    /\ calls' = calls \cup {Call(form, "poll")}
    /\ UNCHANGED <<rows, form, forms, jobs, trouble>>

------------------------------------------------------------------------------
\* The calls

Reads == {"load", "poll", "reread"}
Actions == {"approve", "reject", "activate", "complete", "retry"}

Answered(c, answer, detail) ==
    calls' = (calls \ {c}) \cup {[c EXCEPT !.answer = answer, !.detail = detail]}

Read(c) ==
    /\ c.kind \in Reads
    /\ Answered(c, "ok", getRequestForReview(c.rid))
    /\ UNCHANGED <<rows, jobs>>

Asked(c) == c.kind = "approve" /\ MustConfirm(c.rid, c.confirm)

Do(c) ==
    /\ c.kind \in Actions /\ ~Asked(c)
    /\ Apply(c.kind, c.rid)
    /\ Answered(c, "ok", NoDetail)

\* 409 with the overlaps there are now.
AnswerOverlaps(c) ==
    /\ Allowed("approve", rows[c.rid]) /\ Asked(c)
    /\ Answered(c, "overlaps", getRequestForReview(c.rid))
    /\ UNCHANGED <<rows, jobs>>

Refuse(c) ==
    /\ c.kind \in Actions /\ ~Allowed(c.kind, rows[c.rid])
    /\ Answered(c, "refused", NoDetail)
    /\ UNCHANGED <<rows, jobs>>

Serve(c) ==
    /\ c.answer = None
    /\ Read(c) \/ Do(c) \/ AnswerOverlaps(c) \/ Refuse(c)
    /\ UNCHANGED <<form, forms, trouble>>

\* The call, or its answer, does not arrive.
Lose(c) ==
    /\ c.answer # "lost" /\ trouble < MaxTrouble
    /\ Answered(c, "lost", NoDetail)
    /\ trouble' = trouble + 1
    /\ UNCHANGED <<rows, form, forms, jobs>>

\* What an answer does to the form it is for.
Shown(f, c) == [f EXCEPT !.detail = IF c.answer = "ok" THEN c.detail ELSE @]

\* An error is shown; overlaps are shown, and the question with them.
NotDone(f, c) ==
    LET free == [f EXCEPT !.busy = FALSE] IN
    IF c.answer = "overlaps"
      THEN [free EXCEPT !.detail.overlaps = c.detail.overlaps, !.confirming = TRUE]
      ELSE free

\* The answer to a call of the form itself.
AfterOwnAnswer(f, c) ==
    CASE c.kind = "load"                 -> [Shown(f, c) EXCEPT !.loading = FALSE]
      [] c.kind = "poll"                 -> Shown(f, c)
      [] c.kind = "reread"               -> [Shown(f, c) EXCEPT !.busy = FALSE]
      [] c.kind = "retry" /\ c.answer = "ok" -> f
      [] OTHER                           -> NotDone(f, c)

\* A decision that was taken closes the form that is open, whichever it is.
AfterAnswer(f, c) ==
    IF c.kind \in Actions \ {"retry"} /\ c.answer = "ok" THEN NoForm
    ELSE IF f.n # c.n THEN f ELSE AfterOwnAnswer(f, c)

\* After a retry the request is read again.
Answer(c) ==
    /\ c.answer # None
    /\ form' = IF form = NoForm THEN form ELSE AfterAnswer(form, c)
    /\ calls' = (calls \ {c}) \cup
         (IF c.kind = "retry" /\ c.answer = "ok"
            THEN {[c EXCEPT !.kind = "reread", !.answer = None]} ELSE {})
    /\ UNCHANGED <<rows, forms, jobs, trouble>>

------------------------------------------------------------------------------
\* The others

Submit(r) ==
    /\ rows[r].status = None
    /\ rows' = [rows EXCEPT ![r].status = "PENDING"]
    /\ UNCHANGED <<form, calls, forms, jobs, trouble>>

\* Another approver.
Elsewhere(r) ==
    /\ \E action \in Actions : Apply(action, r)
    /\ UNCHANGED <<form, calls, forms, trouble>>

\* The end date of a request in use has passed: its access is to be removed, once; the request
\* stays in use until the removal succeeds.
Expire(r) ==
    /\ rows[r].status = "ACTIVE" /\ rows[r].revoke = None
    /\ Revoke(rows[r]) = "Queued" /\ jobs < MaxJobs
    /\ rows' = [rows EXCEPT ![r].revoke = "Queued"]
    /\ jobs' = jobs + 1
    /\ UNCHANGED <<form, calls, forms, trouble>>

\* A set-up that succeeded puts the request in use, a removal that succeeded completes it.
Moved(row, next) ==
    IF row.revoke # None
      THEN [row EXCEPT !.revoke = next,
                       !.status = IF next = "Succeeded" THEN "COMPLETED" ELSE @]
      ELSE [row EXCEPT !.create = next,
                     !.status = IF next = "Succeeded" /\ row.status = "APPROVED" THEN "ACTIVE" ELSE @]

\* A job is sent, or has its outcome.
JobMoves(r) ==
    /\ \E next \in {"Sent", "Succeeded", "Failed"} :
          /\ LastJob(rows[r]) = (IF next = "Sent" THEN "Queued" ELSE "Sent")
          /\ rows' = [rows EXCEPT ![r] = Moved(@, next)]
    /\ UNCHANGED <<form, calls, forms, jobs, trouble>>

Next ==
    \/ \E r \in Requests : Open(r) \/ Submit(r) \/ Elsewhere(r) \/ Expire(r) \/ JobMoves(r)
    \/ Close \/ Confirm \/ Back \/ Poll
    \/ \E action \in Actions : Review(action)
    \/ \E c \in calls : Serve(c) \/ Lose(c) \/ Answer(c)

\* The timer fires, the backend answers, the browser hands the answer to the page (an approver
\* who clicks again and again does not keep the polls from either), and a job has its outcome
\* (modules JobExchange and RequestStore).
Fairness ==
    /\ WF_vars(Poll)
    /\ \A kinds \in {Reads, Actions} :
          /\ WF_vars(\E c \in calls : c.kind \in kinds /\ Serve(c))
          /\ WF_vars(\E c \in calls : c.kind \in kinds /\ Answer(c))
    /\ \A r \in Requests : WF_vars(JobMoves(r))

Spec == Init /\ [][Next]_vars /\ Fairness

------------------------------------------------------------------------------
\* Properties

\* The decisions the services take on a request as it is.
Taken(row) == {a \in Actions : Allowed(a, row)}

\* The removal of access at the end date has failed; the request is still in use.
RemovalFailed(row) == row.status = "ACTIVE" /\ row.revoke = "Failed"

\* The footer and the services agree: for a request as it is, the form offers exactly the
\* decisions the backend takes (an approval perhaps after its question), so no button of a
\* current view ends in an error, and no failed job is left without its button.  One choice is
\* kept back: a request whose removal failed at its end date could be completed, but the footer
\* offers the retry alone, and its success completes the request (RequestFormModal.jsx:337).
OffersAreTheChoices ==
    \A r \in Requests : rows[r].status # None =>
        Offers(rows[r]) = Taken(rows[r]) \ (IF RemovalFailed(rows[r]) THEN {"complete"} ELSE {})

\* D28: an approval of a request that overlaps others was confirmed by a second click, on a
\* screen that listed overlaps: also when the other request was submitted after the form
\* was opened.  (Which ones it listed may have changed since.)
OverlapsAreConfirmed ==
    [][\A c \in calls : Do(c) /\ c.kind = "approve" /\ findOverlaps(c.rid) # {}
          => c.confirm /\ c.saw # {}]_vars

\* A view that shows a running job is closed, or comes to show that the job is over: the
\* polls go on until then, whatever order they are answered in (RequestFormModal.jsx,
\* "keep the approver's view of it current").
RunningViewMovesOn ==
    \A n \in 1..MaxForms :
        form.n = n /\ LastJob(form.detail.row) \in Running
            ~> form.n # n \/ LastJob(form.detail.row) \notin Running
==============================================================================
