---------------------------- MODULE RequestStore ----------------------------
(***************************************************************************)
(* The backend's database and everything that writes it: the request rows, *)
(* the provisioning outbox (provision_job), the append-only event log      *)
(* (request_event), the dispatcher, the result consumer and the scheduler. *)
(*                                                                         *)
(* MySQL runs at its default isolation level, REPEATABLE READ.  The plain  *)
(* reads of a transaction all come from the snapshot its first plain read  *)
(* takes, while UPDATE ... WHERE and SELECT ... FOR UPDATE see (and lock)  *)
(* the latest committed rows.  An operation is therefore two steps: Begin  *)
(* reads the snapshot and plans the writes, Commit evaluates the guarded   *)
(* updates on the current rows and makes all the writes at once.  Between  *)
(* them other transactions commit, days pass, or the transaction aborts    *)
(* (a guard that fails, a deadlock, Prisma's timeout, a crash).  A         *)
(* transaction that locks before its first plain read is one step.         *)
(***************************************************************************)
EXTENDS Integers, Sequences, FiniteSets

CONSTANTS
    Requests,      \* the request ids that may be used
    StudentOf,     \* the student_uid of each request
    Automated,     \* the requests for AUTOMATED_RESOURCES, provisioning being on
    Clients,       \* API and result-consumer transactions that may be open at once
    Schedulers,    \* backend tasks that run the scheduler loop
    Nobody,        \* the owner of a lease that has lapsed
    LastDay,       \* bound: the days are 1..LastDay
    ReminderDays,  \* EXPIRY_REMINDER_DAYS
    NumForms,      \* bound: contents the student's extra_details may have
    Ops,           \* the operations (by the event they log) that this instance runs
    MaxOutlived,   \* bound: passes that go on after their lease
    MaxJobs,       \* bound: jobs per request
    MaxEvents      \* bound: logged events per request

ASSUME SetsAssumption ==
    /\ Automated \subseteq Requests
    /\ Nobody \notin Schedulers
    /\ IsFiniteSet(Schedulers)
    /\ Clients \cap Schedulers = {}

ASSUME BoundsAssumption ==
    /\ LastDay \in Nat \ {0}
    /\ ReminderDays \in Nat
    /\ NumForms \in Nat \ {0}
    /\ MaxOutlived \in Nat
    /\ MaxJobs \in Nat
    /\ MaxEvents \in Nat

VARIABLES
    request,    \* the request rows
    jobs,       \* the provision_job rows of each request, in created_at order
    log,        \* the request_event rows of each request, in eid order
    published,  \* the jobs, <<rid, index>>, the broker has been given at least once
    today,      \* the calendar day at the site
    tx,         \* the open transaction of each client and scheduler
    pass,       \* the scheduler pass each task is in
    lease       \* the scheduler_lease row

db == <<request, jobs, log>>
vars == <<request, jobs, log, published, today, tx, pass, lease>>

-----------------------------------------------------------------------------
(* The tables *)

Days == 1..LastDay
Forms == 1..NumForms
Procs == Clients \cup Schedulers

Statuses == {"None", "Pending", "Approved", "Rejected", "On_Use", "Completed"}
ActiveJob == {"Queued", "Sent"}
JobActions == {"CREATE", "REVOKE", "EXTEND"}

\* end: end_date; ask: the end date in extra_details.extension; extras: the
\* rest of extra_details.  0: there is none ("None": the row is not there).
Row == [status: Statuses, end: 0..LastDay, ask: 0..LastDay, extras: 0..NumForms]

\* end: payload.period.end; revokeVpn: payload.revokeVpn.
Job == [action: JobActions, status: ActiveJob \cup {"Succeeded", "Failed"},
        end: 0..LastDay, revokeVpn: BOOLEAN]
NoJob == [action |-> "NONE"]

ResultEvent(action, ok) ==
    CASE action = "CREATE" -> IF ok THEN "PROVISIONED" ELSE "PROVISION_FAILED"
      [] action = "REVOKE" -> IF ok THEN "REVOKED" ELSE "REVOKE_FAILED"
      [] action = "EXTEND" -> IF ok THEN "EXTENDED" ELSE "EXTEND_FAILED"

Transitions == {"APPROVED", "REJECTED", "ACTIVATED", "COMPLETED"}
Decisions == {"EXTENSION_APPROVED", "EXTENSION_REJECTED"}
Successes == {"PROVISIONED", "REVOKED", "EXTENDED"}
Failures == {"PROVISION_FAILED", "REVOKE_FAILED", "EXTEND_FAILED"}
Marks == {"REMINDED", "EXPIRED"}
Events == Transitions \cup Decisions \cup Successes \cup Failures \cup Marks
            \cup {"CREATED", "EDITED", "RETRIED", "EXTENSION_REQUESTED"}

ASSUME OpsAssumption == Ops \subseteq Events

Entry == [event: Events, from: Statuses, to: Statuses, end: 0..LastDay]

\* What an open transaction has read and is about to write: the event, the
\* status it read and the one it sets, the job it inserts (job) or finishes
\* (k), the end date and extra_details it writes or logs.
Txn == [event: Events, rid: Requests, from: Statuses, to: Statuses,
        job: Job \cup {NoJob}, k: 0..MaxJobs, end: 0..LastDay, extras: 0..NumForms]
Idle == [event |-> "IDLE"]

\* day: siteToday() when the pass began; todo: what the step's listing found.
Pass == [step: {"off", "REMINDED", "EXPIRED"}, day: Days, todo: SUBSET Requests]

\* owner: Nobody once lease_until has passed; outlived (history): how many passes
\* have gone on after their lease.
Lease == [owner: Schedulers \cup {Nobody}, outlived: 0..MaxOutlived]

Init ==
    /\ request = [r \in Requests |-> [status |-> "None", end |-> 0, ask |-> 0, extras |-> 0]]
    /\ jobs = [r \in Requests |-> <<>>]
    /\ log = [r \in Requests |-> <<>>]
    /\ published = {}
    /\ today = 1
    /\ tx = [p \in Procs |-> Idle]
    /\ pass = [s \in Schedulers |-> [step |-> "off", day |-> 1, todo |-> {}]]
    /\ lease = [owner |-> Nobody, outlived |-> 0]

-----------------------------------------------------------------------------
(* What the services read, evaluated when the snapshot is taken *)

Has(r, action, statuses) ==
    \E i \in DOMAIN jobs[r] : jobs[r][i].action = action /\ jobs[r][i].status \in statuses

AnyStatus == ActiveJob \cup {"Succeeded", "Failed"}

\* acc-prov-vm set the request up: a GPU row has its node from the update that
\* queued the CREATE job, a Big Data row is known by that job.
SetUpAutomatically(r) == r \in Automated /\ Has(r, "CREATE", AnyStatus)

KeepsVpn(r) ==
    \E q \in Requests \ {r} :
        /\ StudentOf[q] = StudentOf[r]
        /\ \/ request[q].status = "On_Use"
           \/ request[q].status = "Approved" /\ q \in Automated

NewJob(action, end, revokeVpn) ==
    [action |-> action, status |-> "Queued", end |-> end, revokeVpn |-> revokeVpn]

\* Mutant: queues the setup only for what is set up already.
CreateJob_WhenSetUp(r) ==
    IF SetUpAutomatically(r) THEN NewJob("CREATE", request[r].end, FALSE) ELSE NoJob

CreateJob(r) == IF r \in Automated THEN NewJob("CREATE", request[r].end, FALSE) ELSE NoJob

\* Mutant: the count of pending jobs forgets the action.
RevokeJob_AnyPending(r) ==
    IF SetUpAutomatically(r) /\ \A i \in DOMAIN jobs[r] : jobs[r][i].status = "Failed"
    THEN NewJob("REVOKE", 0, ~KeepsVpn(r))
    ELSE NoJob

RevokeJob(r) ==
    IF SetUpAutomatically(r) /\ ~Has(r, "REVOKE", AnyStatus \ {"Failed"})
    THEN NewJob("REVOKE", 0, ~KeepsVpn(r))
    ELSE NoJob

ExtendJob(r, end) == IF SetUpAutomatically(r) THEN NewJob("EXTEND", end, FALSE) ELSE NoJob

\* Mutant: Activate is not held back while the site may still answer.
ManualActivationAllowed_Always(r) == TRUE

\* The latest CREATE job, if there is one, is Failed.
ManualActivationAllowed(r) ==
    r \in Automated =>
        \A i \in DOMAIN jobs[r] :
            \/ jobs[r][i].action # "CREATE"
            \/ jobs[r][i].status = "Failed"
            \/ \E j \in DOMAIN jobs[r] : j > i /\ jobs[r][j].action = "CREATE"

StillRunning(r) == request[r].status = "On_Use" /\ request[r].end >= today

\* Mutant: looks for a mark of the day's date.
Marked_Today(r, mark) == \E i \in DOMAIN log[r] : log[r][i].event = mark /\ log[r][i].end = today

\* The scheduler's own record that it did this for the current end date.
Marked(r, mark) ==
    \E i \in DOMAIN log[r] : log[r][i].event = mark /\ log[r][i].end = request[r].end

-----------------------------------------------------------------------------
(* Transactions *)

Plan(event, r, to) ==
    [event |-> event, rid |-> r, from |-> request[r].status, to |-> to, job |-> NoJob,
     k |-> 0, end |-> 0, extras |-> request[r].extras]

Begin(p, w) ==
    /\ tx[p] = Idle
    /\ w.event \in Ops
    /\ tx' = [tx EXCEPT ![p] = w]
    /\ UNCHANGED <<db, published, today, pass, lease>>

\* Mutant: inserts the job row without asking whether there is a job.
Queue_Always(r, job) == Append(jobs[r], job)

Queue(r, job) == IF job = NoJob THEN jobs[r] ELSE Append(jobs[r], job)

LogEvent(r, entry) ==
    /\ Len(log[r]) < MaxEvents
    /\ log' = [log EXCEPT ![r] = Append(@, entry)]

\* Mutant: an UPDATE by rid only, as if the snapshot's status still held.
UpdateMatches_Stale(r, status) == TRUE

\* UPDATE request ... WHERE rid = r AND status = ...: it sees the latest row.
UpdateMatches(r, status) == request[r].status = status

\* The writes of p's transaction, which ends: its row, its jobs, its event.
Write(p, row, js) ==
    LET w == tx[p] IN
    /\ Len(js) <= MaxJobs
    /\ request' = [request EXCEPT ![w.rid] = row]
    /\ jobs' = [jobs EXCEPT ![w.rid] = js]
    /\ LogEvent(w.rid, [event |-> w.event, from |-> w.from, to |-> w.to, end |-> w.end])
    /\ tx' = [tx EXCEPT ![p] = Idle]
    /\ UNCHANGED <<published, today, lease>>

\* An error, a guarded update that matched no row, a deadlock, a timeout or a
\* crash before the commit: nothing is written.
Abort(c) ==
    /\ tx[c] # Idle
    /\ tx' = [tx EXCEPT ![c] = Idle]
    /\ UNCHANGED <<db, published, today, pass, lease>>

-----------------------------------------------------------------------------
(* The student (request.service.js) *)

CreateRequest(r, d, f) ==
    /\ request[r].status = "None"
    /\ request' = [request EXCEPT ![r] = [status |-> "Pending", end |-> d, ask |-> 0, extras |-> f]]
    /\ LogEvent(r, [event |-> "CREATED", from |-> "None", to |-> "Pending", end |-> 0])
    /\ UNCHANGED <<jobs, published, today, tx, pass, lease>>

\* An edit that changes nothing logs nothing, so it is left out.
EditRequest(c, r, d, f) ==
    /\ request[r].status = "Pending"
    /\ d # request[r].end \/ f # request[r].extras
    /\ Begin(c, [Plan("EDITED", r, "Pending") EXCEPT !.end = d, !.extras = f])

CommitEdit(c) ==
    LET w == tx[c] IN
    /\ w.event = "EDITED"
    /\ UpdateMatches(w.rid, "Pending")
    /\ Write(c, [request[w.rid] EXCEPT !.end = w.end, !.extras = w.extras], jobs[w.rid])
    /\ UNCHANGED pass

-----------------------------------------------------------------------------
(* The approver's transitions (reviewer.service.js) *)

ApproveRequest(c, r) ==
    /\ request[r].status = "Pending"
    /\ Begin(c, [Plan("APPROVED", r, "Approved") EXCEPT !.job = CreateJob(r)])

RejectRequest(c, r) ==
    /\ request[r].status = "Pending"
    /\ Begin(c, Plan("REJECTED", r, "Rejected"))

ActivateRequest(c, r) ==
    /\ request[r].status = "Approved"
    /\ ManualActivationAllowed(r)
    /\ Begin(c, Plan("ACTIVATED", r, "On_Use"))

CompleteRequest(c, r) ==
    /\ request[r].status = "On_Use"
    /\ Begin(c, [Plan("COMPLETED", r, "Completed") EXCEPT !.job = RevokeJob(r)])

\* Approve and reject carry a comment, so they write extra_details back as the
\* snapshot had it, with the comment; activate and complete leave it alone.
CommitTransition(c) ==
    LET w == tx[c]
        row == request[w.rid]
        extras == IF w.event \in {"APPROVED", "REJECTED"} THEN w.extras ELSE row.extras
    IN
    /\ w.event \in Transitions
    /\ UpdateMatches(w.rid, w.from)
    /\ Write(c, [row EXCEPT !.status = w.to, !.extras = extras], Queue(w.rid, w.job))
    /\ UNCHANGED pass

-----------------------------------------------------------------------------
(* Extensions (extension.service.js) *)

\* Locks the row before it reads, so it reads the row it writes.
RequestExtension(r, d) ==
    /\ "EXTENSION_REQUESTED" \in Ops
    /\ StillRunning(r)
    /\ request[r].ask = 0
    /\ d > request[r].end
    /\ request' = [request EXCEPT ![r].ask = d]
    /\ LogEvent(r, [event |-> "EXTENSION_REQUESTED", from |-> "On_Use", to |-> "On_Use", end |-> d])
    /\ UNCHANGED <<jobs, published, today, tx, pass, lease>>

\* Reads the approver before it locks the row: what it decides on is the
\* snapshot, and its update has no guard.
DecideExtension(c, r, approve) ==
    LET w == [Plan("EXTENSION_REJECTED", r, request[r].status) EXCEPT !.end = request[r].ask] IN
    /\ request[r].ask # 0
    /\ approve => StillRunning(r)
    /\ Begin(c, IF approve
                THEN [w EXCEPT !.event = "EXTENSION_APPROVED", !.job = ExtendJob(r, w.end)]
                ELSE w)

\* Mutant: grants the ask in the row at the commit, and not the one decided on.
DecidedEnd_FromRow(w, end) == IF w.event = "EXTENSION_APPROVED" THEN request[w.rid].ask ELSE end

DecidedEnd(w, end) == IF w.event = "EXTENSION_APPROVED" THEN w.end ELSE end

CommitDecision(c) ==
    LET w == tx[c]
        row == request[w.rid]
    IN
    /\ w.event \in Decisions
    /\ Write(c, [row EXCEPT !.end = DecidedEnd(w, @), !.ask = 0, !.extras = w.extras],
             Queue(w.rid, w.job))
    /\ UNCHANGED pass

-----------------------------------------------------------------------------
(* The outbox (provisioning.service.js) *)

\* The send succeeds and the transaction that held the job's row commits.
Dispatch(r, k) ==
    /\ k \in DOMAIN jobs[r]
    /\ jobs[r][k].status = "Queued"
    /\ jobs' = [jobs EXCEPT ![r][k].status = "Sent"]
    /\ published' = published \cup {<<r, k>>}
    /\ UNCHANGED <<request, log, today, tx, pass, lease>>

\* The send succeeds but the transaction does not commit: the job is still
\* Queued and will be sent again.
DispatchRolledBack(r, k) ==
    /\ k \in DOMAIN jobs[r]
    /\ jobs[r][k].status = "Queued"
    /\ published' = published \cup {<<r, k>>}
    /\ UNCHANGED <<db, today, tx, pass, lease>>

\* The new job has a new id; only a CREATE keeps the period of the failed one.
RetriedPeriod(r) ==
    LET last == jobs[r][Len(jobs[r])] IN
    CASE last.action = "CREATE" -> last.end
      [] last.action = "EXTEND" -> request[r].end
      [] last.action = "REVOKE" -> 0

RetryProvisioning(c, r) ==
    LET last == jobs[r][Len(jobs[r])] IN
    /\ jobs[r] # <<>>
    /\ last.status = "Failed"
    /\ last.action = "CREATE" => request[r].status = "Approved"
    /\ last.action = "EXTEND" => request[r].status = "On_Use"
    /\ Begin(c, [Plan("RETRIED", r, request[r].status) EXCEPT
                   !.job = NewJob(last.action, RetriedPeriod(r), last.action = "REVOKE" /\ ~KeepsVpn(r))])

CommitRetry(c) ==
    LET w == tx[c] IN
    /\ w.event = "RETRIED"
    /\ Write(c, request[w.rid], Queue(w.rid, w.job))
    /\ UNCHANGED pass

\* acc-prov-vm may answer a job it was given more than once, in any order, and
\* not always the same way.
HandleResult(c, r, k, ok) ==
    LET job == jobs[r][k]
        to == CASE ok /\ job.action = "CREATE" /\ request[r].status = "Approved" -> "On_Use"
                [] ok /\ job.action = "REVOKE" /\ request[r].status = "On_Use" -> "Completed"
                [] OTHER -> request[r].status
    IN
    /\ <<r, k>> \in published
    /\ k \in DOMAIN jobs[r]
    /\ Begin(c, [Plan(ResultEvent(job.action, ok), r, to) EXCEPT !.k = k])

\* The broker gave up on the job or on its answer, or no answer came in time.
FailJob(c, r, k) ==
    /\ <<r, k>> \in published
    /\ k \in DOMAIN jobs[r]
    /\ Begin(c, [Plan(ResultEvent(jobs[r][k].action, FALSE), r, request[r].status) EXCEPT !.k = k])

\* Mutant: an UPDATE by job_id only.
Unanswered_Any(r, k) == TRUE

\* Mutant: an outcome finds only the jobs that were not sent.
Unanswered_QueuedOnly(r, k) == jobs[r][k].status = "Queued"

\* UPDATE provision_job ... WHERE job_id = ... AND status IN (Queued, Sent).
Unanswered(r, k) == jobs[r][k].status \in ActiveJob

\* The job's first outcome counts; a move of the request has to find the status
\* it was planned on, or all is rolled back and the message comes again.
CommitOutcome(c) ==
    LET w == tx[c]
        row == request[w.rid]
        outcome == IF w.event \in Successes THEN "Succeeded" ELSE "Failed"
    IN
    /\ w.event \in Successes \cup Failures
    /\ Unanswered(w.rid, w.k)
    /\ w.to # w.from => UpdateMatches(w.rid, w.from)
    /\ Write(c, IF w.to # w.from THEN [row EXCEPT !.status = w.to] ELSE row,
             [jobs[w.rid] EXCEPT ![w.k].status = outcome])
    /\ UNCHANGED pass

-----------------------------------------------------------------------------
(* The scheduler (scheduler.service.js) *)

\* withoutEvent(): what the two steps of a pass list, for the day the pass
\* began on.
Ending(day) ==
    {r \in Requests : /\ ReminderDays # 0
                      /\ request[r].status = "On_Use"
                      /\ request[r].end \in day..(day + ReminderDays)
                      /\ ~Marked(r, "REMINDED")}

\* Mutant: expects a pass on the day after every end date.
Ended_Yesterday(day) ==
    {r \in Requests : /\ request[r].status = "On_Use"
                      /\ request[r].end = day - 1
                      /\ ~Marked(r, "EXPIRED")}

Ended(day) ==
    {r \in Requests : /\ request[r].status = "On_Use"
                      /\ request[r].end < day
                      /\ ~Marked(r, "EXPIRED")}

\* Mutant: takes the lease whoever owns it.
StartPass_AnyLease(s) ==
    /\ Marks \cap Ops # {}
    /\ pass[s].step = "off"
    /\ lease' = [lease EXCEPT !.owner = s]
    /\ pass' = [pass EXCEPT ![s] = [step |-> "REMINDED", day |-> today,
                                    todo |-> IF "REMINDED" \in Ops THEN Ending(today) ELSE {}]]
    /\ UNCHANGED <<db, published, today, tx>>

\* Takes or renews the lease, notes the day and lists the requests to remind.
StartPass(s) ==
    /\ Marks \cap Ops # {}
    /\ pass[s].step = "off"
    /\ lease.owner \in {Nobody, s}
    /\ lease' = [lease EXCEPT !.owner = s]
    /\ pass' = [pass EXCEPT ![s] = [step |-> "REMINDED", day |-> today,
                                    todo |-> IF "REMINDED" \in Ops THEN Ending(today) ELSE {}]]
    /\ UNCHANGED <<db, published, today, tx>>

ListEnded(s) ==
    /\ pass[s].step = "REMINDED"
    /\ pass[s].todo = {}
    /\ pass' = [pass EXCEPT ![s].step = "EXPIRED",
                            ![s].todo = IF "EXPIRED" \in Ops THEN Ended(pass[s].day) ELSE {}]
    /\ UNCHANGED <<db, published, today, tx, lease>>

EndPass(s) ==
    /\ pass[s].step = "EXPIRED"
    /\ pass[s].todo = {}
    /\ pass' = [pass EXCEPT ![s] = [step |-> "off", day |-> 1, todo |-> {}]]
    /\ UNCHANGED <<db, published, today, tx, lease>>

\* systemEvent() checks the status and the mark again, but not the dates that
\* put the request on the list.
SystemEvent(s, r) ==
    LET mark == pass[s].step IN
    /\ r \in pass[s].todo
    /\ request[r].status = "On_Use"
    /\ ~Marked(r, mark)
    /\ Begin(s, [Plan(mark, r, "On_Use") EXCEPT
                   !.end = request[r].end,
                   !.job = IF mark = "EXPIRED" THEN RevokeJob(r) ELSE NoJob])

Done(s, r) == pass' = [pass EXCEPT ![s].todo = @ \ {r}]

SkipSystemEvent(s, r) ==
    /\ r \in pass[s].todo
    /\ tx[s] = Idle
    /\ request[r].status # "On_Use" \/ Marked(r, pass[s].step)
    /\ Done(s, r)
    /\ UNCHANGED <<db, published, today, tx, lease>>

CommitSystemEvent(s) ==
    LET w == tx[s] IN
    /\ w.event \in Marks
    /\ Write(s, request[w.rid], Queue(w.rid, w.job))
    /\ Done(s, w.rid)

\* One request's failure is logged and the pass goes on with the others.
AbortSystemEvent(s) ==
    /\ tx[s] # Idle
    /\ tx' = [tx EXCEPT ![s] = Idle]
    /\ Done(s, tx[s].rid)
    /\ UNCHANGED <<db, published, today, lease>>

\* The task dies in the middle of a pass: it keeps the lease until that lapses.
CrashInPass(s) ==
    /\ pass[s].step # "off"
    /\ pass' = [pass EXCEPT ![s] = [step |-> "off", day |-> 1, todo |-> {}]]
    /\ tx' = [tx EXCEPT ![s] = Idle]
    /\ UNCHANGED <<db, published, today, lease>>

\* lease_until passes, whether or not its owner's pass is over, or the task stops
\* after its pass and releases the lease.
LeaseLapses ==
    /\ lease.owner # Nobody
    /\ LET n == IF pass[lease.owner].step = "off" THEN lease.outlived ELSE lease.outlived + 1 IN
       /\ n <= MaxOutlived
       /\ lease' = [owner |-> Nobody, outlived |-> n]
    /\ UNCHANGED <<db, published, today, tx, pass>>

NextDay ==
    /\ today < LastDay
    /\ today' = today + 1
    /\ UNCHANGED <<db, published, tx, pass, lease>>

-----------------------------------------------------------------------------

ClientStep(c) ==
    \/ Abort(c)
    \/ CommitEdit(c) \/ CommitTransition(c) \/ CommitDecision(c) \/ CommitRetry(c) \/ CommitOutcome(c)
    \/ \E r \in Requests :
        \/ \E d \in Days, f \in Forms : EditRequest(c, r, d, f)
        \/ ApproveRequest(c, r) \/ RejectRequest(c, r) \/ ActivateRequest(c, r) \/ CompleteRequest(c, r)
        \/ RetryProvisioning(c, r)
        \/ \E approve \in BOOLEAN : DecideExtension(c, r, approve)
        \/ \E k \in 1..MaxJobs : FailJob(c, r, k) \/ \E ok \in BOOLEAN : HandleResult(c, r, k, ok)

SchedulerStep(s) ==
    \/ StartPass(s) \/ ListEnded(s) \/ EndPass(s)
    \/ CommitSystemEvent(s) \/ AbortSystemEvent(s) \/ CrashInPass(s)
    \/ \E r \in Requests : SystemEvent(s, r) \/ SkipSystemEvent(s, r)

Next ==
    \/ \E c \in Clients : ClientStep(c)
    \/ \E s \in Schedulers : SchedulerStep(s)
    \/ \E r \in Requests :
        \/ \E d \in Days, f \in Forms : CreateRequest(r, d, f)
        \/ \E d \in Days : RequestExtension(r, d)
        \/ \E k \in 1..MaxJobs : Dispatch(r, k) \/ DispatchRolledBack(r, k)
    \/ LeaseLapses
    \/ NextDay

Spec == Init /\ [][Next]_vars

\* A transaction ends: Prisma gives an interactive transaction 5 seconds.
\* The dispatcher's timer fires every 3 seconds and the broker comes back.
\* The scheduler fails a job without an answer on every pass until that works,
\* and not every attempt is cut off.
JobFairness ==
    /\ \A c \in Clients : WF_vars(Abort(c) \/ CommitTransition(c) \/ CommitRetry(c) \/ CommitOutcome(c))
    /\ \A r \in Requests, k \in 1..MaxJobs :
        /\ WF_vars(Dispatch(r, k))
        /\ SF_vars(\E c \in Clients : FailJob(c, r, k))
        /\ SF_vars(\E c \in Clients : CommitOutcome(c) /\ tx[c].rid = r /\ tx[c].k = k)

\* Passes keep being run, by one task or another, and some are not cut off.
PassFairness ==
    /\ WF_vars(LeaseLapses)
    /\ SF_vars(\E s \in Schedulers : StartPass(s))
    /\ SF_vars(\E s \in Schedulers : ListEnded(s))
    /\ SF_vars(\E s \in Schedulers : EndPass(s))
    /\ \A r \in Requests :
        /\ SF_vars(\E s \in Schedulers : SystemEvent(s, r) \/ SkipSystemEvent(s, r))
        /\ SF_vars(\E s \in Schedulers : CommitSystemEvent(s) /\ tx[s].rid = r)

Live == Spec /\ JobFairness /\ PassFairness

-----------------------------------------------------------------------------
(* Correctness *)

\* The shape of the tables, the open transactions and the scheduler's state.
TypeOK ==
    /\ request \in [Requests -> Row]
    /\ jobs \in [Requests -> Seq(Job)]
    /\ log \in [Requests -> Seq(Entry)]
    /\ published \subseteq Requests \X Nat
    /\ today \in Days
    /\ tx \in [Procs -> Txn \cup {Idle}]
    /\ pass \in [Schedulers -> Pass]
    /\ lease \in Lease

\* A request set up automatically that is Approved has a CREATE job, and none
\* that succeeded: it is being set up, or its failure is there to be retried.
\* No order of results, retries and activations leaves it stuck or set up but
\* not in use.
ApprovedIsBeingSetUp ==
    \A r \in Automated : request[r].status = "Approved" =>
        Has(r, "CREATE", AnyStatus) /\ ~Has(r, "CREATE", {"Succeeded"})

\* Nobody's access outlives its request: when one that was set up automatically
\* is Completed, or was found to have ended, a REVOKE job is in the outbox,
\* whoever acted first and whatever raced with it.
EndedIsRevoked ==
    \A r \in Automated :
        \/ request[r].status = "Completed"
        \/ \E i \in DOMAIN log[r] : log[r][i].event = "EXPIRED"
        => Has(r, "REVOKE", AnyStatus)

\* The status changes in the event log lead, one from the other, from the
\* request's creation to its present status: no transition is lost, logged
\* twice or logged from a status the request had already left.
LogTellsTheHistory ==
    \A r \in Requests :
        LET moves == {i \in DOMAIN log[r] : log[r][i].from # log[r][i].to} IN
        /\ moves = {} => request[r].status = "None"
        /\ \A i \in moves :
            /\ (\A j \in moves : j <= i) => request[r].status = log[r][i].to
            /\ (\A j \in moves : j >= i) => log[r][i].from = "None"
            /\ \A j \in moves : i < j /\ (\A k \in moves : k <= i \/ k >= j)
                                  => log[r][j].from = log[r][i].to

\* The end date in force is the last one the log says was granted, and every
\* date that was granted is one the student had asked for.
EndDateIsGranted ==
    \A r \in Requests :
        LET grants == {i \in DOMAIN log[r] : log[r][i].event = "EXTENSION_APPROVED"} IN
        /\ \A i \in grants :
            /\ \E j \in 1..(i - 1) : /\ log[r][j].event = "EXTENSION_REQUESTED"
                                     /\ log[r][j].end = log[r][i].end
            /\ (\A j \in grants : j <= i) => request[r].end = log[r][i].end

\* The first outcome of a job is final: no redelivered or late result, dead
\* letter, time-out or second send changes a job that Succeeded or Failed.
OutcomeIsFinal ==
    [][\A r \in Requests : \A k \in DOMAIN jobs[r] :
          jobs[r][k].status \notin ActiveJob => jobs'[r][k] = jobs[r][k]]_jobs

\* The log entries that mark request r for the end date d.
MarksOf(r, mark, d) == {i \in DOMAIN log[r] : log[r][i].event = mark /\ log[r][i].end = d}

\* The scheduler handles an end date once: a request is reminded once and expired
\* once for the same end date, although the lease is no lock.  Only after a pass
\* went on without its lease can there be a second mark, and then no task has made
\* more than one: the mark is looked for again in the transaction that makes it.
OncePerEndDate ==
    \A r \in Requests, mark \in Marks, d \in Days :
        LET n == Cardinality(MarksOf(r, mark, d)) IN
        /\ n <= Cardinality(Schedulers)
        /\ lease.outlived = 0 => n <= 1

\* What the approver decided on stays what it was: once a request has left
\* Pending no edit, however late it commits, changes its form.
DecidedFormIsFixed ==
    [][\A r \in Requests :
          request[r].status \notin {"None", "Pending"} => request'[r].extras = request[r].extras]_request

\* Every job that is queued gets an outcome, so the approvers see a failure and
\* Retry is not blocked for good.
JobsAreAnswered ==
    \A r \in Requests, k \in 1..MaxJobs :
        k \in DOMAIN jobs[r] ~> k \in DOMAIN jobs[r] /\ jobs[r][k].status \notin ActiveJob

\* A request in use whose end date has passed is expired, however often passes
\* are cut off and the lease changes hands, unless it ends or is extended.
EndedIsHandled ==
    \A r \in Requests :
        request[r].status = "On_Use" /\ request[r].end < today
            ~> \/ request[r].status # "On_Use"
               \/ request[r].end >= today
               \/ Marked(r, "EXPIRED")

\* The statuses and the provisioning work of a request follow the workflow,
\* step for step, as if every handler acted at once on the present state.
Workflow == INSTANCE RequestWorkflow WITH
    status <- [r \in Requests |-> request[r].status],
    asked <- [r \in Requests |-> {jobs[r][i].action : i \in DOMAIN jobs[r]}],
    outcomes <- [r \in Requests |->
        {<<jobs[r][i].action, jobs[r][i].status = "Succeeded">> :
            i \in {j \in DOMAIN jobs[r] : jobs[r][j].status \notin ActiveJob}}]

ImplementsWorkflow == Workflow!WSpec

=============================================================================
