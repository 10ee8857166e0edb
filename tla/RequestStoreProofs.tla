------------------------- MODULE RequestStoreProofs -------------------------
(* Theorems about RequestStore, for every set of requests, clients, scheduler *)
(* tasks and every bound: the types and the outbox, that RequestWorkflow is   *)
(* implemented, and the histories the tables leave.                           *)
EXTENDS RequestStore, TLAPS, WellFoundedInduction, NaturalsInduction, FiniteSetTheorems

-----------------------------------------------------------------------------
(* Lemmas about the tables *)

\* Changing one field of one job leaves a sequence of jobs.
LEMMA JobStatusChange ==
    ASSUME NEW js \in Seq(Job), NEW k, NEW st \in AnyStatus
    PROVE  /\ [js EXCEPT ![k].status = st] \in Seq(Job)
           /\ DOMAIN [js EXCEPT ![k].status = st] = DOMAIN js
           /\ Len([js EXCEPT ![k].status = st]) = Len(js)
           /\ \A i \in DOMAIN js : [js EXCEPT ![k].status = st][i].action = js[i].action
           /\ \A i \in DOMAIN js : i # k => [js EXCEPT ![k].status = st][i] = js[i]
  <1> DEFINE new == [js EXCEPT ![k].status = st]
  <1>1. js \in [1..Len(js) -> Job] /\ Len(js) \in Nat
    OBVIOUS
  <1>2. \A j \in Job : [j EXCEPT !.status = st] \in Job /\ [j EXCEPT !.status = st].action = j.action
    BY DEF Job, AnyStatus, ActiveJob
  <1>3. new = [i \in 1..Len(js) |-> IF i = k THEN [js[k] EXCEPT !.status = st] ELSE js[i]]
    BY <1>1
  <1>4. new \in [1..Len(js) -> Job]
    BY <1>1, <1>2, <1>3
  <1>5. new \in Seq(Job) /\ Len(new) = Len(js)
    BY <1>1, <1>4
  <1>6. QED
    BY <1>1, <1>2, <1>3, <1>5

\* A job or no job, queued, leaves a sequence of jobs that starts with the old one.
LEMMA QueueJob ==
    ASSUME TypeOK, NEW r \in Requests, NEW job \in Job \cup {NoJob}
    PROVE  /\ Queue(r, job) \in Seq(Job)
           /\ Len(Queue(r, job)) >= Len(jobs[r])
           /\ \A i \in DOMAIN jobs[r] : i \in DOMAIN Queue(r, job) /\ Queue(r, job)[i] = jobs[r][i]
           /\ job # NoJob => /\ Len(Queue(r, job)) \in DOMAIN Queue(r, job)
                             /\ Queue(r, job)[Len(Queue(r, job))] = job
  <1>1. jobs[r] \in Seq(Job)
    BY DEF TypeOK
  <1>2. CASE job = NoJob
    BY <1>1, <1>2 DEF Queue
  <1>3. CASE job # NoJob
    BY <1>1, <1>3 DEF Queue
  <1>4. QED
    BY <1>2, <1>3

\* What is planned from the snapshot of a row is a transaction.
LEMMA PlanType ==
    ASSUME TypeOK, NEW e \in Events, NEW r \in Requests, NEW to \in Statuses
    PROVE  Plan(e, r, to) \in Txn
  <1>1. request[r] \in Row
    BY DEF TypeOK
  <1>2. MaxJobs \in Nat /\ LastDay \in Nat /\ NumForms \in Nat
    BY BoundsAssumption
  <1>3. QED
    BY <1>1, <1>2 DEF Plan, Row, Txn

LEMMA NewJobType ==
    ASSUME NEW a \in JobActions, NEW d \in 0..LastDay, NEW v \in BOOLEAN
    PROVE  NewJob(a, d, v) \in Job
  BY DEF NewJob, Job, ActiveJob

\* A transaction that is not idle is a plan.
LEMMA OpenTxn ==
    ASSUME TypeOK, NEW p \in Procs, tx[p].event \in Events
    PROVE  tx[p] \in Txn
  BY DEF TypeOK, Idle, Events, Transitions, Decisions, Successes, Failures, Marks

LEMMA BeginType ==
    ASSUME TypeOK, NEW p \in Procs, NEW w \in Txn, Begin(p, w)
    PROVE  TypeOK'
  BY DEF TypeOK, Begin, db

LEMMA LogEventType ==
    ASSUME TypeOK, NEW r \in Requests, NEW e \in Entry, LogEvent(r, e)
    PROVE  log' \in [Requests -> Seq(Entry)]
  <1>1. log[r] \in Seq(Entry)
    BY DEF TypeOK
  <1>2. Append(log[r], e) \in Seq(Entry)
    BY <1>1
  <1>3. QED
    BY <1>2 DEF LogEvent, TypeOK

LEMMA WriteType ==
    ASSUME TypeOK, NEW p \in Procs, tx[p] \in Txn, NEW row \in Row, NEW js \in Seq(Job),
           Write(p, row, js), pass' \in [Schedulers -> Pass]
    PROVE  TypeOK'
  <1> DEFINE w == tx[p]
             e == [event |-> w.event, from |-> w.from, to |-> w.to, end |-> w.end]
  <1>1. w.rid \in Requests /\ e \in Entry
    BY DEF Txn, Entry
  <1>2. LogEvent(w.rid, e)
    BY DEF Write
  <1>3. log' \in [Requests -> Seq(Entry)]
    BY <1>1, <1>2, LogEventType
  <1>4. /\ request' \in [Requests -> Row]
        /\ jobs' \in [Requests -> Seq(Job)]
        /\ tx' \in [Procs -> Txn \cup {Idle}]
        /\ UNCHANGED <<published, today, lease>>
    BY <1>1 DEF Write, TypeOK
  <1>5. QED
    BY <1>3, <1>4 DEF TypeOK

-----------------------------------------------------------------------------
(* Every step keeps the types *)

\* The rows that the commits write.
LEMMA RowTypes ==
    ASSUME TypeOK, NEW p \in Procs, tx[p] \in Txn
    PROVE  /\ tx[p].rid \in Requests
           /\ request[tx[p].rid] \in Row
           /\ \A st \in Statuses, f \in 0..NumForms :
                [request[tx[p].rid] EXCEPT !.status = st, !.extras = f] \in Row
           /\ \A st \in Statuses : [request[tx[p].rid] EXCEPT !.status = st] \in Row
           /\ \A d \in 0..LastDay, a \in 0..LastDay, f \in 0..NumForms :
                [request[tx[p].rid] EXCEPT !.end = d, !.ask = a, !.extras = f] \in Row
           /\ \A d \in 0..LastDay, f \in 0..NumForms :
                [request[tx[p].rid] EXCEPT !.end = d, !.extras = f] \in Row
  <1>1. tx[p].rid \in Requests /\ request[tx[p].rid] \in Row
    BY DEF TypeOK, Txn
  <1>2. QED
    BY <1>1 DEF Row

LEMMA CommitTypes ==
    ASSUME TypeOK, NEW p \in Clients,
           CommitEdit(p) \/ CommitTransition(p) \/ CommitDecision(p) \/ CommitRetry(p) \/ CommitOutcome(p)
    PROVE  TypeOK'
  <1> DEFINE w == tx[p]
  <1>0. p \in Procs /\ pass \in [Schedulers -> Pass] /\ 0 \in 0..LastDay
    BY BoundsAssumption DEF Procs, TypeOK
  <1>1. w.event \in Events /\ w \in Txn
    <2>1. w.event \in Events
      BY DEF CommitEdit, CommitTransition, CommitDecision, CommitRetry, CommitOutcome, Events
    <2>2. QED
      BY <1>0, <2>1, OpenTxn
  <1>2. /\ w.rid \in Requests /\ w.to \in Statuses /\ w.end \in 0..LastDay /\ w.extras \in 0..NumForms
        /\ w.job \in Job \cup {NoJob}
    BY <1>1 DEF Txn
  <1>3. request[w.rid] \in Row /\ jobs[w.rid] \in Seq(Job) /\ Queue(w.rid, w.job) \in Seq(Job)
    BY <1>2, QueueJob DEF TypeOK
  <1>4. CASE CommitEdit(p)
    BY <1>0, <1>1, <1>2, <1>3, <1>4, RowTypes, WriteType DEF CommitEdit
  <1>5. CASE CommitTransition(p)
    <2> DEFINE extras == IF w.event \in {"APPROVED", "REJECTED"} THEN w.extras ELSE request[w.rid].extras
               row == [request[w.rid] EXCEPT !.status = w.to, !.extras = extras]
    <2>1. extras \in 0..NumForms
      BY <1>2, <1>3 DEF Row
    <2>2. row \in Row
      BY <1>0, <1>1, <1>2, <2>1, RowTypes
    <2>3. Write(p, row, Queue(w.rid, w.job)) /\ pass' = pass
      BY <1>5 DEF CommitTransition
    <2>4. QED
      BY <1>0, <1>1, <1>3, <2>2, <2>3, WriteType
  <1>6. CASE CommitDecision(p)
    <2> DEFINE row == [request[w.rid] EXCEPT !.end = DecidedEnd(w, @), !.ask = 0, !.extras = w.extras]
    <2>1. DecidedEnd(w, request[w.rid].end) \in 0..LastDay
      BY <1>2, <1>3 DEF DecidedEnd, Row
    <2>2. row \in Row
      BY <1>0, <1>1, <1>2, <2>1, RowTypes
    <2>3. Write(p, row, Queue(w.rid, w.job)) /\ pass' = pass
      BY <1>6 DEF CommitDecision
    <2>4. QED
      BY <1>0, <1>1, <1>3, <2>2, <2>3, WriteType
  <1>7. CASE CommitRetry(p)
    BY <1>0, <1>1, <1>2, <1>3, <1>7, WriteType DEF CommitRetry
  <1>8. CASE CommitOutcome(p)
    <2> DEFINE row == IF w.to # w.from THEN [request[w.rid] EXCEPT !.status = w.to] ELSE request[w.rid]
               outcome == IF w.event \in Successes THEN "Succeeded" ELSE "Failed"
               js == [jobs[w.rid] EXCEPT ![w.k].status = outcome]
    <2>1. row \in Row
      BY <1>0, <1>1, <1>2, <1>3, RowTypes
    <2>2. js \in Seq(Job)
      <3>1. outcome \in AnyStatus
        BY DEF AnyStatus
      <3>2. QED
        BY <1>3, <3>1, JobStatusChange
    <2>3. Write(p, row, js) /\ pass' = pass
      BY <1>8 DEF CommitOutcome
    <2>4. QED
      BY <1>0, <1>1, <2>1, <2>2, <2>3, WriteType
  <1>9. QED
    BY <1>4, <1>5, <1>6, <1>7, <1>8

\* The jobs that are planned.
LEMMA PlannedJobs ==
    ASSUME TypeOK, NEW r \in Requests
    PROVE  /\ CreateJob(r) \in Job \cup {NoJob}
           /\ RevokeJob(r) \in Job \cup {NoJob}
           /\ \A d \in 0..LastDay : ExtendJob(r, d) \in Job \cup {NoJob}
  <1>1. request[r].end \in 0..LastDay /\ 0 \in 0..LastDay
    BY BoundsAssumption DEF TypeOK, Row
  <1>2. CreateJob(r) \in Job \cup {NoJob}
    BY <1>1, NewJobType DEF CreateJob, JobActions
  <1>3. RevokeJob(r) \in Job \cup {NoJob}
    BY <1>1, NewJobType DEF RevokeJob, JobActions, KeepsVpn
  <1>4. \A d \in 0..LastDay : ExtendJob(r, d) \in Job \cup {NoJob}
    BY NewJobType DEF ExtendJob, JobActions
  <1>5. QED
    BY <1>2, <1>3, <1>4

\* Filling in a plan's job, dates, form or job index leaves a transaction.
LEMMA FilledPlans ==
    ASSUME NEW w \in Txn
    PROVE  /\ \A j \in Job \cup {NoJob} : [w EXCEPT !.job = j] \in Txn
           /\ \A d \in 0..LastDay, f \in 0..NumForms : [w EXCEPT !.end = d, !.extras = f] \in Txn
           /\ \A d \in 0..LastDay : [w EXCEPT !.end = d] \in Txn
           /\ \A d \in 0..LastDay, j \in Job \cup {NoJob} : [w EXCEPT !.end = d, !.job = j] \in Txn
           /\ \A e \in Events, j \in Job \cup {NoJob} : [w EXCEPT !.event = e, !.job = j] \in Txn
           /\ \A k \in 0..MaxJobs : [w EXCEPT !.k = k] \in Txn
  BY DEF Txn

LEMMA ResultEventType ==
    ASSUME NEW a \in JobActions, NEW ok \in BOOLEAN
    PROVE  ResultEvent(a, ok) \in Events
  BY DEF ResultEvent, JobActions, Events, Successes, Failures

LEMMA ClientBeginTypes ==
    ASSUME TypeOK, NEW c \in Clients, NEW r \in Requests,
           \/ \E d \in Days, f \in Forms : EditRequest(c, r, d, f)
           \/ ApproveRequest(c, r) \/ RejectRequest(c, r) \/ ActivateRequest(c, r) \/ CompleteRequest(c, r)
           \/ RetryProvisioning(c, r)
           \/ \E approve \in BOOLEAN : DecideExtension(c, r, approve)
           \/ \E k \in 1..MaxJobs : FailJob(c, r, k) \/ \E ok \in BOOLEAN : HandleResult(c, r, k, ok)
    PROVE  TypeOK'
  <1>0. /\ c \in Procs /\ request[r] \in Row /\ jobs[r] \in Seq(Job) /\ request[r].status \in Statuses
        /\ 0 \in 0..LastDay /\ Days \subseteq 0..LastDay /\ Forms \subseteq 0..NumForms
        /\ 1..MaxJobs \subseteq 0..MaxJobs
    BY BoundsAssumption DEF TypeOK, Procs, Row, Days, Forms
  <1> SUFFICES ASSUME NEW w \in Txn, Begin(c, w)
               PROVE  TypeOK'
    <2>1. \A e \in Events, to \in Statuses : Plan(e, r, to) \in Txn
      BY PlanType
    <2>2. ASSUME NEW d \in Days, NEW f \in Forms, EditRequest(c, r, d, f)
          PROVE  \E w \in Txn : Begin(c, w)
      <3>1. Plan("EDITED", r, "Pending") \in Txn
        BY <2>1 DEF Events, Statuses
      <3>2. QED
        BY <1>0, <2>2, <3>1, FilledPlans DEF EditRequest
    <2>3. CASE ApproveRequest(c, r)
      <3>1. Plan("APPROVED", r, "Approved") \in Txn
        BY <2>1 DEF Events, Transitions, Statuses
      <3>2. QED
        BY <2>3, <3>1, FilledPlans, PlannedJobs DEF ApproveRequest
    <2>4. CASE RejectRequest(c, r)
      <3>1. Plan("REJECTED", r, "Rejected") \in Txn
        BY <2>1 DEF Events, Transitions, Statuses
      <3>2. QED
        BY <2>4, <3>1 DEF RejectRequest
    <2>5. CASE ActivateRequest(c, r)
      <3>1. Plan("ACTIVATED", r, "On_Use") \in Txn
        BY <2>1 DEF Events, Transitions, Statuses
      <3>2. QED
        BY <2>5, <3>1 DEF ActivateRequest
    <2>6. CASE CompleteRequest(c, r)
      <3>1. Plan("COMPLETED", r, "Completed") \in Txn
        BY <2>1 DEF Events, Transitions, Statuses
      <3>2. QED
        BY <2>6, <3>1, FilledPlans, PlannedJobs DEF CompleteRequest
    <2>7. CASE RetryProvisioning(c, r)
      <3> DEFINE last == jobs[r][Len(jobs[r])]
                 job == NewJob(last.action, RetriedPeriod(r), last.action = "REVOKE" /\ ~KeepsVpn(r))
      <3>1. Plan("RETRIED", r, request[r].status) \in Txn
        BY <1>0, <2>1 DEF Events
      <3>2. last \in Job
        BY <1>0, <2>7 DEF RetryProvisioning
      <3>3. last.action \in JobActions /\ RetriedPeriod(r) \in 0..LastDay
        BY <1>0, <3>2 DEF Job, RetriedPeriod, JobActions, Row
      <3>4. job \in Job
        BY <3>3, NewJobType DEF KeepsVpn
      <3>5. Begin(c, [Plan("RETRIED", r, request[r].status) EXCEPT !.job = job])
        BY <2>7 DEF RetryProvisioning
      <3>6. QED
        BY <3>1, <3>4, <3>5, FilledPlans
    <2>8. ASSUME NEW approve \in BOOLEAN, DecideExtension(c, r, approve)
          PROVE  \E w \in Txn : Begin(c, w)
      <3> DEFINE p == Plan("EXTENSION_REJECTED", r, request[r].status)
                 w == [p EXCEPT !.end = request[r].ask]
                 a == [w EXCEPT !.event = "EXTENSION_APPROVED", !.job = ExtendJob(r, w.end)]
      <3>1. p \in Txn /\ request[r].ask \in 0..LastDay
        BY <1>0, <2>1 DEF Events, Decisions, Row
      <3>2. w \in Txn
        BY <3>1, FilledPlans
      <3>3. w.end \in 0..LastDay /\ "EXTENSION_APPROVED" \in Events
        BY <3>2 DEF Txn, Events, Decisions
      <3>4. a \in Txn
        BY <3>2, <3>3, FilledPlans, PlannedJobs
      <3>5. Begin(c, IF approve THEN a ELSE w)
        BY <2>8 DEF DecideExtension
      <3>6. QED
        BY <3>2, <3>4, <3>5
    <2>9. ASSUME NEW k \in 1..MaxJobs, FailJob(c, r, k) \/ \E ok \in BOOLEAN : HandleResult(c, r, k, ok)
          PROVE  \E w \in Txn : Begin(c, w)
      <3> DEFINE job == jobs[r][k]
      <3>1. k \in DOMAIN jobs[r]
        BY <2>9 DEF FailJob, HandleResult
      <3>2. job \in Job
        BY <1>0, <3>1
      <3>3. \A ok \in BOOLEAN : ResultEvent(job.action, ok) \in Events
        BY <3>2, ResultEventType DEF Job
      <3>4. CASE FailJob(c, r, k)
        <4>1. Plan(ResultEvent(job.action, FALSE), r, request[r].status) \in Txn
          BY <1>0, <2>1, <3>3
        <4>2. Begin(c, [Plan(ResultEvent(job.action, FALSE), r, request[r].status) EXCEPT !.k = k])
          BY <3>4 DEF FailJob
        <4>3. QED
          BY <1>0, <4>1, <4>2, FilledPlans
      <3>5. ASSUME NEW ok \in BOOLEAN, HandleResult(c, r, k, ok)
            PROVE  \E w \in Txn : Begin(c, w)
        <4> DEFINE to == CASE ok /\ job.action = "CREATE" /\ request[r].status = "Approved" -> "On_Use"
                           [] ok /\ job.action = "REVOKE" /\ request[r].status = "On_Use" -> "Completed"
                           [] OTHER -> request[r].status
        <4>1. to \in Statuses
          BY <1>0 DEF Statuses
        <4>2. Plan(ResultEvent(job.action, ok), r, to) \in Txn
          BY <2>1, <3>3, <4>1
        <4>3. Begin(c, [Plan(ResultEvent(job.action, ok), r, to) EXCEPT !.k = k])
          BY <3>5 DEF HandleResult
        <4>4. QED
          BY <1>0, <4>2, <4>3, FilledPlans
      <3>6. QED
        BY <2>9, <3>4, <3>5
    <2>10. QED
      BY <2>2, <2>3, <2>4, <2>5, <2>6, <2>7, <2>8, <2>9
  <1>1. QED
    BY <1>0, BeginType

LEMMA SchedulerTypes ==
    ASSUME TypeOK, NEW s \in Schedulers, SchedulerStep(s)
    PROVE  TypeOK'
  <1>0. /\ s \in Procs /\ pass[s] \in Pass /\ today \in Days /\ 1 \in Days
        /\ 0 \in 0..LastDay /\ Days \subseteq 0..LastDay
    BY BoundsAssumption DEF TypeOK, Procs, Days
  <1>1. \A day \in Days : Ending(day) \subseteq Requests /\ Ended(day) \subseteq Requests
    BY DEF Ending, Ended
  <1>2. CASE StartPass(s)
    <2> DEFINE new == [step |-> "REMINDED", day |-> today,
                       todo |-> IF "REMINDED" \in Ops THEN Ending(today) ELSE {}]
    <2>1. new \in Pass
      BY <1>0, <1>1 DEF Pass
    <2>2. pass' = [pass EXCEPT ![s] = new] /\ lease' = [lease EXCEPT !.owner = s]
      BY <1>2 DEF StartPass
    <2>3. lease' \in Lease
      BY <2>2 DEF TypeOK, Lease
    <2>4. QED
      BY <1>2, <2>1, <2>2, <2>3 DEF StartPass, TypeOK, db
  <1>3. CASE ListEnded(s)
    <2> DEFINE todo == IF "EXPIRED" \in Ops THEN Ended(pass[s].day) ELSE {}
    <2>1. todo \subseteq Requests
      BY <1>0, <1>1 DEF Pass
    <2>2. [pass[s] EXCEPT !.step = "EXPIRED", !.todo = todo] \in Pass
      BY <1>0, <2>1 DEF Pass
    <2>3. pass' = [pass EXCEPT ![s] = [pass[s] EXCEPT !.step = "EXPIRED", !.todo = todo]]
      BY <1>3 DEF ListEnded, TypeOK
    <2>4. QED
      BY <1>3, <2>2, <2>3 DEF ListEnded, TypeOK, db
  <1>4. [step |-> "off", day |-> 1, todo |-> {}] \in Pass
    BY <1>0 DEF Pass
  <1>5. CASE EndPass(s)
    BY <1>4, <1>5 DEF EndPass, TypeOK, db
  <1>6. CASE CrashInPass(s)
    BY <1>0, <1>4, <1>6 DEF CrashInPass, TypeOK, db
  <1>7. \A r \in Requests : [pass[s] EXCEPT !.todo = @ \ {r}] \in Pass
    BY <1>0 DEF Pass
  <1>8. ASSUME NEW r \in Requests, Done(s, r)
        PROVE  pass' \in [Schedulers -> Pass]
    BY <1>7, <1>8 DEF Done, TypeOK
  <1>9. CASE CommitSystemEvent(s)
    <2>1. tx[s].event \in Events
      BY <1>9 DEF CommitSystemEvent, Events
    <2>2. tx[s] \in Txn
      BY <1>0, <2>1, OpenTxn
    <2>3. tx[s].rid \in Requests /\ request[tx[s].rid] \in Row /\ tx[s].job \in Job \cup {NoJob}
      BY <2>2 DEF TypeOK, Txn
    <2>4. Queue(tx[s].rid, tx[s].job) \in Seq(Job)
      BY <2>3, QueueJob
    <2>5. pass' \in [Schedulers -> Pass]
      BY <1>8, <1>9, <2>3 DEF CommitSystemEvent
    <2>6. QED
      BY <1>0, <1>9, <2>2, <2>3, <2>4, <2>5, WriteType DEF CommitSystemEvent
  <1>10. CASE AbortSystemEvent(s)
    <2>1. tx[s] \in Txn
      BY <1>0, <1>10 DEF AbortSystemEvent, TypeOK
    <2>2. tx[s].rid \in Requests
      BY <2>1 DEF Txn
    <2>3. pass' \in [Schedulers -> Pass]
      BY <1>8, <1>10, <2>2 DEF AbortSystemEvent
    <2>4. QED
      BY <1>0, <1>10, <2>3 DEF AbortSystemEvent, TypeOK, db
  <1>11. ASSUME NEW r \in Requests, SystemEvent(s, r)
         PROVE  TypeOK'
    <2> DEFINE mark == pass[s].step
               job == IF mark = "EXPIRED" THEN RevokeJob(r) ELSE NoJob
               w == [Plan(mark, r, "On_Use") EXCEPT !.end = request[r].end, !.job = job]
    <2>1. mark \in Events
      <3>1. r \in pass[s].todo /\ mark \in {"off", "REMINDED", "EXPIRED"}
        BY <1>0, <1>11 DEF SystemEvent, Pass
      <3>2. Begin(s, w)
        BY <1>11 DEF SystemEvent
      <3>3. w.event = mark /\ w.event \in Ops
        BY <3>2 DEF Begin, Plan
      <3>4. mark # "off"
        BY <3>3, OpsAssumption DEF Events, Transitions, Decisions, Successes, Failures, Marks
      <3>5. QED
        BY <3>1, <3>4 DEF Events, Marks
    <2>2. Plan(mark, r, "On_Use") \in Txn
      BY <2>1, PlanType DEF Statuses
    <2>3. request[r].end \in 0..LastDay /\ job \in Job \cup {NoJob}
      BY PlannedJobs DEF TypeOK, Row
    <2>4. w \in Txn
      BY <2>2, <2>3, FilledPlans
    <2>5. Begin(s, w)
      BY <1>11 DEF SystemEvent
    <2>6. QED
      BY <1>0, <2>4, <2>5, BeginType
  <1>12. ASSUME NEW r \in Requests, SkipSystemEvent(s, r)
         PROVE  TypeOK'
    <2>1. pass' \in [Schedulers -> Pass]
      BY <1>8, <1>12 DEF SkipSystemEvent
    <2>2. QED
      BY <1>12, <2>1 DEF SkipSystemEvent, TypeOK, db
  <1>13. QED
    BY <1>2, <1>3, <1>5, <1>6, <1>9, <1>10, <1>11, <1>12 DEF SchedulerStep

LEMMA DatabaseTypes ==
    ASSUME TypeOK, NEW r \in Requests,
           \/ \E d \in Days, f \in Forms : CreateRequest(r, d, f)
           \/ \E d \in Days : RequestExtension(r, d)
           \/ \E k \in 1..MaxJobs : Dispatch(r, k) \/ DispatchRolledBack(r, k)
    PROVE  TypeOK'
  <1>0. /\ request[r] \in Row /\ jobs[r] \in Seq(Job) /\ published \subseteq Requests \X Nat
        /\ 0 \in 0..LastDay /\ Days \subseteq 0..LastDay /\ Forms \subseteq 0..NumForms
        /\ 1..MaxJobs \subseteq Nat
    BY BoundsAssumption DEF TypeOK, Days, Forms
  <1>1. ASSUME NEW d \in Days, NEW f \in Forms, CreateRequest(r, d, f)
        PROVE  TypeOK'
    <2>1. [status |-> "Pending", end |-> d, ask |-> 0, extras |-> f] \in Row
      BY <1>0 DEF Row, Statuses
    <2>2. [event |-> "CREATED", from |-> "None", to |-> "Pending", end |-> 0] \in Entry
      BY <1>0 DEF Entry, Events, Statuses
    <2>3. log' \in [Requests -> Seq(Entry)]
      BY <1>1, <2>2, LogEventType DEF CreateRequest
    <2>4. QED
      BY <1>1, <2>1, <2>3 DEF CreateRequest, TypeOK
  <1>2. ASSUME NEW d \in Days, RequestExtension(r, d)
        PROVE  TypeOK'
    <2>1. [request[r] EXCEPT !.ask = d] \in Row
      BY <1>0 DEF Row
    <2>2. [event |-> "EXTENSION_REQUESTED", from |-> "On_Use", to |-> "On_Use", end |-> d] \in Entry
      BY <1>0 DEF Entry, Events, Statuses
    <2>3. log' \in [Requests -> Seq(Entry)]
      BY <1>2, <2>2, LogEventType DEF RequestExtension
    <2>4. request' = [request EXCEPT ![r] = [request[r] EXCEPT !.ask = d]]
      BY <1>2 DEF RequestExtension, TypeOK
    <2>5. QED
      BY <1>2, <2>1, <2>3, <2>4 DEF RequestExtension, TypeOK
  <1>3. ASSUME NEW k \in 1..MaxJobs, Dispatch(r, k)
        PROVE  TypeOK'
    <2>1. [jobs[r] EXCEPT ![k].status = "Sent"] \in Seq(Job)
      BY <1>0, JobStatusChange DEF AnyStatus, ActiveJob
    <2>2. jobs' = [jobs EXCEPT ![r] = [jobs[r] EXCEPT ![k].status = "Sent"]]
      BY <1>3 DEF Dispatch, TypeOK
    <2>3. published' \subseteq Requests \X Nat
      BY <1>0, <1>3 DEF Dispatch
    <2>4. QED
      BY <1>3, <2>1, <2>2, <2>3 DEF Dispatch, TypeOK
  <1>4. ASSUME NEW k \in 1..MaxJobs, DispatchRolledBack(r, k)
        PROVE  TypeOK'
    BY <1>0, <1>4 DEF DispatchRolledBack, TypeOK, db
  <1>5. QED
    BY <1>1, <1>2, <1>3, <1>4

LEMMA TypeStep ==
    ASSUME TypeOK, [Next]_vars
    PROVE  TypeOK'
  <1>1. ASSUME NEW c \in Clients, ClientStep(c)
        PROVE  TypeOK'
    <2>1. CASE Abort(c)
      BY <2>1 DEF Abort, TypeOK, Procs, db
    <2>2. QED
      BY <1>1, <2>1, CommitTypes, ClientBeginTypes DEF ClientStep
  <1>2. CASE LeaseLapses
    <2> DEFINE n == IF pass[lease.owner].step = "off" THEN lease.outlived ELSE lease.outlived + 1
    <2>1. lease.outlived \in 0..MaxOutlived /\ MaxOutlived \in Nat
      BY BoundsAssumption DEF TypeOK, Lease
    <2>2. n \in 0..MaxOutlived
      BY <1>2, <2>1 DEF LeaseLapses
    <2>3. [owner |-> Nobody, outlived |-> n] \in Lease
      BY <2>2 DEF Lease
    <2>4. QED
      BY <1>2, <2>3 DEF LeaseLapses, TypeOK, db
  <1>3. CASE NextDay
    BY <1>3, BoundsAssumption DEF NextDay, TypeOK, Days, db
  <1>4. CASE UNCHANGED vars
    BY <1>4 DEF vars, TypeOK
  <1>5. QED
    BY <1>1, <1>2, <1>3, <1>4, SchedulerTypes, DatabaseTypes DEF Next

LEMMA TypeInit == Init => TypeOK
  <1> SUFFICES ASSUME Init PROVE TypeOK
    OBVIOUS
  <1>1. 0 \in 0..LastDay /\ 0 \in 0..NumForms /\ 1 \in Days
    BY BoundsAssumption DEF Days
  <1>2. [status |-> "None", end |-> 0, ask |-> 0, extras |-> 0] \in Row
    BY <1>1 DEF Row, Statuses
  <1>3. [step |-> "off", day |-> 1, todo |-> {}] \in Pass
    BY <1>1 DEF Pass
  <1>4. <<>> \in Seq(Job) /\ <<>> \in Seq(Entry)
    OBVIOUS
  <1>5. [owner |-> Nobody, outlived |-> 0] \in Lease
    BY BoundsAssumption DEF Lease
  <1>6. QED
    BY <1>1, <1>2, <1>3, <1>4, <1>5 DEF Init, TypeOK

\* The tables, the open transactions and the scheduler keep their shape.
THEOREM TypeCorrect == Spec => []TypeOK
  <1>1. QED
    BY TypeInit, TypeStep, PTL DEF Spec

-----------------------------------------------------------------------------
(* The outbox: jobs stay, keep their action, and keep their first outcome *)

JobsKept ==
    \A r \in Requests : \A i \in DOMAIN jobs[r] :
        /\ i \in DOMAIN jobs'[r]
        /\ jobs'[r][i].action = jobs[r][i].action
        /\ jobs[r][i].status \notin ActiveJob => jobs'[r][i] = jobs[r][i]

LEMMA WriteKeepsJobs ==
    ASSUME TypeOK, NEW p \in Procs, tx[p] \in Txn, NEW row, NEW js, Write(p, row, js),
           \/ js = jobs[tx[p].rid]
           \/ js = Queue(tx[p].rid, tx[p].job)
    PROVE  JobsKept
  <1> DEFINE w == tx[p]
  <1>1. w.rid \in Requests /\ w.job \in Job \cup {NoJob} /\ jobs \in [Requests -> Seq(Job)]
    BY DEF Txn, TypeOK
  <1>2. \A i \in DOMAIN jobs[w.rid] : i \in DOMAIN js /\ js[i] = jobs[w.rid][i]
    <2>1. CASE js = jobs[w.rid]
      BY <2>1
    <2>2. CASE js = Queue(w.rid, w.job)
      <3> HIDE DEF w
      <3>1. QED
        BY <1>1, <2>2, QueueJob
    <2>3. QED
      BY <2>1, <2>2
  <1>3. jobs' = [jobs EXCEPT ![w.rid] = js]
    BY DEF Write
  <1>4. QED
    BY <1>1, <1>2, <1>3 DEF JobsKept

LEMMA CommitKeepsJobs ==
    ASSUME TypeOK, NEW p \in Procs,
           \/ CommitEdit(p) \/ CommitTransition(p) \/ CommitDecision(p) \/ CommitRetry(p) \/ CommitOutcome(p)
           \/ CommitSystemEvent(p)
    PROVE  /\ tx[p] \in Txn
           /\ JobsKept
  <1> DEFINE w == tx[p]
  <1>1. w.event \in Events
    BY DEF CommitEdit, CommitTransition, CommitDecision, CommitRetry, CommitOutcome, CommitSystemEvent, Events
  <1>2. w \in Txn
    BY <1>1, OpenTxn
  <1>3. CASE CommitOutcome(p)
    <2> DEFINE outcome == IF w.event \in Successes THEN "Succeeded" ELSE "Failed"
               js == [jobs[w.rid] EXCEPT ![w.k].status = outcome]
    <2>1. w.rid \in Requests /\ jobs[w.rid] \in Seq(Job) /\ outcome \in AnyStatus
      BY <1>2 DEF TypeOK, Txn, AnyStatus
    <2>2. /\ DOMAIN js = DOMAIN jobs[w.rid]
          /\ \A i \in DOMAIN jobs[w.rid] : /\ js[i].action = jobs[w.rid][i].action
                                           /\ i # w.k => js[i] = jobs[w.rid][i]
      BY <2>1, JobStatusChange
    <2>3. jobs' = [jobs EXCEPT ![w.rid] = js] /\ jobs[w.rid][w.k].status \in ActiveJob
      BY <1>3 DEF CommitOutcome, Write, Unanswered
    <2>4. JobsKept
      BY <2>1, <2>2, <2>3 DEF JobsKept, TypeOK
    <2>5. QED
      BY <1>2, <2>4
  <1>4. CASE CommitEdit(p)
    BY <1>2, <1>4, WriteKeepsJobs DEF CommitEdit
  <1>5. CASE CommitTransition(p)
    BY <1>2, <1>5, WriteKeepsJobs DEF CommitTransition
  <1>6. CASE CommitDecision(p)
    BY <1>2, <1>6, WriteKeepsJobs DEF CommitDecision
  <1>7. CASE CommitRetry(p)
    BY <1>2, <1>7, WriteKeepsJobs DEF CommitRetry
  <1>8. CASE CommitSystemEvent(p)
    BY <1>2, <1>8, WriteKeepsJobs DEF CommitSystemEvent
  <1>9. QED
    BY <1>3, <1>4, <1>5, <1>6, <1>7, <1>8

\* What begins a client's transaction.
ClientBegins(c, r) ==
    \/ \E d \in Days, f \in Forms : EditRequest(c, r, d, f)
    \/ ApproveRequest(c, r) \/ RejectRequest(c, r) \/ ActivateRequest(c, r) \/ CompleteRequest(c, r)
    \/ RetryProvisioning(c, r)
    \/ \E approve \in BOOLEAN : DecideExtension(c, r, approve)
    \/ \E k \in 1..MaxJobs : FailJob(c, r, k) \/ \E ok \in BOOLEAN : HandleResult(c, r, k, ok)

LEMMA BeginsOnlyPlan ==
    ASSUME NEW c, NEW r, ClientBegins(c, r) \/ SystemEvent(c, r)
    PROVE  UNCHANGED <<db, published, today, pass, lease>>
  <1>0. \A w : Begin(c, w) => UNCHANGED <<db, published, today, pass, lease>>
    BY DEF Begin
  <1> SUFFICES \E w : Begin(c, w)
    BY <1>0
  <1>1. CASE \/ \E d \in Days, f \in Forms : EditRequest(c, r, d, f)
             \/ ApproveRequest(c, r) \/ RejectRequest(c, r) \/ ActivateRequest(c, r)
             \/ CompleteRequest(c, r) \/ SystemEvent(c, r)
    BY <1>1 DEF EditRequest, ApproveRequest, RejectRequest, ActivateRequest, CompleteRequest, SystemEvent
  <1>2. CASE RetryProvisioning(c, r)
    BY <1>2 DEF RetryProvisioning
  <1>3. ASSUME NEW approve \in BOOLEAN, DecideExtension(c, r, approve)
        PROVE  \E w : Begin(c, w)
    BY <1>3, Zenon DEF DecideExtension
  <1>4. ASSUME NEW k, FailJob(c, r, k)
        PROVE  \E w : Begin(c, w)
    BY <1>4, Zenon DEF FailJob
  <1>5. ASSUME NEW k, NEW ok, HandleResult(c, r, k, ok)
        PROVE  \E w : Begin(c, w)
    BY <1>5, Zenon DEF HandleResult
  <1>6. QED
    BY <1>1, <1>2, <1>3, <1>4, <1>5 DEF ClientBegins

LEMMA StepKeepsJobs ==
    ASSUME TypeOK, [Next]_vars
    PROVE  JobsKept
  <1>0. jobs \in [Requests -> Seq(Job)]
    BY DEF TypeOK
  <1>1. ASSUME UNCHANGED jobs PROVE JobsKept
    BY <1>1 DEF JobsKept
  <1>2. ASSUME NEW c \in Clients, ClientStep(c)
        PROVE  JobsKept
    <2>1. c \in Procs
      BY DEF Procs
    <2>2. CASE Abort(c)
      BY <1>1, <2>2 DEF Abort, db
    <2>3. CASE \E r \in Requests : ClientBegins(c, r)
      BY <1>1, <2>3, BeginsOnlyPlan DEF db
    <2>4. QED
      BY <1>2, <2>1, <2>2, <2>3, CommitKeepsJobs DEF ClientStep, ClientBegins
  <1>3. ASSUME NEW s \in Schedulers, SchedulerStep(s)
        PROVE  JobsKept
    <2>1. s \in Procs
      BY DEF Procs
    <2>2. CASE CommitSystemEvent(s)
      BY <2>1, <2>2, CommitKeepsJobs
    <2>3. CASE \E r \in Requests : SystemEvent(s, r)
      BY <1>1, <2>3, BeginsOnlyPlan DEF db
    <2>4. CASE ~CommitSystemEvent(s) /\ ~\E r \in Requests : SystemEvent(s, r)
      BY <1>1, <1>3, <2>4 DEF SchedulerStep, StartPass, ListEnded, EndPass, AbortSystemEvent, CrashInPass,
                              SkipSystemEvent, db
    <2>5. QED
      BY <2>2, <2>3, <2>4
  <1>4. ASSUME NEW r \in Requests, NEW k \in 1..MaxJobs, Dispatch(r, k)
        PROVE  JobsKept
    <2> DEFINE js == [jobs[r] EXCEPT ![k].status = "Sent"]
    <2>1. jobs[r] \in Seq(Job) /\ "Sent" \in AnyStatus
      BY <1>0 DEF AnyStatus, ActiveJob
    <2>2. /\ DOMAIN js = DOMAIN jobs[r]
          /\ \A i \in DOMAIN jobs[r] : js[i].action = jobs[r][i].action /\ (i # k => js[i] = jobs[r][i])
      BY <2>1, JobStatusChange
    <2>3. jobs' = [jobs EXCEPT ![r] = js] /\ jobs[r][k].status \in ActiveJob
      BY <1>0, <1>4 DEF Dispatch, ActiveJob
    <2>4. QED
      BY <1>0, <2>2, <2>3 DEF JobsKept
  <1>5. ASSUME NEW r \in Requests,
               \/ \E d \in Days, f \in Forms : CreateRequest(r, d, f)
               \/ \E d \in Days : RequestExtension(r, d)
               \/ \E k \in 1..MaxJobs : DispatchRolledBack(r, k)
        PROVE  JobsKept
    BY <1>1, <1>5 DEF CreateRequest, RequestExtension, DispatchRolledBack, db
  <1>6. CASE LeaseLapses \/ NextDay \/ UNCHANGED vars
    BY <1>1, <1>6 DEF LeaseLapses, NextDay, vars, db
  <1>7. QED
    BY <1>2, <1>3, <1>4, <1>5, <1>6 DEF Next

\* No redelivered or late result, dead letter, time-out or second send changes
\* a job that has Succeeded or Failed (handleResult, failJob, dispatchQueued).
THEOREM OutcomesAreFinal == Spec => OutcomeIsFinal
  <1>1. ASSUME TypeOK, [Next]_vars
        PROVE  [\A r \in Requests : \A k \in DOMAIN jobs[r] :
                   jobs[r][k].status \notin ActiveJob => jobs'[r][k] = jobs[r][k]]_jobs
    BY <1>1, StepKeepsJobs DEF JobsKept
  <1>2. QED
    BY <1>1, TypeCorrect, PTL DEF Spec, OutcomeIsFinal

-----------------------------------------------------------------------------
(* Access ends with its request: the inductive invariant *)

\* js lists a job with this action.
Listed(js, action) == \E i \in DOMAIN js : js[i].action = action

\* What was approved, and was not rejected, has its setup in the outbox.
SetUpIsQueued ==
    \A r \in Automated :
        request[r].status \in {"Approved", "On_Use", "Completed"} => Listed(jobs[r], "CREATE")

\* What an open transaction w planned from its snapshot still holds of the
\* jobs js of its request when it commits: it inserts the job, or there is one
\* already; and the moves it may make.
PlanOK(w, js) ==
    /\ w.event = "APPROVED" /\ w.rid \in Automated => w.job # NoJob /\ w.job.action = "CREATE"
    /\ w.event \in {"COMPLETED", "EXPIRED"} /\ w.rid \in Automated =>
         \/ w.job # NoJob /\ w.job.action = "REVOKE"
         \/ Listed(js, "REVOKE")
    /\ w.event = "APPROVED" => w.to = "Approved"
    /\ w.event = "REJECTED" => w.to = "Rejected"
    /\ w.event = "ACTIVATED" => w.from = "Approved" /\ w.to = "On_Use"
    /\ w.event = "COMPLETED" => w.from = "On_Use" /\ w.to = "Completed"
    /\ w.event \in Successes \cup Failures /\ w.to # w.from =>
         \/ w.from = "Approved" /\ w.to = "On_Use"
         \/ w.from = "On_Use" /\ w.to = "Completed" /\ Listed(js, "REVOKE")

PlansOK == \A p \in Procs : tx[p] # Idle => PlanOK(tx[p], jobs[tx[p].rid])

\* The scheduler found r to have ended.
FoundEnded(r) == \E i \in DOMAIN log[r] : log[r][i].event = "EXPIRED"

RemovalIsQueued ==
    \A r \in Automated : request[r].status = "Completed" \/ FoundEnded(r) => Listed(jobs[r], "REVOKE")

IInv == TypeOK /\ SetUpIsQueued /\ PlansOK /\ RemovalIsQueued

LEMMA HasIsListed ==
    ASSUME TypeOK, NEW r \in Requests, NEW a
    PROVE  Has(r, a, AnyStatus) <=> Listed(jobs[r], a)
  <1>1. \A i \in DOMAIN jobs[r] : jobs[r][i].status \in AnyStatus
    <2>1. \A i \in DOMAIN jobs[r] : jobs[r][i] \in Job
      BY DEF TypeOK
    <2>2. QED
      BY <2>1 DEF Job, AnyStatus
  <1>2. QED
    BY <1>1 DEF Has, Listed

\* A job that is there stays there.
LEMMA ListedKept ==
    ASSUME JobsKept, NEW r \in Requests, NEW a, Listed(jobs[r], a)
    PROVE  Listed(jobs'[r], a)
  BY DEF JobsKept, Listed

\* The three parts of a step of the invariant.
LEMMA PlansStep ==
    ASSUME IInv, JobsKept,
           \A p \in Procs : tx'[p] \in {tx[p], Idle} \/ PlanOK(tx'[p], jobs'[tx'[p].rid])
    PROVE  PlansOK'
  <1>1. ASSUME NEW p \in Procs, tx[p] # Idle
        PROVE  PlanOK(tx[p], jobs'[tx[p].rid])
    <2> DEFINE w == tx[p]
    <2>1. w \in Txn /\ PlanOK(w, jobs[w.rid])
      BY <1>1 DEF IInv, PlansOK, TypeOK
    <2>2. w.rid \in Requests
      BY <2>1 DEF Txn
    <2>3. Listed(jobs[w.rid], "REVOKE") => Listed(jobs'[w.rid], "REVOKE")
      BY <2>2, ListedKept
    <2>4. QED
      BY <2>1, <2>3 DEF PlanOK
  <1>2. ASSUME NEW p \in Procs, tx'[p] # Idle
        PROVE  PlanOK(tx'[p], jobs'[tx'[p].rid])
    <2>1. CASE tx'[p] = tx[p]
      <3>1. tx[p] # Idle
        BY <1>2, <2>1
      <3>2. PlanOK(tx[p], jobs'[tx[p].rid])
        BY <1>1, <3>1
      <3>3. QED
        BY <2>1, <3>2
    <2>2. QED
      BY <1>2, <2>1
  <1>3. QED
    BY <1>2 DEF PlansOK

LEMMA SetUpStep ==
    ASSUME IInv, JobsKept,
           \A r \in Automated : request'[r].status \in {"Approved", "On_Use", "Completed"} =>
               \/ request[r].status \in {"Approved", "On_Use", "Completed"}
               \/ Listed(jobs'[r], "CREATE")
    PROVE  SetUpIsQueued'
  <1>1. Automated \subseteq Requests
    BY SetsAssumption
  <1>2. QED
    BY <1>1, ListedKept DEF IInv, SetUpIsQueued

LEMMA RemovalStep ==
    ASSUME IInv, JobsKept,
           \A r \in Automated : request'[r].status = "Completed" =>
               request[r].status = "Completed" \/ Listed(jobs'[r], "REVOKE"),
           \A r \in Automated : FoundEnded(r)' => FoundEnded(r) \/ Listed(jobs'[r], "REVOKE")
    PROVE  RemovalIsQueued'
  <1>1. Automated \subseteq Requests
    BY SetsAssumption
  <1>2. QED
    BY <1>1, ListedKept DEF IInv, RemovalIsQueued

LEMMA LogStep ==
    ASSUME TypeOK, NEW r \in Requests, NEW e, LogEvent(r, e), NEW q \in Requests, FoundEnded(q)'
    PROVE  FoundEnded(q) \/ (q = r /\ e.event = "EXPIRED")
  <1>1. log[r] \in Seq(Entry) /\ log' = [log EXCEPT ![r] = Append(log[r], e)]
    BY DEF TypeOK, LogEvent
  <1>2. PICK i \in DOMAIN log'[q] : log'[q][i].event = "EXPIRED"
    BY DEF FoundEnded
  <1>3. CASE q # r
    BY <1>1, <1>2, <1>3 DEF FoundEnded, TypeOK
  <1>4. CASE q = r
    <2>1. log'[r] = Append(log[r], e)
      BY <1>1 DEF TypeOK
    <2>2. CASE i = Len(log[r]) + 1
      BY <1>1, <1>2, <1>4, <2>1, <2>2
    <2>3. CASE i # Len(log[r]) + 1
      <3>1. i \in DOMAIN log[r] /\ log'[r][i] = log[r][i]
        BY <1>1, <1>2, <1>4, <2>1, <2>3
      <3>2. QED
        BY <1>2, <1>4, <3>1 DEF FoundEnded
    <2>4. QED
      BY <2>2, <2>3
  <1>5. QED
    BY <1>3, <1>4

\* A step that changes no status, logs no EXPIRED and begins no transaction.
LEMMA QuietStep ==
    ASSUME IInv, TypeOK', JobsKept,
           \A r \in Requests : request'[r].status \in {request[r].status, "Pending"},
           \A r \in Requests : FoundEnded(r)' => FoundEnded(r),
           \A p \in Procs : tx'[p] \in {tx[p], Idle}
    PROVE  IInv'
  <1>1. Automated \subseteq Requests
    BY SetsAssumption
  <1>2. PlansOK'
    BY PlansStep
  <1>3. SetUpIsQueued'
    BY <1>1, SetUpStep
  <1>4. RemovalIsQueued'
    BY <1>1, RemovalStep
  <1>5. QED
    BY <1>2, <1>3, <1>4 DEF IInv

\* Beginning a transaction whose plan holds.
LEMMA BeginStep ==
    ASSUME IInv, TypeOK', NEW p \in Procs, NEW w, Begin(p, w), PlanOK(w, jobs[w.rid])
    PROVE  IInv'
  <1>1. UNCHANGED <<request, jobs, log>> /\ tx' = [tx EXCEPT ![p] = w]
    BY DEF Begin, db
  <1>2. JobsKept
    BY <1>1 DEF JobsKept
  <1>3. PlansOK'
    <2>1. \A q \in Procs : tx'[q] \in {tx[q], Idle} \/ PlanOK(tx'[q], jobs'[tx'[q].rid])
      <3> SUFFICES ASSUME NEW q \in Procs
                   PROVE  tx'[q] \in {tx[q], Idle} \/ PlanOK(tx'[q], jobs'[tx'[q].rid])
        OBVIOUS
      <3>1. CASE q = p
        <4>1. tx'[q] = w
          BY <1>1, <3>1 DEF IInv, TypeOK
        <4>2. QED
          BY <1>1, <4>1
      <3>2. CASE q # p
        BY <1>1, <3>2 DEF IInv, TypeOK
      <3>3. QED
        BY <3>1, <3>2
    <2>2. QED
      BY <1>2, <2>1, PlansStep
  <1>4. SetUpIsQueued'
    BY <1>1 DEF IInv, SetUpIsQueued
  <1>5. RemovalIsQueued'
    BY <1>1 DEF IInv, RemovalIsQueued, FoundEnded
  <1>6. QED
    BY <1>3, <1>4, <1>5 DEF IInv

\* A request in use that has been set up: a REVOKE is planned or waiting.
LEMMA RevokePlanned ==
    ASSUME IInv, NEW r \in Automated, request[r].status = "On_Use"
    PROVE  \/ RevokeJob(r) # NoJob /\ RevokeJob(r).action = "REVOKE"
           \/ Listed(jobs[r], "REVOKE")
  <1>1. r \in Requests /\ TypeOK
    BY SetsAssumption DEF IInv
  <1>2. SetUpAutomatically(r)
    BY <1>1, HasIsListed DEF SetUpAutomatically, IInv, SetUpIsQueued
  <1>3. Has(r, "REVOKE", AnyStatus \ {"Failed"}) => Listed(jobs[r], "REVOKE")
    BY DEF Has, Listed
  <1>4. \A d, v : NewJob("REVOKE", d, v).action = "REVOKE" /\ NewJob("REVOKE", d, v) # NoJob
    BY DEF NewJob, NoJob
  <1>5. QED
    BY <1>2, <1>3, <1>4 DEF RevokeJob

LEMMA ClientBeginStep ==
    ASSUME IInv, TypeOK', NEW c \in Clients, NEW r \in Requests, ClientBegins(c, r)
    PROVE  IInv'
  <1>0. c \in Procs /\ TypeOK
    BY DEF Procs, IInv
  <1>1. SUFFICES \E w : Begin(c, w) /\ PlanOK(w, jobs[w.rid])
    BY <1>0, BeginStep
  <1>2. ASSUME NEW d \in Days, NEW f \in Forms, EditRequest(c, r, d, f)
        PROVE  \E w : Begin(c, w) /\ PlanOK(w, jobs[w.rid])
    <2> DEFINE w == [Plan("EDITED", r, "Pending") EXCEPT !.end = d, !.extras = f]
    <2>1. Begin(c, w)
      BY <1>2 DEF EditRequest
    <2>2. w.event = "EDITED" /\ w.rid = r
      BY DEF Plan
    <2>3. PlanOK(w, jobs[r])
      BY <2>2 DEF PlanOK, Transitions, Successes, Failures
    <2>4. QED
      BY <2>1, <2>2, <2>3
  <1>3. CASE ApproveRequest(c, r)
    <2> DEFINE w == [Plan("APPROVED", r, "Approved") EXCEPT !.job = CreateJob(r)]
    <2>1. r \in Automated => w.job.action = "CREATE" /\ w.job # NoJob
      BY DEF CreateJob, NewJob, NoJob, Plan
    <2>2. w.event = "APPROVED" /\ w.rid = r /\ w.to = "Approved"
      BY DEF Plan
    <2>3. PlanOK(w, jobs[r])
      BY <2>1, <2>2 DEF PlanOK, Successes, Failures
    <2>4. Begin(c, w)
      BY <1>3 DEF ApproveRequest
    <2>5. QED
      BY <2>2, <2>3, <2>4
  <1>4. CASE RejectRequest(c, r)
    BY <1>4 DEF RejectRequest, Plan, PlanOK, Successes, Failures
  <1>5. CASE ActivateRequest(c, r)
    BY <1>5 DEF ActivateRequest, Plan, PlanOK, Successes, Failures
  <1>6. CASE CompleteRequest(c, r)
    <2> DEFINE w == [Plan("COMPLETED", r, "Completed") EXCEPT !.job = RevokeJob(r)]
    <2>1. request[r].status = "On_Use" /\ Begin(c, w)
      BY <1>6 DEF CompleteRequest
    <2>2. w.event = "COMPLETED" /\ w.rid = r /\ w.from = "On_Use" /\ w.to = "Completed" /\ w.job = RevokeJob(r)
      BY <2>1 DEF Plan
    <2>3. PlanOK(w, jobs[r])
      BY <2>1, <2>2, RevokePlanned DEF PlanOK, Successes, Failures
    <2>4. QED
      BY <2>1, <2>2, <2>3
  <1>7. CASE RetryProvisioning(c, r)
    <2> DEFINE last == jobs[r][Len(jobs[r])]
               job == NewJob(last.action, RetriedPeriod(r), last.action = "REVOKE" /\ ~KeepsVpn(r))
               w == [Plan("RETRIED", r, request[r].status) EXCEPT !.job = job]
    <2>1. Begin(c, w)
      BY <1>7 DEF RetryProvisioning
    <2>2. w.event = "RETRIED" /\ w.rid = r
      BY DEF Plan
    <2>3. PlanOK(w, jobs[r])
      BY <2>2 DEF PlanOK, Successes, Failures
    <2>4. QED
      BY <2>1, <2>2, <2>3
  <1>8. ASSUME NEW approve \in BOOLEAN, DecideExtension(c, r, approve)
        PROVE  \E w : Begin(c, w) /\ PlanOK(w, jobs[w.rid])
    <2> DEFINE no == [Plan("EXTENSION_REJECTED", r, request[r].status) EXCEPT !.end = request[r].ask]
               yes == [no EXCEPT !.event = "EXTENSION_APPROVED", !.job = ExtendJob(r, no.end)]
               w == IF approve THEN yes ELSE no
    <2>1. Begin(c, w)
      BY <1>8 DEF DecideExtension
    <2>2. no.event = "EXTENSION_REJECTED" /\ no.rid = r /\ yes.event = "EXTENSION_APPROVED" /\ yes.rid = r
      BY DEF Plan
    <2>3. w.rid = r /\ w.event \in Decisions
      BY <2>2 DEF Decisions
    <2> HIDE DEF w
    <2>4. PlanOK(w, jobs[r])
      BY <2>3 DEF PlanOK, Decisions, Successes, Failures
    <2>5. QED
      BY <2>1, <2>3, <2>4
  <1>9. ASSUME NEW k \in 1..MaxJobs, FailJob(c, r, k) \/ \E ok \in BOOLEAN : HandleResult(c, r, k, ok)
        PROVE  \E w : Begin(c, w) /\ PlanOK(w, jobs[w.rid])
    <2> DEFINE job == jobs[r][k]
    <2>1. k \in DOMAIN jobs[r]
      BY <1>9 DEF FailJob, HandleResult
    <2>2. job \in Job
      BY <1>0, <2>1 DEF TypeOK
    <2>3. \A ok \in BOOLEAN : ResultEvent(job.action, ok) \in Successes \cup Failures
      BY <2>2 DEF ResultEvent, Job, JobActions, Successes, Failures
    <2>4. \A e \in Successes \cup Failures : e \notin Transitions \cup {"EXPIRED"}
      BY DEF Transitions, Successes, Failures
    <2>5. CASE FailJob(c, r, k)
      <3> DEFINE w == [Plan(ResultEvent(job.action, FALSE), r, request[r].status) EXCEPT !.k = k]
      <3>1. Begin(c, w)
        BY <2>5 DEF FailJob
      <3>2. w.event \in Successes \cup Failures /\ w.rid = r /\ w.from = w.to
        BY <2>3 DEF Plan
      <3> HIDE DEF w
      <3>3. PlanOK(w, jobs[r])
        BY <2>4, <3>2 DEF PlanOK, Transitions
      <3>4. QED
        BY <3>1, <3>2, <3>3
    <2>6. ASSUME NEW ok \in BOOLEAN, HandleResult(c, r, k, ok)
          PROVE  \E w : Begin(c, w) /\ PlanOK(w, jobs[w.rid])
      <3> DEFINE to == CASE ok /\ job.action = "CREATE" /\ request[r].status = "Approved" -> "On_Use"
                         [] ok /\ job.action = "REVOKE" /\ request[r].status = "On_Use" -> "Completed"
                         [] OTHER -> request[r].status
                 w == [Plan(ResultEvent(job.action, ok), r, to) EXCEPT !.k = k]
      <3>1. Begin(c, w)
        BY <2>6 DEF HandleResult
      <3>2. w.event \in Successes \cup Failures /\ w.rid = r /\ w.from = request[r].status /\ w.to = to
        BY <2>3 DEF Plan
      <3>3. to # request[r].status =>
              \/ request[r].status = "Approved" /\ to = "On_Use"
              \/ request[r].status = "On_Use" /\ to = "Completed" /\ Listed(jobs[r], "REVOKE")
        BY <2>1 DEF Listed
      <3> HIDE DEF w, to
      <3>4. PlanOK(w, jobs[r])
        BY <2>4, <3>2, <3>3 DEF PlanOK, Transitions
      <3>5. QED
        BY <3>1, <3>2, <3>4
    <2>7. QED
      BY <1>9, <2>5, <2>6
  <1>10. QED
    BY <1>2, <1>3, <1>4, <1>5, <1>6, <1>7, <1>8, <1>9 DEF ClientBegins

\* Committing a transaction: only its own request changes.
LEMMA WriteStep ==
    ASSUME IInv, TypeOK', JobsKept, NEW p \in Procs, tx[p] \in Txn, NEW row, NEW js, Write(p, row, js),
           tx[p].rid \in Automated =>
             /\ row.status \in {"Approved", "On_Use", "Completed"} =>
                  \/ request[tx[p].rid].status \in {"Approved", "On_Use", "Completed"}
                  \/ Listed(js, "CREATE")
             /\ row.status = "Completed" =>
                  request[tx[p].rid].status = "Completed" \/ Listed(js, "REVOKE")
             /\ tx[p].event = "EXPIRED" => Listed(js, "REVOKE")
    PROVE  IInv'
  <1> DEFINE w == tx[p]
             e == [event |-> w.event, from |-> w.from, to |-> w.to, end |-> w.end]
  <1>1. w.rid \in Requests /\ Automated \subseteq Requests /\ TypeOK
    BY SetsAssumption DEF Txn, IInv
  <1>2. /\ request' = [request EXCEPT ![w.rid] = row]
        /\ jobs' = [jobs EXCEPT ![w.rid] = js]
        /\ LogEvent(w.rid, e)
        /\ tx' = [tx EXCEPT ![p] = Idle]
    BY DEF Write
  <1>3. /\ request'[w.rid] = row /\ jobs'[w.rid] = js
        /\ \A q \in Requests : q # w.rid => request'[q] = request[q] /\ jobs'[q] = jobs[q]
        /\ \A q \in Procs : tx'[q] \in {tx[q], Idle}
    BY <1>1, <1>2 DEF TypeOK
  <1>4. PlansOK'
    BY <1>3, PlansStep
  <1>5. SetUpIsQueued'
    BY <1>1, <1>3, SetUpStep
  <1>6. RemovalIsQueued'
    <2>1. \A q \in Requests : FoundEnded(q)' => FoundEnded(q) \/ (q = w.rid /\ w.event = "EXPIRED")
      BY <1>1, <1>2, LogStep
    <2>2. QED
      BY <1>1, <1>3, <2>1, RemovalStep
  <1>7. QED
    BY <1>4, <1>5, <1>6 DEF IInv

LEMMA QueueLists ==
    ASSUME TypeOK, NEW r \in Requests, NEW job \in Job \cup {NoJob}
    PROVE  /\ job # NoJob => Listed(Queue(r, job), job.action)
           /\ \A a : Listed(jobs[r], a) => Listed(Queue(r, job), a)
  BY QueueJob DEF Listed

\* What commits is an open transaction.
LEMMA CommitsAreOpen ==
    ASSUME NEW p,
           \/ CommitEdit(p) \/ CommitTransition(p) \/ CommitDecision(p) \/ CommitRetry(p) \/ CommitOutcome(p)
           \/ CommitSystemEvent(p)
    PROVE  tx[p] # Idle
  <1>1. CASE CommitEdit(p) \/ CommitRetry(p)
    BY <1>1 DEF CommitEdit, CommitRetry, Idle
  <1>2. CASE CommitTransition(p) \/ CommitDecision(p)
    BY <1>2 DEF CommitTransition, CommitDecision, Idle, Transitions, Decisions
  <1>3. CASE CommitOutcome(p)
    BY <1>3 DEF CommitOutcome, Idle, Successes, Failures
  <1>4. CASE CommitSystemEvent(p)
    BY <1>4 DEF CommitSystemEvent, Idle, Marks
  <1>5. QED
    BY <1>1, <1>2, <1>3, <1>4

LEMMA CommitStep ==
    ASSUME IInv, TypeOK', NEW p \in Procs,
           \/ CommitEdit(p) \/ CommitTransition(p) \/ CommitDecision(p) \/ CommitRetry(p) \/ CommitOutcome(p)
           \/ CommitSystemEvent(p)
    PROVE  IInv'
  <1> DEFINE w == tx[p]
             row == request[w.rid]
             queued == Queue(w.rid, w.job)
  <1>1. TypeOK /\ w \in Txn /\ JobsKept
    BY CommitKeepsJobs DEF IInv
  <1>2. /\ w.rid \in Requests /\ w.job \in Job \cup {NoJob} /\ row \in Row
        /\ PlanOK(w, jobs[w.rid])
    <2>1. w # Idle
      BY CommitsAreOpen
    <2>2. QED
      BY <1>1, <2>1 DEF Txn, TypeOK, IInv, PlansOK
  <1>3. /\ w.job # NoJob => Listed(queued, w.job.action)
        /\ \A a : Listed(jobs[w.rid], a) => Listed(queued, a)
    BY <1>1, <1>2, QueueLists
  <1>4. \A d, a, f : /\ [row EXCEPT !.end = d, !.extras = f].status = row.status
                     /\ [row EXCEPT !.end = d, !.ask = a, !.extras = f].status = row.status
                     /\ \A st \in Statuses : /\ [row EXCEPT !.status = st].status = st
                                             /\ [row EXCEPT !.status = st, !.extras = f].status = st
    BY <1>2 DEF Row
  <1>5. CASE CommitEdit(p)
    <2> DEFINE new == [row EXCEPT !.end = w.end, !.extras = w.extras]
    <2>1. Write(p, new, jobs[w.rid]) /\ w.event = "EDITED" /\ new.status = row.status
      BY <1>4, <1>5 DEF CommitEdit
    <2> HIDE DEF new
    <2>2. QED
      BY <1>1, <2>1, WriteStep
  <1>6. CASE CommitTransition(p)
    <2> DEFINE extras == IF w.event \in {"APPROVED", "REJECTED"} THEN w.extras ELSE row.extras
               new == [row EXCEPT !.status = w.to, !.extras = extras]
    <2>1. Write(p, new, queued) /\ w.event \in Transitions /\ row.status = w.from
      BY <1>6 DEF CommitTransition, UpdateMatches
    <2>2. new.status = w.to
      BY <1>1, <1>4 DEF Txn
    <2> HIDE DEF new
    <2>3. w.rid \in Automated =>
             /\ new.status \in {"Approved", "On_Use", "Completed"} =>
                  row.status \in {"Approved", "On_Use", "Completed"} \/ Listed(queued, "CREATE")
             /\ new.status = "Completed" => row.status = "Completed" \/ Listed(queued, "REVOKE")
             /\ w.event = "EXPIRED" => Listed(queued, "REVOKE")
      <3>1. CASE w.event = "APPROVED"
        BY <1>2, <1>3, <2>1, <2>2, <3>1 DEF PlanOK
      <3>2. CASE w.event = "REJECTED"
        BY <1>2, <2>1, <2>2, <3>2 DEF PlanOK
      <3>3. CASE w.event = "ACTIVATED"
        BY <1>2, <2>1, <2>2, <3>3 DEF PlanOK
      <3>4. CASE w.event = "COMPLETED"
        BY <1>2, <1>3, <2>1, <2>2, <3>4 DEF PlanOK
      <3>5. QED
        BY <2>1, <3>1, <3>2, <3>3, <3>4 DEF Transitions
    <2>4. QED
      BY <1>1, <2>1, <2>3, WriteStep
  <1>7. CASE CommitDecision(p)
    <2> DEFINE new == [row EXCEPT !.end = DecidedEnd(w, @), !.ask = 0, !.extras = w.extras]
    <2>1. Write(p, new, queued) /\ w.event \in Decisions
      BY <1>7 DEF CommitDecision
    <2>2. new.status = row.status
      BY <1>2 DEF Row
    <2> HIDE DEF new
    <2>3. w.event # "EXPIRED"
      BY <2>1 DEF Decisions
    <2>4. QED
      BY <1>1, <2>1, <2>2, <2>3, WriteStep
  <1>8. CASE CommitRetry(p)
    <2>1. Write(p, row, queued) /\ w.event = "RETRIED"
      BY <1>8 DEF CommitRetry
    <2>2. QED
      BY <1>1, <2>1, WriteStep
  <1>9. CASE CommitOutcome(p)
    <2> DEFINE new == IF w.to # w.from THEN [row EXCEPT !.status = w.to] ELSE row
               outcome == IF w.event \in Successes THEN "Succeeded" ELSE "Failed"
               js == [jobs[w.rid] EXCEPT ![w.k].status = outcome]
    <2>1. /\ Write(p, new, js)
          /\ w.event \in Successes \cup Failures
          /\ w.to # w.from => row.status = w.from
      BY <1>9 DEF CommitOutcome, UpdateMatches
    <2>2. jobs'[w.rid] = js
      BY <1>1, <1>2, <2>1 DEF Write, TypeOK
    <2>3. Listed(jobs[w.rid], "REVOKE") => Listed(js, "REVOKE")
      BY <1>1, <1>2, <2>2, ListedKept
    <2>4. w.event # "EXPIRED"
      BY <2>1 DEF Successes, Failures
    <2>5. new.status = IF w.to # w.from THEN w.to ELSE row.status
      BY <1>1, <1>4 DEF Txn
    <2> HIDE DEF new, js
    <2>6. w.to # w.from => \/ row.status = "Approved" /\ w.to = "On_Use"
                           \/ row.status = "On_Use" /\ w.to = "Completed" /\ Listed(js, "REVOKE")
      BY <1>2, <2>1, <2>3 DEF PlanOK
    <2>7. QED
      BY <1>1, <2>1, <2>4, <2>5, <2>6, WriteStep
  <1>10. CASE CommitSystemEvent(p)
    <2>1. Write(p, row, queued)
      BY <1>10 DEF CommitSystemEvent
    <2>2. w.event = "EXPIRED" /\ w.rid \in Automated => Listed(queued, "REVOKE")
      BY <1>2, <1>3 DEF PlanOK
    <2>3. QED
      BY <1>1, <2>1, <2>2, WriteStep
  <1>11. QED
    BY <1>5, <1>6, <1>7, <1>8, <1>9, <1>10

LEMMA InvariantStep ==
    ASSUME IInv, [Next]_vars
    PROVE  IInv'
  <1>0. TypeOK /\ TypeOK' /\ JobsKept
    BY TypeStep, StepKeepsJobs DEF IInv
  <1>1. ASSUME UNCHANGED <<request, log>>, \A p \in Procs : tx'[p] \in {tx[p], Idle}
        PROVE  IInv'
    <2>1. \A r \in Requests : FoundEnded(r)' => FoundEnded(r)
      BY <1>1 DEF FoundEnded
    <2>2. QED
      BY <1>0, <1>1, <2>1, QuietStep
  <1>2. ASSUME NEW c \in Clients, ClientStep(c)
        PROVE  IInv'
    <2>1. c \in Procs
      BY DEF Procs
    <2>2. CASE Abort(c)
      <3>1. \A p \in Procs : tx'[p] \in {tx[p], Idle}
        BY <1>0, <2>2 DEF Abort, TypeOK
      <3>2. QED
        BY <1>1, <2>2, <3>1 DEF Abort, db
    <2>3. CASE \E r \in Requests : ClientBegins(c, r)
      BY <1>0, <2>3, ClientBeginStep
    <2>4. QED
      BY <1>0, <1>2, <2>1, <2>2, <2>3, CommitStep DEF ClientStep, ClientBegins
  <1>3. ASSUME NEW s \in Schedulers, SchedulerStep(s)
        PROVE  IInv'
    <2>1. s \in Procs
      BY DEF Procs
    <2>2. CASE CommitSystemEvent(s)
      BY <1>0, <2>1, <2>2, CommitStep
    <2>3. ASSUME NEW r \in Requests, SystemEvent(s, r)
          PROVE  IInv'
      <3> DEFINE mark == pass[s].step
                 w == [Plan(mark, r, "On_Use") EXCEPT
                         !.end = request[r].end,
                         !.job = IF mark = "EXPIRED" THEN RevokeJob(r) ELSE NoJob]
      <3>1. Begin(s, w) /\ request[r].status = "On_Use" /\ mark \in {"off", "REMINDED", "EXPIRED"}
        BY <1>0, <2>3 DEF SystemEvent, TypeOK, Pass
      <3>2. /\ w.event = mark /\ w.rid = r
            /\ w.job = IF mark = "EXPIRED" THEN RevokeJob(r) ELSE NoJob
        BY DEF Plan
      <3> HIDE DEF w
      <3>3. PlanOK(w, jobs[w.rid])
        BY <3>1, <3>2, RevokePlanned DEF PlanOK, Successes, Failures
      <3>4. QED
        BY <1>0, <2>1, <3>1, <3>3, BeginStep
    <2>4. CASE StartPass(s) \/ ListEnded(s) \/ EndPass(s) \/ \E r \in Requests : SkipSystemEvent(s, r)
      BY <1>1, <2>4 DEF StartPass, ListEnded, EndPass, SkipSystemEvent, db
    <2>5. CASE AbortSystemEvent(s) \/ CrashInPass(s)
      <3>1. \A p \in Procs : tx'[p] \in {tx[p], Idle}
        BY <1>0, <2>5 DEF AbortSystemEvent, CrashInPass, TypeOK
      <3>2. QED
        BY <1>1, <2>5, <3>1 DEF AbortSystemEvent, CrashInPass, db
    <2>6. QED
      BY <1>3, <2>2, <2>3, <2>4, <2>5 DEF SchedulerStep
  <1>4. ASSUME NEW r \in Requests, NEW d \in Days, NEW f \in Forms, CreateRequest(r, d, f)
        PROVE  IInv'
    <2>1. \A q \in Requests : request'[q].status \in {request[q].status, "Pending"}
      BY <1>0, <1>4 DEF CreateRequest, TypeOK
    <2>2. \A q \in Requests : FoundEnded(q)' => FoundEnded(q)
      BY <1>0, <1>4, LogStep DEF CreateRequest
    <2>3. \A p \in Procs : tx'[p] \in {tx[p], Idle}
      BY <1>4 DEF CreateRequest
    <2>4. QED
      BY <1>0, <2>1, <2>2, <2>3, QuietStep
  <1>5. ASSUME NEW r \in Requests, NEW d \in Days, RequestExtension(r, d)
        PROVE  IInv'
    <2>1. \A q \in Requests : request'[q].status \in {request[q].status, "Pending"}
      <3>1. request[r] \in Row /\ request' = [request EXCEPT ![r] = [request[r] EXCEPT !.ask = d]]
        BY <1>0, <1>5 DEF RequestExtension, TypeOK
      <3>2. [request[r] EXCEPT !.ask = d].status = request[r].status
        BY <3>1 DEF Row
      <3>3. QED
        BY <1>0, <3>1, <3>2 DEF TypeOK
    <2>2. \A q \in Requests : FoundEnded(q)' => FoundEnded(q)
      BY <1>0, <1>5, LogStep DEF RequestExtension
    <2>3. \A p \in Procs : tx'[p] \in {tx[p], Idle}
      BY <1>5 DEF RequestExtension
    <2>4. QED
      BY <1>0, <2>1, <2>2, <2>3, QuietStep
  <1>6. ASSUME NEW r \in Requests, NEW k \in 1..MaxJobs, Dispatch(r, k) \/ DispatchRolledBack(r, k)
        PROVE  IInv'
    BY <1>1, <1>6 DEF Dispatch, DispatchRolledBack, db
  <1>7. CASE LeaseLapses \/ NextDay \/ UNCHANGED vars
    BY <1>1, <1>7 DEF LeaseLapses, NextDay, vars, db
  <1>8. QED
    BY <1>2, <1>3, <1>4, <1>5, <1>6, <1>7 DEF Next

LEMMA InvariantInit == Init => IInv
  <1> SUFFICES ASSUME Init PROVE IInv
    OBVIOUS
  <1>1. Automated \subseteq Requests
    BY SetsAssumption
  <1>2. TypeOK
    BY TypeInit
  <1>3. SetUpIsQueued /\ PlansOK /\ RemovalIsQueued
    BY <1>1 DEF Init, SetUpIsQueued, PlansOK, RemovalIsQueued, FoundEnded
  <1>4. QED
    BY <1>2, <1>3 DEF IInv

\* Nobody's access outlives its request: a request set up automatically that is
\* Completed, or was found to have ended, has a REVOKE job in the outbox, for
\* every interleaving of approvers, results and scheduler tasks
\* (buildRevokeJob, expireEndedRequests).
THEOREM AccessEnds == Spec => []EndedIsRevoked
  <1>1. Spec => []IInv
    BY InvariantInit, InvariantStep, PTL DEF Spec
  <1>2. IInv => EndedIsRevoked
    <2> SUFFICES ASSUME IInv PROVE EndedIsRevoked
      OBVIOUS
    <2>1. Automated \subseteq Requests /\ TypeOK
      BY SetsAssumption DEF IInv
    <2>2. QED
      BY <2>1, HasIsListed DEF IInv, RemovalIsQueued, FoundEnded, EndedIsRevoked
  <1>3. QED
    BY <1>1, <1>2, PTL

-----------------------------------------------------------------------------
(* The workflow is implemented: what a handler planned on a snapshot is a   *)
(* step of the workflow when it commits.                                     *)
(*                                                                           *)
(* What the workflow sees of a request                                       *)

St(r) == request[r].status
Asked(js) == {js[i].action : i \in DOMAIN js}
Outs(js) == {<<js[i].action, js[i].status = "Succeeded">> :
                i \in {j \in DOMAIN js : js[j].status \notin ActiveJob}}

\* A bounded set of numbers has a greatest.
LEMMA Greatest ==
    ASSUME NEW S, S \subseteq Nat, S # {}, NEW n \in Nat, \A i \in S : i <= n
    PROVE  \E m \in S : \A i \in S : i <= m
  <1> DEFINE T == {n - i : i \in S}
  <1>1. T \subseteq Nat /\ T # {}
    <2>1. \A i \in S : n - i \in Nat
      OBVIOUS
    <2>2. QED
      BY <2>1
  <1>2. PICK x \in T : \A y \in T : ~(<<y, x>> \in OpToRel(<, Nat))
    BY <1>1, WFMin, NatLessThanWellFounded, Zenon
  <1>3. \A y \in T : ~(y < x)
    BY <1>1, <1>2 DEF OpToRel
  <1>4. PICK m \in S : x = n - m
    OBVIOUS
  <1>5. ASSUME NEW i \in S PROVE i <= m
    <2>1. n - i \in T /\ ~(n - i < n - m)
      BY <1>3, <1>4
    <2>2. QED
      BY <2>1
  <1>6. QED
    BY <1>4, <1>5

\* A new job is asked for and has no outcome yet.
LEMMA QueuedIsAsked ==
    ASSUME NEW js \in Seq(Job), NEW job \in Job, job.status = "Queued"
    PROVE  /\ Asked(Append(js, job)) = Asked(js) \cup {job.action}
           /\ Outs(Append(js, job)) = Outs(js)
  <1> DEFINE ks == Append(js, job)
             n == Len(js) + 1
  <1>1. /\ DOMAIN js = 1..Len(js) /\ DOMAIN ks = 1..n /\ Len(js) \in Nat
        /\ ks[n] = job /\ \A i \in DOMAIN js : ks[i] = js[i]
    OBVIOUS
  <1>2. DOMAIN ks = DOMAIN js \cup {n}
    BY <1>1
  <1> HIDE DEF ks, n
  <1>3. Asked(ks) = Asked(js) \cup {job.action}
    <2>1. ks[n].action = job.action /\ \A i \in DOMAIN js : ks[i].action = js[i].action
      BY <1>1
    <2>2. \A a : a \in Asked(ks) <=> \E i \in DOMAIN ks : a = ks[i].action
      BY DEF Asked
    <2>3. \A a : a \in Asked(js) <=> \E i \in DOMAIN js : a = js[i].action
      BY DEF Asked
    <2>4. \A a : a \in Asked(ks) <=> a \in Asked(js) \/ a = job.action
      BY <1>2, <2>1, <2>2, <2>3
    <2>5. QED
      BY <2>4
  <1>4. {j \in DOMAIN ks : ks[j].status \notin ActiveJob} = {j \in DOMAIN js : js[j].status \notin ActiveJob}
    BY <1>1, <1>2 DEF ActiveJob
  <1>5. Outs(ks) = Outs(js)
    BY <1>1, <1>4 DEF Outs
  <1>6. QED
    BY <1>3, <1>5 DEF ks

\* A job that is sent is asked for and without outcome as before.
LEMMA SentIsAsked ==
    ASSUME NEW js \in Seq(Job), NEW k \in DOMAIN js, js[k].status \in ActiveJob
    PROVE  /\ Asked([js EXCEPT ![k].status = "Sent"]) = Asked(js)
           /\ Outs([js EXCEPT ![k].status = "Sent"]) = Outs(js)
  <1> DEFINE ks == [js EXCEPT ![k].status = "Sent"]
  <1>1. /\ DOMAIN ks = DOMAIN js
        /\ \A i \in DOMAIN js : ks[i].action = js[i].action /\ (i # k => ks[i] = js[i])
    BY JobStatusChange DEF AnyStatus, ActiveJob
  <1>2. js[k] \in Job /\ ks[k] = [js[k] EXCEPT !.status = "Sent"]
    OBVIOUS
  <1>3. ks[k].status = "Sent"
    BY <1>2 DEF Job
  <1> HIDE DEF ks
  <1>4. {j \in DOMAIN ks : ks[j].status \notin ActiveJob} = {j \in DOMAIN js : js[j].status \notin ActiveJob}
    BY <1>1, <1>3 DEF ActiveJob
  <1>5. Outs(ks) = Outs(js)
    <2>1. \A i \in {j \in DOMAIN js : js[j].status \notin ActiveJob} : ks[i] = js[i]
      BY <1>1
    <2>2. QED
      BY <1>4, <2>1 DEF Outs
  <1>6. Asked(ks) = Asked(js)
    BY <1>1 DEF Asked
  <1>7. QED
    BY <1>5, <1>6 DEF ks

\* An outcome is added to those there are.
LEMMA OutcomeIsAdded ==
    ASSUME NEW js \in Seq(Job), NEW k \in DOMAIN js, js[k].status \in ActiveJob,
           NEW st \in {"Succeeded", "Failed"}
    PROVE  /\ Asked([js EXCEPT ![k].status = st]) = Asked(js)
           /\ Outs([js EXCEPT ![k].status = st]) = Outs(js) \cup {<<js[k].action, st = "Succeeded">>}
  <1> DEFINE ks == [js EXCEPT ![k].status = st]
             Over(x) == {j \in DOMAIN x : x[j].status \notin ActiveJob}
  <1>1. /\ DOMAIN ks = DOMAIN js
        /\ \A i \in DOMAIN js : ks[i].action = js[i].action /\ (i # k => ks[i] = js[i])
    BY JobStatusChange DEF AnyStatus, ActiveJob
  <1>2. js[k] \in Job /\ ks[k] = [js[k] EXCEPT !.status = st]
    OBVIOUS
  <1>3. ks[k].status = st
    BY <1>2 DEF Job
  <1> HIDE DEF ks
  <1>4. Over(ks) = Over(js) \cup {k} /\ k \notin Over(js)
    BY <1>1, <1>3 DEF ActiveJob
  <1>5. \A i \in Over(js) : ks[i] = js[i]
    BY <1>1, <1>4
  <1> DEFINE f(x, i) == <<x[i].action, x[i].status = "Succeeded">>
  <1>6. f(ks, k) = <<js[k].action, st = "Succeeded">>
    BY <1>1, <1>3
  <1>7. \A i \in Over(js) : f(ks, i) = f(js, i)
    BY <1>5
  <1>8. Outs(ks) = {f(ks, i) : i \in Over(ks)} /\ Outs(js) = {f(js, i) : i \in Over(js)}
    BY DEF Outs
  <1> HIDE DEF f, Over
  <1>9. Outs(ks) = Outs(js) \cup {<<js[k].action, st = "Succeeded">>}
    BY <1>4, <1>6, <1>7, <1>8
  <1>10. Asked(ks) = Asked(js)
    BY <1>1 DEF Asked
  <1>11. QED
    BY <1>9, <1>10 DEF ks

-----------------------------------------------------------------------------
(* A step of the workflow, seen from one request *)

\* From status s, asked a and outcomes o to t, b and p.
LocalStep(r, s, a, o, t, b, p) ==
    \/ s = "None" /\ t = "Pending" /\ b = a /\ p = o
    \/ s = "Pending" /\ t = "Approved" /\ b = a \cup (IF r \in Automated THEN {"CREATE"} ELSE {}) /\ p = o
    \/ s = "Pending" /\ t = "Rejected" /\ b = a /\ p = o
    \/ /\ s = "Approved" /\ t = "On_Use" /\ b = a /\ p = o
       /\ r \in Automated => <<"CREATE", FALSE>> \in o
    \/ s = "On_Use" /\ t = "Completed" /\ b = a \cup (IF r \in Automated THEN {"REVOKE"} ELSE {}) /\ p = o
    \/ /\ r \in Automated /\ s \in {"On_Use", "Completed"} /\ t = s /\ p = o
       /\ \E action \in {"REVOKE", "EXTEND"} : b = a \cup {action}
    \/ \E action \in a, ok \in BOOLEAN :
          /\ b = a /\ p = o \cup {<<action, ok>>}
          /\ t = CASE ok /\ action = "CREATE" /\ s = "Approved" -> "On_Use"
                   [] ok /\ action = "REVOKE" /\ s = "On_Use" -> "Completed"
                   [] OTHER -> s
    \/ t = s /\ b = a /\ p = o

\* What was asked of the site fits the status, and an Approved request has no
\* setup that succeeded.
SoundAt(r, s, a, o) ==
    /\ s \in Statuses /\ a \subseteq JobActions /\ o \subseteq a \X BOOLEAN
    /\ "CREATE" \in a => r \in Automated /\ s \notin {"None", "Pending"}
    /\ "REVOKE" \in a \/ "EXTEND" \in a => r \in Automated /\ s \in {"On_Use", "Completed"}
    /\ r \in Automated /\ s \in {"Approved", "On_Use", "Completed"} => "CREATE" \in a
    /\ s = "Approved" => <<"CREATE", TRUE>> \notin o

\* A request does not go back to a status it has left.
Later(s) ==
    CASE s = "None" -> Statuses
      [] s = "Pending" -> Statuses \ {"None"}
      [] s = "Approved" -> {"Approved", "On_Use", "Completed"}
      [] s = "Rejected" -> {"Rejected"}
      [] s = "On_Use" -> {"On_Use", "Completed"}
      [] s = "Completed" -> {"Completed"}

LEMMA LocalStepIsSound ==
    ASSUME NEW r, NEW s, NEW a, NEW o, NEW t, NEW b, NEW p,
           SoundAt(r, s, a, o), LocalStep(r, s, a, o, t, b, p)
    PROVE  SoundAt(r, t, b, p) /\ t \in Later(s) /\ a \subseteq b /\ o \subseteq p
  <1> USE DEF SoundAt, Later, Statuses, JobActions
  <1>1. CASE \/ s = "None" /\ t = "Pending" /\ b = a /\ p = o
             \/ s = "Pending" /\ t = "Rejected" /\ b = a /\ p = o
             \/ s = "Approved" /\ t = "On_Use" /\ b = a /\ p = o
             \/ t = s /\ b = a /\ p = o
    BY <1>1
  <1>2. CASE s = "Pending" /\ t = "Approved" /\ b = a \cup (IF r \in Automated THEN {"CREATE"} ELSE {}) /\ p = o
    BY <1>2
  <1>3. CASE s = "On_Use" /\ t = "Completed" /\ b = a \cup (IF r \in Automated THEN {"REVOKE"} ELSE {}) /\ p = o
    BY <1>3
  <1>4. ASSUME NEW action \in {"REVOKE", "EXTEND"}, r \in Automated, s \in {"On_Use", "Completed"}, t = s, p = o,
               b = a \cup {action}
        PROVE  SoundAt(r, t, b, p) /\ t \in Later(s) /\ a \subseteq b /\ o \subseteq p
    BY <1>4
  <1>5. ASSUME NEW action \in a, NEW ok \in BOOLEAN, b = a, p = o \cup {<<action, ok>>},
               t = CASE ok /\ action = "CREATE" /\ s = "Approved" -> "On_Use"
                     [] ok /\ action = "REVOKE" /\ s = "On_Use" -> "Completed"
                     [] OTHER -> s
        PROVE  SoundAt(r, t, b, p) /\ t \in Later(s) /\ a \subseteq b /\ o \subseteq p
    <2>1. p \subseteq a \X BOOLEAN /\ o \subseteq p
      BY <1>5
    <2>2. t \in Later(s) /\ t \in Statuses
      BY <1>5
    <2>3. t = "Approved" /\ <<"CREATE", TRUE>> \in p => <<"CREATE", TRUE>> \in o
      BY <1>5
    <2>4. /\ "CREATE" \in a => t \notin {"None", "Pending"}
          /\ s \in {"On_Use", "Completed"} => t \in {"On_Use", "Completed"}
          /\ t = "Approved" => s = "Approved"
      BY <1>5
    <2> HIDE DEF Later, Statuses
    <2>5. QED
      BY <1>5, <2>1, <2>2, <2>3, <2>4
  <1>6. QED
    BY <1>1, <1>2, <1>3, <1>4, <1>5 DEF LocalStep

-----------------------------------------------------------------------------
(* What was planned on a snapshot, and holds until the commit *)

\* w: the open transaction; s, js: the status and the jobs of its request now.
WorkPlanOK(w, s, js) ==
    /\ w.job # NoJob => w.job.status = "Queued"
    /\ w.event = "APPROVED" =>
         /\ w.from = "Pending" /\ w.to = "Approved"
         /\ IF w.rid \in Automated THEN w.job # NoJob /\ w.job.action = "CREATE" ELSE w.job = NoJob
    /\ w.event = "REJECTED" => w.from = "Pending" /\ w.to = "Rejected" /\ w.job = NoJob
    /\ w.event = "ACTIVATED" =>
         /\ w.from = "Approved" /\ w.to = "On_Use" /\ w.job = NoJob
         /\ w.rid \in Automated => <<"CREATE", FALSE>> \in Outs(js)
    /\ w.event = "COMPLETED" =>
         /\ w.from = "On_Use" /\ w.to = "Completed"
         /\ w.job # NoJob => w.job.action = "REVOKE" /\ w.rid \in Automated
         /\ w.rid \in Automated => w.job # NoJob \/ "REVOKE" \in Asked(js)
    /\ w.event \in Decisions \cup Marks /\ w.job # NoJob =>
         /\ w.job.action \in {"REVOKE", "EXTEND"} /\ w.rid \in Automated
         /\ s \in {"On_Use", "Completed"}
    /\ w.event = "RETRIED" => w.job # NoJob /\ w.job.action \in Asked(js)
    /\ w.event \in Successes \cup Failures => w.k \in DOMAIN js
    /\ w.event \in Successes \cup Failures /\ w.to # w.from =>
         /\ w.event \in Successes
         /\ \/ js[w.k].action = "CREATE" /\ w.from = "Approved" /\ w.to = "On_Use"
            \/ js[w.k].action = "REVOKE" /\ w.from = "On_Use" /\ w.to = "Completed"
    /\ w.event \in Successes /\ w.to = w.from =>
         /\ js[w.k].action = "CREATE" => s \in {"Rejected", "On_Use", "Completed"}
         /\ js[w.k].action = "REVOKE" => s = "Completed"

\* Jobs stay and keep their action.
Longer(js, ks) == \A i \in DOMAIN js : i \in DOMAIN ks /\ ks[i].action = js[i].action

LEMMA WorkPlanStays ==
    ASSUME NEW w, NEW s, NEW js, NEW t, NEW ks,
           WorkPlanOK(w, s, js), t \in Later(s), s \in Statuses,
           Longer(js, ks), Outs(js) \subseteq Outs(ks)
    PROVE  WorkPlanOK(w, t, ks)
  <1>1. Asked(js) \subseteq Asked(ks)
    BY DEF Asked, Longer
  <1>2. /\ s \in {"On_Use", "Completed"} => t \in {"On_Use", "Completed"}
        /\ s \in {"Rejected", "On_Use", "Completed"} => t \in {"Rejected", "On_Use", "Completed"}
        /\ s = "Completed" => t = "Completed"
    BY DEF Later, Statuses
  <1>3. w.k \in DOMAIN js => w.k \in DOMAIN ks /\ ks[w.k].action = js[w.k].action
    BY DEF Longer
  <1>4. QED
    BY <1>1, <1>2, <1>3 DEF WorkPlanOK

Sound == \A r \in Requests : SoundAt(r, St(r), Asked(jobs[r]), Outs(jobs[r]))
WorkPlansOK == \A q \in Procs : tx[q] # Idle => WorkPlanOK(tx[q], St(tx[q].rid), jobs[tx[q].rid])
WInv == TypeOK /\ Sound /\ WorkPlansOK

\* The step of one request, and of the others.
StepAt(r) ==
    LocalStep(r, St(r), Asked(jobs[r]), Outs(jobs[r]), request'[r].status, Asked(jobs'[r]), Outs(jobs'[r]))
OthersStay(r) == \A q \in Requests : q # r => request'[q].status = request[q].status /\ jobs'[q] = jobs[q]
AllStay == \A q \in Requests : request'[q].status = request[q].status /\ jobs'[q] = jobs[q]
OneStep == AllStay \/ \E r \in Requests : StepAt(r) /\ OthersStay(r)

LEMMA EachSteps ==
    ASSUME OneStep, NEW r \in Requests
    PROVE  StepAt(r)
  <1>1. ASSUME request'[r].status = request[r].status, jobs'[r] = jobs[r] PROVE StepAt(r)
    BY <1>1 DEF StepAt, LocalStep, St
  <1>2. QED
    BY <1>1 DEF OneStep, AllStay, OthersStay

\* A request set up automatically that may be activated by hand had a setup fail.
LEMMA ActivationAfterFailure ==
    ASSUME TypeOK, Sound, NEW r \in Automated, request[r].status = "Approved", ManualActivationAllowed(r)
    PROVE  <<"CREATE", FALSE>> \in Outs(jobs[r])
  <1> DEFINE C == {i \in DOMAIN jobs[r] : jobs[r][i].action = "CREATE"}
  <1>1. r \in Requests /\ jobs[r] \in Seq(Job)
    BY SetsAssumption DEF TypeOK
  <1>2. "CREATE" \in Asked(jobs[r])
    BY <1>1 DEF Sound, SoundAt, St
  <1>3. C \subseteq Nat /\ C # {} /\ Len(jobs[r]) \in Nat /\ \A i \in C : i <= Len(jobs[r])
    BY <1>1, <1>2 DEF Asked
  <1>4. PICK m \in C : \A i \in C : i <= m
    BY <1>3, Greatest
  <1>5. \A j \in DOMAIN jobs[r] : j > m => jobs[r][j].action # "CREATE"
    BY <1>1, <1>3, <1>4
  <1>6. jobs[r][m].status = "Failed"
    BY <1>4, <1>5 DEF ManualActivationAllowed
  <1>7. m \in {j \in DOMAIN jobs[r] : jobs[r][j].status \notin ActiveJob}
    BY <1>6 DEF ActiveJob
  <1>8. <<jobs[r][m].action, jobs[r][m].status = "Succeeded">> = <<"CREATE", FALSE>>
    BY <1>4, <1>6
  <1>9. QED
    BY <1>7, <1>8 DEF Outs

-----------------------------------------------------------------------------
(* Beginning a transaction *)

\* The kinds of event are apart.
LEMMA KindsAreApart ==
    /\ \A e \in Successes \cup Failures :
          e \notin Transitions \cup Decisions \cup Marks \cup {"RETRIED", "EDITED"}
    /\ \A e \in Decisions \cup Marks : e \notin Transitions \cup Successes \cup Failures \cup {"RETRIED", "EDITED"}
    /\ \A e \in Failures : e \notin Successes
  BY DEF Transitions, Decisions, Marks, Successes, Failures

\* A plan whose event is none of those that ask, answer or move is sound.
LEMMA PlanKinds ==
    ASSUME NEW w, NEW s, NEW js
    PROVE  /\ w.event = "EDITED" /\ w.job = NoJob => WorkPlanOK(w, s, js)
           /\ /\ w.event = "RETRIED" /\ w.job # NoJob /\ w.job.status = "Queued"
              /\ w.job.action \in Asked(js)
              => WorkPlanOK(w, s, js)
           /\ /\ w.event \in Decisions \cup Marks
              /\ w.job # NoJob => /\ w.job.action \in {"REVOKE", "EXTEND"} /\ w.job.status = "Queued"
                                  /\ w.rid \in Automated /\ s \in {"On_Use", "Completed"}
              => WorkPlanOK(w, s, js)
           /\ /\ w.event \in Failures /\ w.job = NoJob /\ w.k \in DOMAIN js /\ w.to = w.from
              => WorkPlanOK(w, s, js)
           /\ /\ w.event = "APPROVED" /\ w.from = "Pending" /\ w.to = "Approved"
              /\ IF w.rid \in Automated
                 THEN w.job # NoJob /\ w.job.action = "CREATE" /\ w.job.status = "Queued"
                 ELSE w.job = NoJob
              => WorkPlanOK(w, s, js)
           /\ /\ w.event = "COMPLETED" /\ w.from = "On_Use" /\ w.to = "Completed"
              /\ w.job # NoJob => w.job.action = "REVOKE" /\ w.job.status = "Queued" /\ w.rid \in Automated
              /\ w.rid \in Automated => w.job # NoJob \/ "REVOKE" \in Asked(js)
              => WorkPlanOK(w, s, js)
  BY KindsAreApart DEF WorkPlanOK, Transitions

\* A request in use that was set up is asked to be removed, or it was already.
LEMMA RemovalIsPlanned ==
    ASSUME TypeOK, Sound, NEW r \in Automated, request[r].status = "On_Use"
    PROVE  RevokeJob(r) # NoJob \/ "REVOKE" \in Asked(jobs[r])
  <1>0. SetUpAutomatically(r)
    <2>1. r \in Requests
      BY SetsAssumption
    <2>2. "CREATE" \in Asked(jobs[r])
      BY <2>1 DEF Sound, SoundAt, St
    <2>3. QED
      BY <2>1, <2>2, HasIsListed DEF Asked, Listed, SetUpAutomatically
  <1>1. Has(r, "REVOKE", AnyStatus \ {"Failed"}) => "REVOKE" \in Asked(jobs[r])
    BY DEF Has, Asked
  <1>2. \A d, v : NewJob("REVOKE", d, v) # NoJob
    BY DEF NewJob, NoJob
  <1>3. QED
    BY <1>0, <1>1, <1>2 DEF RevokeJob

LEMMA ClientPlans ==
    ASSUME WInv, NEW c \in Clients, NEW r \in Requests, ClientBegins(c, r)
    PROVE  \E w : Begin(c, w) /\ w.rid = r /\ WorkPlanOK(w, St(r), jobs[r])
  <1>0. TypeOK /\ Sound /\ jobs[r] \in Seq(Job)
    BY DEF WInv, TypeOK
  <1>1. ASSUME NEW d \in Days, NEW f \in Forms, EditRequest(c, r, d, f)
        PROVE  \E w : Begin(c, w) /\ w.rid = r /\ WorkPlanOK(w, St(r), jobs[r])
    <2> DEFINE w == [Plan("EDITED", r, "Pending") EXCEPT !.end = d, !.extras = f]
    <2>1. Begin(c, w)
      BY <1>1 DEF EditRequest
    <2>2. w.event = "EDITED" /\ w.rid = r /\ w.job = NoJob
      BY DEF Plan
    <2> HIDE DEF w
    <2>3. QED
      BY <2>1, <2>2, PlanKinds
  <1>2. CASE ApproveRequest(c, r)
    <2> DEFINE w == [Plan("APPROVED", r, "Approved") EXCEPT !.job = CreateJob(r)]
    <2>1. Begin(c, w) /\ request[r].status = "Pending"
      BY <1>2 DEF ApproveRequest
    <2>2. w.event = "APPROVED" /\ w.rid = r /\ w.from = "Pending" /\ w.to = "Approved" /\ w.job = CreateJob(r)
      BY <2>1 DEF Plan
    <2> HIDE DEF w
    <2>3. IF r \in Automated
          THEN w.job # NoJob /\ w.job.action = "CREATE" /\ w.job.status = "Queued"
          ELSE w.job = NoJob
      BY <2>2 DEF CreateJob, NewJob, NoJob
    <2>4. WorkPlanOK(w, St(r), jobs[r])
      BY <2>2, <2>3, PlanKinds
    <2>5. QED
      BY <2>1, <2>2, <2>4
  <1>3. CASE RejectRequest(c, r)
    <2> DEFINE w == Plan("REJECTED", r, "Rejected")
    <2>1. Begin(c, w) /\ request[r].status = "Pending"
      BY <1>3 DEF RejectRequest
    <2>2. w.event = "REJECTED" /\ w.rid = r /\ w.from = "Pending" /\ w.to = "Rejected" /\ w.job = NoJob
      BY <2>1 DEF Plan
    <2> HIDE DEF w
    <2>3. WorkPlanOK(w, St(r), jobs[r])
      BY <2>2 DEF WorkPlanOK, Decisions, Marks, Successes, Failures
    <2>4. QED
      BY <2>1, <2>2, <2>3
  <1>4. CASE ActivateRequest(c, r)
    <2> DEFINE w == Plan("ACTIVATED", r, "On_Use")
    <2>1. Begin(c, w) /\ request[r].status = "Approved" /\ ManualActivationAllowed(r)
      BY <1>4 DEF ActivateRequest
    <2>2. w.event = "ACTIVATED" /\ w.rid = r /\ w.from = "Approved" /\ w.to = "On_Use" /\ w.job = NoJob
      BY <2>1 DEF Plan
    <2> HIDE DEF w
    <2>3. r \in Automated => <<"CREATE", FALSE>> \in Outs(jobs[r])
      BY <1>0, <2>1, ActivationAfterFailure
    <2>4. WorkPlanOK(w, St(r), jobs[r])
      BY <2>2, <2>3 DEF WorkPlanOK, Decisions, Marks, Successes, Failures
    <2>5. QED
      BY <2>1, <2>2, <2>4
  <1>5. CASE CompleteRequest(c, r)
    <2> DEFINE w == [Plan("COMPLETED", r, "Completed") EXCEPT !.job = RevokeJob(r)]
    <2>1. Begin(c, w) /\ request[r].status = "On_Use"
      BY <1>5 DEF CompleteRequest
    <2>2. w.event = "COMPLETED" /\ w.rid = r /\ w.from = "On_Use" /\ w.to = "Completed" /\ w.job = RevokeJob(r)
      BY <2>1 DEF Plan
    <2> HIDE DEF w
    <2>3. r \in Automated => w.job # NoJob \/ "REVOKE" \in Asked(jobs[r])
      BY <1>0, <2>1, <2>2, RemovalIsPlanned
    <2>4. w.job # NoJob => w.job.action = "REVOKE" /\ w.job.status = "Queued" /\ r \in Automated
      BY <2>2 DEF RevokeJob, NewJob, SetUpAutomatically
    <2>5. WorkPlanOK(w, St(r), jobs[r])
      BY <2>2, <2>3, <2>4, PlanKinds
    <2>6. QED
      BY <2>1, <2>2, <2>5
  <1>6. CASE RetryProvisioning(c, r)
    <2> DEFINE last == jobs[r][Len(jobs[r])]
               job == NewJob(last.action, RetriedPeriod(r), last.action = "REVOKE" /\ ~KeepsVpn(r))
               w == [Plan("RETRIED", r, request[r].status) EXCEPT !.job = job]
    <2>1. Begin(c, w) /\ Len(jobs[r]) \in DOMAIN jobs[r]
      BY <1>0, <1>6 DEF RetryProvisioning
    <2>2. w.event = "RETRIED" /\ w.rid = r /\ w.job = job
      BY DEF Plan
    <2>3. job.action \in Asked(jobs[r]) /\ job.status = "Queued" /\ job # NoJob
      BY <2>1 DEF Asked, NewJob, NoJob
    <2> HIDE DEF w, job
    <2>4. QED
      BY <2>1, <2>2, <2>3, PlanKinds
  <1>7. ASSUME NEW approve \in BOOLEAN, DecideExtension(c, r, approve)
        PROVE  \E w : Begin(c, w) /\ w.rid = r /\ WorkPlanOK(w, St(r), jobs[r])
    <2> DEFINE no == [Plan("EXTENSION_REJECTED", r, request[r].status) EXCEPT !.end = request[r].ask]
               yes == [no EXCEPT !.event = "EXTENSION_APPROVED", !.job = ExtendJob(r, no.end)]
               w == IF approve THEN yes ELSE no
    <2>1. Begin(c, w) /\ (approve => request[r].status = "On_Use")
      BY <1>7 DEF DecideExtension, StillRunning
    <2>2. /\ no.event = "EXTENSION_REJECTED" /\ no.rid = r /\ no.job = NoJob
          /\ yes.event = "EXTENSION_APPROVED" /\ yes.rid = r /\ yes.job = ExtendJob(r, no.end)
      BY DEF Plan
    <2>3. \A d : ExtendJob(r, d) # NoJob => /\ ExtendJob(r, d).action = "EXTEND"
                                           /\ ExtendJob(r, d).status = "Queued" /\ r \in Automated
      BY DEF ExtendJob, NewJob, SetUpAutomatically
    <2>4. (w = yes /\ approve) \/ w = no
      OBVIOUS
    <2> HIDE DEF yes, no, w
    <2>5. /\ w.rid = r /\ w.event \in Decisions
          /\ w.job # NoJob => /\ w.job.action = "EXTEND" /\ w.job.status = "Queued"
                              /\ r \in Automated /\ request[r].status = "On_Use"
      BY <2>1, <2>2, <2>3, <2>4 DEF Decisions
    <2>6. QED
      BY <2>1, <2>5, PlanKinds DEF St
  <1>8. ASSUME NEW k \in 1..MaxJobs, FailJob(c, r, k) \/ \E ok \in BOOLEAN : HandleResult(c, r, k, ok)
        PROVE  \E w : Begin(c, w) /\ w.rid = r /\ WorkPlanOK(w, St(r), jobs[r])
    <2> DEFINE job == jobs[r][k]
    <2>1. k \in DOMAIN jobs[r]
      BY <1>8 DEF FailJob, HandleResult
    <2>2. job \in Job /\ job.action \in Asked(jobs[r])
      BY <1>0, <2>1 DEF Asked
    <2>3. /\ ResultEvent(job.action, FALSE) \in Failures
          /\ ResultEvent(job.action, TRUE) \in Successes
      BY <2>2 DEF ResultEvent, Job, JobActions, Successes, Failures
    <2>4. CASE FailJob(c, r, k)
      <3> DEFINE w == [Plan(ResultEvent(job.action, FALSE), r, request[r].status) EXCEPT !.k = k]
      <3>1. Begin(c, w)
        BY <2>4 DEF FailJob
      <3>2. w.event \in Failures /\ w.rid = r /\ w.from = w.to /\ w.k = k /\ w.job = NoJob
        BY <2>3 DEF Plan
      <3> HIDE DEF w
      <3>3. QED
        BY <2>1, <3>1, <3>2, PlanKinds
    <2>5. ASSUME NEW ok \in BOOLEAN, HandleResult(c, r, k, ok)
          PROVE  \E w : Begin(c, w) /\ w.rid = r /\ WorkPlanOK(w, St(r), jobs[r])
      <3> DEFINE to == CASE ok /\ job.action = "CREATE" /\ request[r].status = "Approved" -> "On_Use"
                         [] ok /\ job.action = "REVOKE" /\ request[r].status = "On_Use" -> "Completed"
                         [] OTHER -> request[r].status
                 w == [Plan(ResultEvent(job.action, ok), r, to) EXCEPT !.k = k]
      <3>1. Begin(c, w)
        BY <2>5 DEF HandleResult
      <3>2. /\ w.event = ResultEvent(job.action, ok) /\ w.rid = r /\ w.from = request[r].status
            /\ w.to = to /\ w.k = k /\ w.job = NoJob
        BY DEF Plan
      <3> HIDE DEF w
      <3>3. CASE ~ok
        <4>1. w.event \in Failures /\ w.to = w.from
          BY <2>3, <3>2, <3>3
        <4>2. QED
          BY <2>1, <3>1, <3>2, <4>1, PlanKinds
      <3>4. CASE ok
        <4>1. w.event \in Successes
          BY <2>3, <3>2, <3>4
        <4>2. SoundAt(r, St(r), Asked(jobs[r]), Outs(jobs[r]))
          BY <1>0 DEF Sound
        <4>3. w.to # w.from =>
                 \/ job.action = "CREATE" /\ w.from = "Approved" /\ w.to = "On_Use"
                 \/ job.action = "REVOKE" /\ w.from = "On_Use" /\ w.to = "Completed"
          BY <3>2
        <4>4. w.to = w.from =>
                 /\ job.action = "CREATE" => St(r) \in {"Rejected", "On_Use", "Completed"}
                 /\ job.action = "REVOKE" => St(r) = "Completed"
          BY <2>2, <3>2, <3>4, <4>2 DEF SoundAt, Statuses, St
        <4> HIDE DEF to, job
        <4>5. WorkPlanOK(w, St(r), jobs[r])
          BY <2>1, <3>2, <4>1, <4>3, <4>4, KindsAreApart DEF WorkPlanOK, Transitions, job
        <4>6. QED
          BY <3>1, <3>2, <4>5
      <3>5. QED
        BY <3>3, <3>4
    <2>6. QED
      BY <1>8, <2>4, <2>5
  <1>9. QED
    BY <1>1, <1>2, <1>3, <1>4, <1>5, <1>6, <1>7, <1>8 DEF ClientBegins

-----------------------------------------------------------------------------
(* Committing a transaction *)

LEMMA WriteShape ==
    ASSUME TypeOK, NEW p \in Procs, tx[p] \in Txn, NEW row, NEW js, Write(p, row, js)
    PROVE  /\ tx[p].rid \in Requests /\ OthersStay(tx[p].rid)
           /\ request'[tx[p].rid] = row /\ jobs'[tx[p].rid] = js
           /\ \A q \in Procs : tx'[q] \in {tx[q], Idle}
  BY DEF Write, Txn, TypeOK, OthersStay

\* What queueing a planned job does to what was asked and answered.
LEMMA QueueSeen ==
    ASSUME TypeOK, NEW r \in Requests, NEW job \in Job \cup {NoJob}, job # NoJob => job.status = "Queued"
    PROVE  /\ job = NoJob => Asked(Queue(r, job)) = Asked(jobs[r])
           /\ job # NoJob => Asked(Queue(r, job)) = Asked(jobs[r]) \cup {job.action}
           /\ Outs(Queue(r, job)) = Outs(jobs[r])
  <1>1. jobs[r] \in Seq(Job)
    BY DEF TypeOK
  <1>2. QED
    BY <1>1, QueuedIsAsked DEF Queue

LEMMA CommitIsStep ==
    ASSUME WInv, NEW p \in Procs,
           \/ CommitEdit(p) \/ CommitTransition(p) \/ CommitDecision(p) \/ CommitRetry(p) \/ CommitOutcome(p)
           \/ CommitSystemEvent(p)
    PROVE  /\ OneStep
           /\ \A q \in Procs : tx'[q] \in {tx[q], Idle}
  <1> DEFINE w == tx[p]
             r == w.rid
             row == request[r]
             queued == Queue(r, w.job)
  <1>1. TypeOK /\ w \in Txn /\ w # Idle
    <2>1. w # Idle
      BY DEF CommitEdit, CommitTransition, CommitDecision, CommitRetry, CommitOutcome, CommitSystemEvent,
             Idle, Transitions, Decisions, Successes, Failures, Marks
    <2>2. QED
      BY <2>1 DEF WInv, TypeOK
  <1>2. /\ r \in Requests /\ w.job \in Job \cup {NoJob} /\ row \in Row /\ jobs[r] \in Seq(Job)
        /\ w.to \in Statuses
    BY <1>1 DEF Txn, TypeOK
  <1>3. WorkPlanOK(w, St(r), jobs[r]) /\ SoundAt(r, St(r), Asked(jobs[r]), Outs(jobs[r]))
    BY <1>1, <1>2 DEF WInv, WorkPlansOK, Sound
  <1>4. /\ w.job = NoJob => Asked(queued) = Asked(jobs[r])
        /\ w.job # NoJob => Asked(queued) = Asked(jobs[r]) \cup {w.job.action}
        /\ Outs(queued) = Outs(jobs[r])
    <2>1. w.job # NoJob => w.job.status = "Queued"
      BY <1>3 DEF WorkPlanOK
    <2>2. QED
      BY <1>1, <1>2, <2>1, QueueSeen
  <1>5. \A d, a, f : /\ [row EXCEPT !.end = d, !.extras = f].status = row.status
                     /\ [row EXCEPT !.end = d, !.ask = a, !.extras = f].status = row.status
                     /\ \A st \in Statuses : /\ [row EXCEPT !.status = st].status = st
                                             /\ [row EXCEPT !.status = st, !.extras = f].status = st
    BY <1>2 DEF Row
  <1>6. ASSUME NEW new, NEW js, Write(p, new, js),
               LocalStep(r, St(r), Asked(jobs[r]), Outs(jobs[r]), new.status, Asked(js), Outs(js))
        PROVE  OneStep /\ \A q \in Procs : tx'[q] \in {tx[q], Idle}
    <2>1. /\ OthersStay(r) /\ request'[r] = new /\ jobs'[r] = js
          /\ \A q \in Procs : tx'[q] \in {tx[q], Idle}
      BY <1>1, <1>6, WriteShape
    <2>2. StepAt(r)
      BY <1>6, <2>1 DEF StepAt, St
    <2>3. QED
      BY <1>2, <2>1, <2>2 DEF OneStep
  <1>7. CASE CommitEdit(p)
    <2> DEFINE new == [row EXCEPT !.end = w.end, !.extras = w.extras]
    <2>1. Write(p, new, jobs[r]) /\ new.status = St(r)
      BY <1>5, <1>7 DEF CommitEdit, St
    <2> HIDE DEF new
    <2>2. QED
      BY <1>6, <2>1 DEF LocalStep
  <1>8. CASE CommitTransition(p)
    <2> DEFINE extras == IF w.event \in {"APPROVED", "REJECTED"} THEN w.extras ELSE row.extras
               new == [row EXCEPT !.status = w.to, !.extras = extras]
    <2>1. Write(p, new, queued) /\ w.event \in Transitions /\ St(r) = w.from
      BY <1>8 DEF CommitTransition, UpdateMatches, St
    <2>2. new.status = w.to
      BY <1>2, <1>5
    <2> HIDE DEF new, queued
    <2>3. LocalStep(r, St(r), Asked(jobs[r]), Outs(jobs[r]), w.to, Asked(queued), Outs(queued))
      <3>1. CASE w.event = "APPROVED"
        BY <1>3, <1>4, <2>1, <3>1 DEF WorkPlanOK, LocalStep
      <3>2. CASE w.event = "REJECTED"
        BY <1>3, <1>4, <2>1, <3>2 DEF WorkPlanOK, LocalStep
      <3>3. CASE w.event = "ACTIVATED"
        BY <1>3, <1>4, <2>1, <3>3 DEF WorkPlanOK, LocalStep
      <3>4. CASE w.event = "COMPLETED"
        <4>1. Asked(queued) = Asked(jobs[r]) \cup (IF r \in Automated THEN {"REVOKE"} ELSE {})
          BY <1>3, <1>4, <3>4 DEF WorkPlanOK
        <4>2. QED
          BY <1>3, <1>4, <2>1, <3>4, <4>1 DEF WorkPlanOK, LocalStep
      <3>5. QED
        BY <2>1, <3>1, <3>2, <3>3, <3>4 DEF Transitions
    <2>4. QED
      BY <1>6, <2>1, <2>2, <2>3
  <1>9. ASSUME NEW new, Write(p, new, queued), new.status = St(r), w.event \in Decisions \cup Marks
        PROVE  OneStep /\ \A q \in Procs : tx'[q] \in {tx[q], Idle}
    <2> HIDE DEF queued
    <2>1. LocalStep(r, St(r), Asked(jobs[r]), Outs(jobs[r]), St(r), Asked(queued), Outs(queued))
      <3>1. CASE w.job = NoJob
        BY <1>4, <3>1 DEF LocalStep
      <3>2. CASE w.job # NoJob
        <4>1. w.job.action \in {"REVOKE", "EXTEND"} /\ r \in Automated /\ St(r) \in {"On_Use", "Completed"}
          BY <1>3, <1>9, <3>2 DEF WorkPlanOK
        <4>2. QED
          BY <1>4, <3>2, <4>1 DEF LocalStep
      <3>3. QED
        BY <3>1, <3>2
    <2>2. QED
      BY <1>6, <1>9, <2>1
  <1>10. CASE CommitDecision(p)
    <2> DEFINE new == [row EXCEPT !.end = DecidedEnd(w, @), !.ask = 0, !.extras = w.extras]
    <2>1. Write(p, new, queued) /\ w.event \in Decisions
      BY <1>10 DEF CommitDecision
    <2>2. new.status = St(r)
      BY <1>2 DEF Row, St
    <2> HIDE DEF new, queued
    <2>3. QED
      BY <1>9, <2>1, <2>2
  <1>11. CASE CommitSystemEvent(p)
    BY <1>9, <1>11 DEF CommitSystemEvent, St
  <1>12. CASE CommitRetry(p)
    <2>1. Write(p, row, queued) /\ w.event = "RETRIED"
      BY <1>12 DEF CommitRetry
    <2> HIDE DEF queued
    <2>2. Asked(queued) = Asked(jobs[r])
      BY <1>3, <1>4, <2>1 DEF WorkPlanOK
    <2>3. QED
      BY <1>4, <1>6, <2>1, <2>2 DEF LocalStep, St
  <1>13. CASE CommitOutcome(p)
    <2> DEFINE new == IF w.to # w.from THEN [row EXCEPT !.status = w.to] ELSE row
               outcome == IF w.event \in Successes THEN "Succeeded" ELSE "Failed"
               js == [jobs[r] EXCEPT ![w.k].status = outcome]
               act == jobs[r][w.k].action
    <2>1. /\ Write(p, new, js) /\ w.event \in Successes \cup Failures
          /\ jobs[r][w.k].status \in ActiveJob
          /\ w.to # w.from => St(r) = w.from
      BY <1>13 DEF CommitOutcome, UpdateMatches, Unanswered, St
    <2>2. w.k \in DOMAIN jobs[r]
      BY <1>3, <2>1 DEF WorkPlanOK
    <2>3. /\ Asked(js) = Asked(jobs[r])
          /\ Outs(js) = Outs(jobs[r]) \cup {<<act, outcome = "Succeeded">>}
      BY <1>2, <2>1, <2>2, OutcomeIsAdded
    <2>4. act \in Asked(jobs[r])
      BY <2>2 DEF Asked
    <2>5. new.status = IF w.to # w.from THEN w.to ELSE St(r)
      BY <1>2, <1>5 DEF St
    <2> HIDE DEF new, js, act
    <2>6. CASE w.event \in Successes
      <3>1. Outs(js) = Outs(jobs[r]) \cup {<<act, TRUE>>}
        BY <2>3, <2>6
      <3>2. /\ w.to # w.from => \/ act = "CREATE" /\ w.from = "Approved" /\ w.to = "On_Use"
                                \/ act = "REVOKE" /\ w.from = "On_Use" /\ w.to = "Completed"
            /\ w.to = w.from => /\ act = "CREATE" => St(r) \in {"Rejected", "On_Use", "Completed"}
                                /\ act = "REVOKE" => St(r) = "Completed"
        BY <1>3, <2>6 DEF WorkPlanOK, act
      <3>3. new.status = CASE TRUE /\ act = "CREATE" /\ St(r) = "Approved" -> "On_Use"
                           [] TRUE /\ act = "REVOKE" /\ St(r) = "On_Use" -> "Completed"
                           [] OTHER -> St(r)
        BY <2>1, <2>5, <3>2
      <3>4. LocalStep(r, St(r), Asked(jobs[r]), Outs(jobs[r]), new.status, Asked(js), Outs(js))
        BY <2>3, <2>4, <3>1, <3>3 DEF LocalStep
      <3>5. QED
        BY <1>6, <2>1, <3>4
    <2>7. CASE w.event \notin Successes
      <3>1. Outs(js) = Outs(jobs[r]) \cup {<<act, FALSE>>}
        BY <2>3, <2>7
      <3>2. w.to = w.from
        BY <1>3, <2>1, <2>7 DEF WorkPlanOK
      <3>3. new.status = CASE FALSE /\ act = "CREATE" /\ St(r) = "Approved" -> "On_Use"
                           [] FALSE /\ act = "REVOKE" /\ St(r) = "On_Use" -> "Completed"
                           [] OTHER -> St(r)
        BY <2>5, <3>2
      <3>4. LocalStep(r, St(r), Asked(jobs[r]), Outs(jobs[r]), new.status, Asked(js), Outs(js))
        BY <2>3, <2>4, <3>1, <3>3 DEF LocalStep
      <3>5. QED
        BY <1>6, <2>1, <3>4
    <2>8. QED
      BY <2>6, <2>7
  <1>14. QED
    BY <1>7, <1>8, <1>10, <1>11, <1>12, <1>13

-----------------------------------------------------------------------------
(* The invariant *)

\* A transaction after a step was open before, or its plan holds of the tables
\* the step has left as they were.
PlansGoOn ==
    \A q \in Procs :
        \/ tx'[q] \in {tx[q], Idle}
        \/ /\ UNCHANGED <<request, jobs>>
           /\ tx'[q].rid \in Requests /\ WorkPlanOK(tx'[q], St(tx'[q].rid), jobs[tx'[q].rid])

LEMMA BeginGoesOn ==
    ASSUME TypeOK, NEW p \in Procs, NEW r \in Requests,
           \E w : Begin(p, w) /\ w.rid = r /\ WorkPlanOK(w, St(r), jobs[r])
    PROVE  OneStep /\ PlansGoOn
  <1>1. PICK w : Begin(p, w) /\ w.rid = r /\ WorkPlanOK(w, St(r), jobs[r])
    OBVIOUS
  <1>2. UNCHANGED <<request, jobs>> /\ tx' = [tx EXCEPT ![p] = w]
    BY <1>1 DEF Begin, db
  <1>3. \A q \in Procs : tx'[q] = IF q = p THEN w ELSE tx[q]
    BY <1>2 DEF TypeOK
  <1>4. QED
    BY <1>1, <1>2, <1>3 DEF PlansGoOn, OneStep, AllStay

LEMMA SystemPlans ==
    ASSUME WInv, NEW s \in Schedulers, NEW r \in Requests, SystemEvent(s, r)
    PROVE  \E w : Begin(s, w) /\ w.rid = r /\ WorkPlanOK(w, St(r), jobs[r])
  <1> DEFINE mark == pass[s].step
             w == [Plan(mark, r, "On_Use") EXCEPT
                     !.end = request[r].end,
                     !.job = IF mark = "EXPIRED" THEN RevokeJob(r) ELSE NoJob]
  <1>1. Begin(s, w) /\ St(r) = "On_Use" /\ mark \in {"off", "REMINDED", "EXPIRED"}
    BY DEF SystemEvent, WInv, TypeOK, Pass, St
  <1>2. /\ w.event = mark /\ w.rid = r
        /\ w.job = IF mark = "EXPIRED" THEN RevokeJob(r) ELSE NoJob
    BY DEF Plan
  <1>3. RevokeJob(r) # NoJob => /\ RevokeJob(r).action = "REVOKE" /\ RevokeJob(r).status = "Queued"
                               /\ r \in Automated
    BY DEF RevokeJob, NewJob, SetUpAutomatically
  <1> HIDE DEF w
  <1>4. mark # "off"
    BY <1>1, <1>2, OpsAssumption DEF Begin, Events, Transitions, Decisions, Successes, Failures, Marks
  <1>5. w.event \in Decisions \cup Marks
    BY <1>1, <1>2, <1>4 DEF Marks
  <1>6. QED
    BY <1>1, <1>2, <1>3, <1>5, PlanKinds

LEMMA StepIsWorkflowStep ==
    ASSUME WInv, [Next]_vars
    PROVE  OneStep /\ PlansGoOn
  <1>0. TypeOK
    BY DEF WInv
  <1>1. ASSUME UNCHANGED <<request, jobs>>, \A q \in Procs : tx'[q] \in {tx[q], Idle}
        PROVE  OneStep /\ PlansGoOn
    BY <1>1 DEF OneStep, AllStay, PlansGoOn
  <1>2. ASSUME NEW c \in Clients, ClientStep(c)
        PROVE  OneStep /\ PlansGoOn
    <2>1. c \in Procs
      BY DEF Procs
    <2>2. CASE Abort(c)
      <3>1. \A q \in Procs : tx'[q] \in {tx[q], Idle}
        BY <1>0, <2>2 DEF Abort, TypeOK
      <3>2. QED
        BY <1>1, <2>2, <3>1 DEF Abort, db
    <2>3. CASE \E r \in Requests : ClientBegins(c, r)
      BY <1>0, <2>1, <2>3, ClientPlans, BeginGoesOn
    <2>4. QED
      BY <1>2, <2>1, <2>2, <2>3, CommitIsStep DEF ClientStep, ClientBegins, PlansGoOn
  <1>3. ASSUME NEW s \in Schedulers, SchedulerStep(s)
        PROVE  OneStep /\ PlansGoOn
    <2>1. s \in Procs
      BY DEF Procs
    <2>2. CASE CommitSystemEvent(s)
      BY <2>1, <2>2, CommitIsStep DEF PlansGoOn
    <2>3. ASSUME NEW r \in Requests, SystemEvent(s, r)
          PROVE  OneStep /\ PlansGoOn
      BY <1>0, <2>1, <2>3, SystemPlans, BeginGoesOn
    <2>4. CASE StartPass(s) \/ ListEnded(s) \/ EndPass(s) \/ \E r \in Requests : SkipSystemEvent(s, r)
      BY <1>1, <2>4 DEF StartPass, ListEnded, EndPass, SkipSystemEvent, db
    <2>5. CASE AbortSystemEvent(s) \/ CrashInPass(s)
      <3>1. \A q \in Procs : tx'[q] \in {tx[q], Idle}
        BY <1>0, <2>5 DEF AbortSystemEvent, CrashInPass, TypeOK
      <3>2. QED
        BY <1>1, <2>5, <3>1 DEF AbortSystemEvent, CrashInPass, db
    <2>6. QED
      BY <1>3, <2>2, <2>3, <2>4, <2>5 DEF SchedulerStep
  <1>4. ASSUME NEW r \in Requests, NEW d \in Days, NEW f \in Forms, CreateRequest(r, d, f)
        PROVE  OneStep /\ PlansGoOn
    <2>1. /\ request[r].status = "None" /\ request'[r].status = "Pending"
          /\ jobs' = jobs /\ tx' = tx /\ \A q \in Requests : q # r => request'[q] = request[q]
      BY <1>0, <1>4 DEF CreateRequest, TypeOK
    <2>2. StepAt(r) /\ OthersStay(r)
      BY <2>1 DEF StepAt, OthersStay, LocalStep, St
    <2>3. QED
      BY <2>1, <2>2 DEF OneStep, PlansGoOn
  <1>5. ASSUME NEW r \in Requests, NEW d \in Days, RequestExtension(r, d)
        PROVE  OneStep /\ PlansGoOn
    <2>1. \A q \in Requests : request'[q].status = request[q].status
      <3>1. request[r] \in Row /\ request' = [request EXCEPT ![r] = [request[r] EXCEPT !.ask = d]]
        BY <1>0, <1>5 DEF RequestExtension, TypeOK
      <3>2. [request[r] EXCEPT !.ask = d].status = request[r].status
        BY <3>1 DEF Row
      <3>3. QED
        BY <1>0, <3>1, <3>2 DEF TypeOK
    <2>2. jobs' = jobs /\ tx' = tx
      BY <1>5 DEF RequestExtension
    <2>3. QED
      BY <2>1, <2>2 DEF OneStep, AllStay, PlansGoOn
  <1>6. ASSUME NEW r \in Requests, NEW k \in 1..MaxJobs, Dispatch(r, k)
        PROVE  OneStep /\ PlansGoOn
    <2> DEFINE js == [jobs[r] EXCEPT ![k].status = "Sent"]
    <2>1. /\ jobs[r] \in Seq(Job) /\ k \in DOMAIN jobs[r] /\ jobs[r][k].status \in ActiveJob
          /\ jobs' = [jobs EXCEPT ![r] = js] /\ request' = request /\ tx' = tx
      BY <1>0, <1>6 DEF Dispatch, ActiveJob, TypeOK
    <2>2. Asked(js) = Asked(jobs[r]) /\ Outs(js) = Outs(jobs[r])
      BY <2>1, SentIsAsked
    <2> HIDE DEF js
    <2>3. StepAt(r) /\ OthersStay(r)
      BY <1>0, <2>1, <2>2 DEF StepAt, OthersStay, LocalStep, St, TypeOK
    <2>4. QED
      BY <2>1, <2>3 DEF OneStep, PlansGoOn
  <1>7. CASE \/ \E r \in Requests, k \in 1..MaxJobs : DispatchRolledBack(r, k)
             \/ LeaseLapses \/ NextDay \/ UNCHANGED vars
    BY <1>1, <1>7 DEF DispatchRolledBack, LeaseLapses, NextDay, vars, db
  <1>8. QED
    BY <1>2, <1>3, <1>4, <1>5, <1>6, <1>7 DEF Next

LEMMA WorkInvariantStep ==
    ASSUME WInv, [Next]_vars
    PROVE  WInv'
  <1>1. /\ TypeOK /\ TypeOK' /\ Sound /\ WorkPlansOK
        /\ OneStep /\ PlansGoOn /\ JobsKept
    BY TypeStep, StepIsWorkflowStep, StepKeepsJobs DEF WInv
  <1>2. ASSUME NEW r \in Requests
        PROVE  /\ SoundAt(r, request'[r].status, Asked(jobs'[r]), Outs(jobs'[r]))
               /\ request'[r].status \in Later(St(r)) /\ St(r) \in Statuses
               /\ Outs(jobs[r]) \subseteq Outs(jobs'[r]) /\ Longer(jobs[r], jobs'[r])
    <2>1. SoundAt(r, St(r), Asked(jobs[r]), Outs(jobs[r])) /\ StepAt(r)
      BY <1>1, EachSteps DEF Sound
    <2>2. Longer(jobs[r], jobs'[r]) /\ St(r) \in Statuses
      BY <1>1, <2>1 DEF JobsKept, Longer, SoundAt
    <2>3. QED
      BY <2>1, <2>2, LocalStepIsSound DEF StepAt
  <1>3. Sound'
    BY <1>2 DEF Sound, St
  <1>4. ASSUME NEW q \in Procs, tx'[q] # Idle
        PROVE  WorkPlanOK(tx'[q], request'[tx'[q].rid].status, jobs'[tx'[q].rid])
    <2>1. CASE tx'[q] = tx[q]
      <3> DEFINE w == tx[q]
      <3>1. w \in Txn /\ WorkPlanOK(w, St(w.rid), jobs[w.rid])
        BY <1>1, <1>4, <2>1 DEF WorkPlansOK, TypeOK
      <3>2. w.rid \in Requests
        BY <3>1 DEF Txn
      <3>3. WorkPlanOK(w, request'[w.rid].status, jobs'[w.rid])
        BY <1>2, <3>1, <3>2, WorkPlanStays
      <3>4. QED
        BY <2>1, <3>3
    <2>2. CASE tx'[q] # tx[q]
      BY <1>1, <1>4, <2>2 DEF PlansGoOn, St
    <2>3. QED
      BY <2>1, <2>2
  <1>5. WorkPlansOK'
    BY <1>4 DEF WorkPlansOK, St
  <1>6. QED
    BY <1>1, <1>3, <1>5 DEF WInv

LEMMA WorkInvariantInit == Init => WInv
  <1> SUFFICES ASSUME Init PROVE WInv
    OBVIOUS
  <1>1. TypeOK
    BY TypeInit
  <1>2. ASSUME NEW r \in Requests PROVE SoundAt(r, St(r), Asked(jobs[r]), Outs(jobs[r]))
    <2>1. Asked(jobs[r]) = {} /\ Outs(jobs[r]) = {} /\ St(r) = "None"
      BY DEF Init, Asked, Outs, St
    <2>2. QED
      BY <2>1 DEF SoundAt, Statuses
  <1>3. WorkPlansOK
    BY DEF Init, WorkPlansOK
  <1>4. QED
    BY <1>1, <1>2, <1>3 DEF WInv, Sound

LEMMA WorkInvariant == Spec => []WInv
  <1>1. QED
    BY WorkInvariantInit, WorkInvariantStep, PTL DEF Spec

-----------------------------------------------------------------------------
(* The theorems *)

\* An Approved request that is set up automatically has a CREATE job and none
\* that succeeded, in every interleaving of results, retries and activations
\* (approveRequest, handleResult, retryProvisioning, manualActivationAllowed).
THEOREM SetUpIsUnderWay == Spec => []ApprovedIsBeingSetUp
  <1>1. WInv => ApprovedIsBeingSetUp
    <2> SUFFICES ASSUME WInv, NEW r \in Automated, request[r].status = "Approved"
                 PROVE  Has(r, "CREATE", AnyStatus) /\ ~Has(r, "CREATE", {"Succeeded"})
      BY DEF ApprovedIsBeingSetUp
    <2>1. r \in Requests /\ TypeOK /\ SoundAt(r, "Approved", Asked(jobs[r]), Outs(jobs[r]))
      BY SetsAssumption DEF WInv, Sound, St
    <2>2. Has(r, "CREATE", AnyStatus)
      BY <2>1, HasIsListed DEF SoundAt, Asked, Listed
    <2>3. ASSUME NEW i \in DOMAIN jobs[r], jobs[r][i].action = "CREATE", jobs[r][i].status = "Succeeded"
          PROVE  FALSE
      <3>1. i \in {j \in DOMAIN jobs[r] : jobs[r][j].status \notin ActiveJob}
        BY <2>3 DEF ActiveJob
      <3>2. <<jobs[r][i].action, jobs[r][i].status = "Succeeded">> = <<"CREATE", TRUE>>
        BY <2>3
      <3>3. <<"CREATE", TRUE>> \in Outs(jobs[r])
        BY <3>1, <3>2 DEF Outs
      <3>4. QED
        BY <2>1, <3>3 DEF SoundAt
    <2>4. QED
      BY <2>2, <2>3 DEF Has
  <1>2. QED
    BY <1>1, WorkInvariant, PTL

-----------------------------------------------------------------------------
(* The refinement *)

WStatus == [r \in Requests |-> St(r)]
WAsked == [r \in Requests |-> Asked(jobs[r])]
WOutcomes == [r \in Requests |-> Outs(jobs[r])]

\* What changes for one request only, as an update of the mapped functions.
LEMMA OneChanges ==
    ASSUME NEW r \in Requests, OthersStay(r)
    PROVE  /\ WStatus' = [WStatus EXCEPT ![r] = request'[r].status]
           /\ WAsked' = [WAsked EXCEPT ![r] = Asked(jobs'[r])]
           /\ WOutcomes' = [WOutcomes EXCEPT ![r] = Outs(jobs'[r])]
  <1>1. \A q \in Requests \ {r} : request'[q].status = request[q].status /\ jobs'[q] = jobs[q]
    BY DEF OthersStay
  <1>2. WStatus' = [WStatus EXCEPT ![r] = request'[r].status]
    BY <1>1 DEF WStatus, St
  <1>3. WAsked' = [WAsked EXCEPT ![r] = Asked(jobs'[r])]
    <2>1. WAsked' = [q \in Requests |-> Asked(jobs'[q])]
      BY DEF WAsked, Asked
    <2>2. QED
      BY <1>1, <2>1 DEF WAsked
  <1>4. WOutcomes' = [WOutcomes EXCEPT ![r] = Outs(jobs'[r])]
    <2>1. WOutcomes' = [q \in Requests |-> Outs(jobs'[q])]
      BY DEF WOutcomes, Outs
    <2>2. QED
      BY <1>1, <2>1 DEF WOutcomes
  <1>5. QED
    BY <1>2, <1>3, <1>4

\* Each case of a step, seen from its request, is an action of the workflow.
LEMMA MappedStep ==
    ASSUME Sound, OneStep
    PROVE  [Workflow!WNext]_(Workflow!wvars)
  <1>1. CASE AllStay
    BY <1>1 DEF AllStay, Workflow!wvars
  <1>2. ASSUME NEW r \in Requests, StepAt(r), OthersStay(r)
        PROVE  [Workflow!WNext]_(Workflow!wvars)
    <2> DEFINE s == St(r)
               a == Asked(jobs[r])
               o == Outs(jobs[r])
               t == request'[r].status
               b == Asked(jobs'[r])
               p == Outs(jobs'[r])
    <2>1. /\ WStatus' = [WStatus EXCEPT ![r] = t]
          /\ WAsked' = [WAsked EXCEPT ![r] = b]
          /\ WOutcomes' = [WOutcomes EXCEPT ![r] = p]
      BY <1>2, OneChanges
    <2>2. /\ WStatus[r] = s /\ WAsked[r] = a /\ WOutcomes[r] = o
          /\ WStatus = [WStatus EXCEPT ![r] = s]
          /\ WAsked = [WAsked EXCEPT ![r] = a]
          /\ WOutcomes = [WOutcomes EXCEPT ![r] = o]
      BY DEF WStatus, WAsked, WOutcomes
    <2>3. LocalStep(r, s, a, o, t, b, p) /\ a \subseteq JobActions
      BY <1>2 DEF StepAt, Sound, SoundAt
    <2> HIDE DEF s, a, o, t, b, p
    <2>4. CASE s = "None" /\ t = "Pending" /\ b = a /\ p = o
      <3>1. Workflow!Submit(r)
        BY <2>1, <2>2, <2>4 DEF Workflow!Submit, Workflow!Move, WStatus, WAsked, WOutcomes, St, Asked, Outs
      <3>2. QED
        BY <3>1 DEF Workflow!WNext
    <2>5. CASE s = "Pending" /\ t = "Approved" /\ b = a \cup (IF r \in Automated THEN {"CREATE"} ELSE {}) /\ p = o
      <3>1. Workflow!Approve(r)
        BY <2>1, <2>2, <2>5 DEF Workflow!Approve, Workflow!Ask, Workflow!Move, WStatus, WAsked, WOutcomes, St, Asked, Outs
      <3>2. QED
        BY <3>1 DEF Workflow!WNext
    <2>6. CASE s = "Pending" /\ t = "Rejected" /\ b = a /\ p = o
      <3>1. Workflow!Reject(r)
        BY <2>1, <2>2, <2>6 DEF Workflow!Reject, Workflow!Move, WStatus, WAsked, WOutcomes, St, Asked, Outs
      <3>2. QED
        BY <3>1 DEF Workflow!WNext
    <2>7. CASE s = "Approved" /\ t = "On_Use" /\ b = a /\ p = o /\ (r \in Automated => <<"CREATE", FALSE>> \in o)
      <3>1. Workflow!Activate(r)
        BY <2>1, <2>2, <2>7 DEF Workflow!Activate, Workflow!Move, WStatus, WAsked, WOutcomes, St, Asked, Outs
      <3>2. QED
        BY <3>1 DEF Workflow!WNext
    <2>8. CASE s = "On_Use" /\ t = "Completed" /\ b = a \cup (IF r \in Automated THEN {"REVOKE"} ELSE {}) /\ p = o
      <3>1. Workflow!Complete(r)
        BY <2>1, <2>2, <2>8 DEF Workflow!Complete, Workflow!Ask, Workflow!Move, WStatus, WAsked, WOutcomes, St, Asked, Outs
      <3>2. QED
        BY <3>1 DEF Workflow!WNext
    <2>9. ASSUME NEW action \in {"REVOKE", "EXTEND"}, b = a \cup {action},
                 r \in Automated, s \in {"On_Use", "Completed"}, t = s, p = o
          PROVE  Workflow!WNext
      <3>1. Workflow!AskMore(r, action)
        BY <2>1, <2>2, <2>9 DEF Workflow!AskMore, Workflow!Ask, WStatus, WAsked, WOutcomes, St, Asked, Outs
      <3>2. action \in Workflow!WActions
        BY DEF Workflow!WActions
      <3>3. QED
        BY <3>1, <3>2 DEF Workflow!WNext
    <2>10. ASSUME NEW action \in a, NEW ok \in BOOLEAN, b = a, p = o \cup {<<action, ok>>},
                  t = CASE ok /\ action = "CREATE" /\ s = "Approved" -> "On_Use"
                        [] ok /\ action = "REVOKE" /\ s = "On_Use" -> "Completed"
                        [] OTHER -> s
           PROVE  Workflow!WNext
      <3>1. Workflow!Answer(r, action, ok)
        BY <2>1, <2>2, <2>10 DEF Workflow!Answer, WStatus, WAsked, WOutcomes, St, Asked, Outs
      <3>2. action \in Workflow!WActions
        BY <2>3 DEF Workflow!WActions, JobActions
      <3>3. QED
        BY <3>1, <3>2 DEF Workflow!WNext
    <2>11. CASE t = s /\ b = a /\ p = o
      BY <2>1, <2>2, <2>11 DEF Workflow!wvars, WStatus, WAsked, WOutcomes, St, Asked, Outs
    <2>12. QED
      BY <2>3, <2>4, <2>5, <2>6, <2>7, <2>8, <2>9, <2>10, <2>11 DEF LocalStep
  <1>3. QED
    BY <1>1, <1>2 DEF OneStep

\* Whatever snapshots the handlers act on, a commit is a step of the workflow
\* on the present state, or changes nothing it sees (beginTx to commit of every
\* handler of request, reviewer, provisioning and scheduler).
THEOREM WorkflowIsImplemented == Spec => ImplementsWorkflow
  <1>1. Init => Workflow!WInit
    BY DEF Init, Workflow!WInit
  <1>2. WInv /\ [Next]_vars => [Workflow!WNext]_(Workflow!wvars)
    BY StepIsWorkflowStep, MappedStep DEF WInv
  <1>3. QED
    BY <1>1, <1>2, WorkInvariant, PTL DEF Spec, ImplementsWorkflow, Workflow!WSpec

-----------------------------------------------------------------------------
(* The histories: the event log tells the life of a request.                 *)
(*                                                                           *)
(* What the log of a request says                                            *)

InUse == {"On_Use", "Completed"}

Moves(l) == {i \in DOMAIN l : l[i].from # l[i].to}

\* The moves lead, one from the other, from "None" to the status s.
MovesLead(l, s) ==
    /\ Moves(l) = {} => s = "None"
    /\ \A i \in Moves(l) :
        /\ (\A j \in Moves(l) : j <= i) => s = l[i].to
        /\ (\A j \in Moves(l) : j >= i) => l[i].from = "None"
        /\ \A j \in Moves(l) : i < j /\ (\A k \in Moves(l) : k <= i \/ k >= j) => l[j].from = l[i].to

\* The student asked for this end date.
AskedFor(l, n, end) == \E j \in 1..n : l[j].event = "EXTENSION_REQUESTED" /\ l[j].end = end
Grants(l) == {i \in DOMAIN l : l[i].event = "EXTENSION_APPROVED"}

\* The end date is the last one that was granted, and each had been asked for.
GrantsLead(l, end) ==
    \A i \in Grants(l) :
        /\ AskedFor(l, i - 1, l[i].end)
        /\ (\A j \in Grants(l) : j <= i) => end = l[i].end

\* A row and its log: only what is in use is asked more time for, or given it.
HistoryOK(row, l) ==
    /\ MovesLead(l, row.status)
    /\ GrantsLead(l, row.end)
    /\ Grants(l) # {} => row.status \in InUse
    /\ row.ask # 0 => row.status \in InUse /\ AskedFor(l, Len(l), row.ask)

\* What an open transaction w read and will write or log, and holds until it
\* commits: of the row and the log as they are then.
HistoryPlanOK(w, row, l) ==
    /\ w.event \in {"EDITED", "RETRIED"} \cup Decisions \cup Marks => w.from = w.to
    /\ w.event \in Decisions => row.status \in InUse /\ row.extras = w.extras
    /\ w.event = "EXTENSION_APPROVED" => AskedFor(l, Len(l), w.end)

HistoriesOK == \A r \in Requests : HistoryOK(request[r], log[r])
HistoryPlansOK ==
    \A q \in Procs : tx[q] # Idle => HistoryPlanOK(tx[q], request[tx[q].rid], log[tx[q].rid])
HInv == WInv /\ HistoriesOK /\ HistoryPlansOK

-----------------------------------------------------------------------------
(* An event in the log *)

\* What an event e that is logged has done to its row, from s to n; l is the
\* log before it.
Happens(s, n, e, l) ==
    /\ e.from # e.to => s.status = e.from /\ n.status = e.to
    /\ e.from = e.to => n.status = s.status
    /\ e.event = "EXTENSION_APPROVED" => s.status \in InUse /\ AskedFor(l, Len(l), e.end) /\ n.end = e.end
    /\ e.event # "EXTENSION_APPROVED" => n.end = s.end \/ s.status \in {"None", "Pending"}
    /\ \/ n.ask = 0 \/ n.ask = s.ask
       \/ e.event = "EXTENSION_REQUESTED" /\ n.ask = e.end /\ n.status \in InUse
    /\ n.extras = s.extras \/ s.status \in {"None", "Pending"}

LEMMA MovesGrow ==
    ASSUME NEW l \in Seq(Entry), NEW e \in Entry, NEW s, NEW t, MovesLead(l, s),
           IF e.from # e.to THEN s = e.from /\ t = e.to ELSE t = s
    PROVE  MovesLead(Append(l, e), t)
  <1> DEFINE m == Append(l, e)
             n == Len(l) + 1
  <1>1. /\ n \in Nat /\ m[n] = e /\ DOMAIN m = DOMAIN l \cup {n}
        /\ DOMAIN l \subseteq Nat /\ \A i \in DOMAIN l : i < n /\ m[i] = l[i]
    OBVIOUS
  <1> HIDE DEF m, n
  <1>2. CASE e.from = e.to
    <2>1. Moves(m) = Moves(l) /\ Moves(l) \subseteq DOMAIN l
      BY <1>1, <1>2 DEF Moves
    <2>2. QED
      BY <1>1, <1>2, <2>1 DEF MovesLead, m
  <1>3. CASE e.from # e.to
    <2>1. Moves(m) = Moves(l) \cup {n} /\ Moves(l) \subseteq DOMAIN l
      BY <1>1, <1>3 DEF Moves
    <2>2. \A i \in Moves(m) : (\A j \in Moves(m) : j <= i) => t = m[i].to
      BY <1>1, <1>3, <2>1
    <2>3. \A i \in Moves(m) : (\A j \in Moves(m) : j >= i) => m[i].from = "None"
      <3>1. CASE Moves(l) = {}
        BY <1>1, <1>3, <2>1, <3>1 DEF MovesLead
      <3>2. CASE Moves(l) # {}
        BY <1>1, <2>1, <3>2 DEF MovesLead
      <3>3. QED
        BY <3>1, <3>2
    <2>4. ASSUME NEW i \in Moves(m), NEW j \in Moves(m), i < j, \A k \in Moves(m) : k <= i \/ k >= j
          PROVE  m[j].from = m[i].to
      <3>1. i \in Moves(l)
        BY <1>1, <2>1, <2>4
      <3>2. CASE j = n
        <4>1. \A k \in Moves(l) : k <= i
          BY <1>1, <2>1, <2>4, <3>2
        <4>2. QED
          BY <1>1, <1>3, <2>1, <3>1, <3>2, <4>1 DEF MovesLead
      <3>3. CASE j \in Moves(l)
        BY <1>1, <2>1, <2>4, <3>1, <3>3 DEF MovesLead
      <3>4. QED
        BY <2>1, <3>2, <3>3
    <2>5. Moves(m) # {}
      BY <2>1
    <2>6. QED
      BY <2>2, <2>3, <2>4, <2>5 DEF MovesLead, m
  <1>4. QED
    BY <1>2, <1>3

\* What was asked for stays asked for.
LEMMA AskedForStays ==
    ASSUME NEW l \in Seq(Entry), NEW e \in Entry, NEW n \in 0..Len(l), NEW d
    PROVE  /\ AskedFor(Append(l, e), n, d) <=> AskedFor(l, n, d)
           /\ AskedFor(l, Len(l), d) => AskedFor(Append(l, e), Len(Append(l, e)), d)
           /\ e.event = "EXTENSION_REQUESTED" /\ e.end = d => AskedFor(Append(l, e), Len(Append(l, e)), d)
  <1>1. /\ Len(l) \in Nat /\ Len(Append(l, e)) = Len(l) + 1 /\ Append(l, e)[Len(l) + 1] = e
        /\ \A i \in 1..Len(l) : Append(l, e)[i] = l[i]
    OBVIOUS
  <1>2. QED
    BY <1>1 DEF AskedFor

LEMMA GrantsGrow ==
    ASSUME NEW l \in Seq(Entry), NEW e \in Entry, NEW d, NEW f, GrantsLead(l, d),
           e.event = "EXTENSION_APPROVED" => AskedFor(l, Len(l), e.end) /\ f = e.end,
           e.event # "EXTENSION_APPROVED" => f = d \/ Grants(l) = {}
    PROVE  GrantsLead(Append(l, e), f)
  <1> DEFINE m == Append(l, e)
             n == Len(l) + 1
  <1>1. /\ Len(l) \in Nat /\ n - 1 = Len(l) /\ m[n] = e /\ DOMAIN m = DOMAIN l \cup {n}
        /\ DOMAIN l = 1..Len(l) /\ \A i \in DOMAIN l : i < n /\ m[i] = l[i] /\ i - 1 \in 0..Len(l)
    OBVIOUS
  <1>2. \A i \in DOMAIN l : \A x : AskedFor(l, i - 1, x) => AskedFor(m, i - 1, x)
    BY <1>1, AskedForStays
  <1>3. \A x : AskedFor(l, Len(l), x) => AskedFor(m, Len(l), x)
    BY <1>1, AskedForStays
  <1> HIDE DEF m, n
  <1>4. CASE e.event = "EXTENSION_APPROVED"
    <2>1. Grants(m) = Grants(l) \cup {n} /\ Grants(l) \subseteq DOMAIN l
      BY <1>1, <1>4 DEF Grants
    <2>2. QED
      BY <1>1, <1>2, <1>3, <1>4, <2>1 DEF GrantsLead, m
  <1>5. CASE e.event # "EXTENSION_APPROVED"
    <2>1. Grants(m) = Grants(l) /\ Grants(l) \subseteq DOMAIN l
      BY <1>1, <1>5 DEF Grants
    <2>2. QED
      BY <1>1, <1>2, <1>5, <2>1 DEF GrantsLead, m
  <1>6. QED
    BY <1>4, <1>5

LEMMA InUseStays ==
    ASSUME NEW s, NEW t, t \in Later(s), s \in InUse
    PROVE  t \in InUse
  BY DEF Later, InUse

LEMMA HistoryGrows ==
    ASSUME NEW s \in Row, NEW t \in Row, NEW l \in Seq(Entry), NEW e \in Entry,
           HistoryOK(s, l), Happens(s, t, e, l), t.status \in Later(s.status)
    PROVE  HistoryOK(t, Append(l, e))
  <1> DEFINE m == Append(l, e)
  <1>1. MovesLead(m, t.status)
    <2>1. IF e.from # e.to THEN s.status = e.from /\ t.status = e.to ELSE t.status = s.status
      BY DEF Happens
    <2>2. QED
      BY <2>1, MovesGrow DEF HistoryOK
  <1>2. GrantsLead(m, t.end)
    <2>1. e.event # "EXTENSION_APPROVED" => t.end = s.end \/ Grants(l) = {}
      BY DEF Happens, HistoryOK, InUse
    <2>2. e.event = "EXTENSION_APPROVED" => AskedFor(l, Len(l), e.end) /\ t.end = e.end
      BY DEF Happens
    <2>3. QED
      BY <2>1, <2>2, GrantsGrow DEF HistoryOK
  <1>3. s.status \in InUse => t.status \in InUse
    BY InUseStays
  <1>4. Grants(m) # {} => t.status \in InUse
    <2>1. Grants(m) # {} => Grants(l) # {} \/ e.event = "EXTENSION_APPROVED"
      BY DEF Grants
    <2>2. QED
      BY <1>3, <2>1 DEF Happens, HistoryOK
  <1>5. t.ask # 0 => t.status \in InUse /\ AskedFor(m, Len(m), t.ask)
    <2>1. /\ AskedFor(l, Len(l), t.ask) => AskedFor(m, Len(m), t.ask)
          /\ e.event = "EXTENSION_REQUESTED" /\ e.end = t.ask => AskedFor(m, Len(m), t.ask)
      <3>1. 0 \in 0..Len(l)
        OBVIOUS
      <3>2. QED
        BY <3>1, AskedForStays
    <2>2. QED
      BY <1>3, <2>1 DEF Happens, HistoryOK
  <1>6. QED
    BY <1>1, <1>2, <1>4, <1>5 DEF HistoryOK

-----------------------------------------------------------------------------
(* A step, seen from one request *)

HistoryStepAt(r) ==
    \/ request'[r] = request[r] /\ log'[r] = log[r]
    \/ \E e \in Entry : log'[r] = Append(log[r], e) /\ Happens(request[r], request'[r], e, log[r])

\* Logging an event with what it does to its row.
LEMMA OneHappens ==
    ASSUME TypeOK, NEW r \in Requests, NEW n, NEW e \in Entry,
           request' = [request EXCEPT ![r] = n], LogEvent(r, e),
           Happens(request[r], n, e, log[r])
    PROVE  \A q \in Requests : HistoryStepAt(q)
  <1>1. /\ request'[r] = n /\ log'[r] = Append(log[r], e)
        /\ \A q \in Requests \ {r} : request'[q] = request[q] /\ log'[q] = log[q]
    BY DEF TypeOK, LogEvent
  <1>2. QED
    BY <1>1 DEF HistoryStepAt

LEMMA CommitHappens ==
    ASSUME HInv, NEW p \in Procs,
           \/ CommitEdit(p) \/ CommitTransition(p) \/ CommitDecision(p) \/ CommitRetry(p) \/ CommitOutcome(p)
           \/ CommitSystemEvent(p)
    PROVE  /\ \A q \in Requests : HistoryStepAt(q)
           /\ \A q \in Procs : tx'[q] \in {tx[q], Idle}
  <1> DEFINE w == tx[p]
             r == w.rid
             row == request[r]
             e == [event |-> w.event, from |-> w.from, to |-> w.to, end |-> w.end]
  <1>1. TypeOK /\ w \in Txn /\ w # Idle
    <2>1. w # Idle
      BY DEF CommitEdit, CommitTransition, CommitDecision, CommitRetry, CommitOutcome, CommitSystemEvent,
             Idle, Transitions, Decisions, Successes, Failures, Marks
    <2>2. QED
      BY <2>1 DEF HInv, WInv, TypeOK
  <1>2. r \in Requests /\ row \in Row /\ e \in Entry /\ w.to \in Statuses
    BY <1>1 DEF Txn, TypeOK, Entry
  <1>3. WorkPlanOK(w, row.status, jobs[r]) /\ HistoryPlanOK(w, row, log[r])
    BY <1>1, <1>2 DEF HInv, WInv, WorkPlansOK, HistoryPlansOK, St
  <1>4. ASSUME NEW n, NEW js, Write(p, n, js), Happens(row, n, e, log[r])
        PROVE  /\ \A q \in Requests : HistoryStepAt(q)
               /\ \A q \in Procs : tx'[q] \in {tx[q], Idle}
    BY <1>1, <1>2, <1>4, OneHappens, WriteShape DEF Write
  <1>5. e.event = w.event /\ e.from = w.from /\ e.to = w.to /\ e.end = w.end
    OBVIOUS
  <1> HIDE DEF e
  <1>6. CASE CommitEdit(p)
    <2> DEFINE n == [row EXCEPT !.end = w.end, !.extras = w.extras]
    <2>1. Write(p, n, jobs[r]) /\ w.event = "EDITED" /\ row.status = "Pending"
      BY <1>6 DEF CommitEdit, UpdateMatches
    <2>2. n.status = row.status /\ n.ask = row.ask
      BY <1>2 DEF Row
    <2>3. w.from = w.to
      BY <1>3, <2>1 DEF HistoryPlanOK
    <2> HIDE DEF n
    <2>4. QED
      BY <1>4, <1>5, <2>1, <2>2, <2>3 DEF Happens
  <1>7. CASE CommitTransition(p)
    <2> DEFINE extras == IF w.event \in {"APPROVED", "REJECTED"} THEN w.extras ELSE row.extras
               n == [row EXCEPT !.status = w.to, !.extras = extras]
    <2>1. Write(p, n, Queue(r, w.job)) /\ w.event \in Transitions /\ row.status = w.from
      BY <1>7 DEF CommitTransition, UpdateMatches
    <2>2. n.status = w.to /\ n.ask = row.ask /\ n.end = row.end /\ n.extras = extras
      BY <1>2 DEF Row
    <2>3. w.event \in {"APPROVED", "REJECTED"} => row.status = "Pending"
      BY <1>3, <2>1 DEF WorkPlanOK
    <2> HIDE DEF n
    <2>4. w.event # "EXTENSION_APPROVED"
      BY <2>1 DEF Transitions
    <2>5. Happens(row, n, e, log[r])
      BY <1>5, <2>1, <2>2, <2>3, <2>4 DEF Happens
    <2>6. QED
      BY <1>4, <2>1, <2>5
  <1>8. CASE CommitDecision(p)
    <2> DEFINE n == [row EXCEPT !.end = DecidedEnd(w, @), !.ask = 0, !.extras = w.extras]
    <2>1. Write(p, n, Queue(r, w.job)) /\ w.event \in Decisions
      BY <1>8 DEF CommitDecision
    <2>2. n.status = row.status /\ n.ask = 0 /\ n.end = DecidedEnd(w, row.end) /\ n.extras = w.extras
      BY <1>2 DEF Row
    <2>3. /\ w.from = w.to /\ row.status \in InUse /\ row.extras = w.extras
          /\ w.event = "EXTENSION_APPROVED" => AskedFor(log[r], Len(log[r]), w.end)
      BY <1>3, <2>1 DEF HistoryPlanOK
    <2> HIDE DEF n
    <2>4. Happens(row, n, e, log[r])
      BY <1>5, <2>2, <2>3 DEF Happens, DecidedEnd
    <2>5. QED
      BY <1>4, <2>1, <2>4
  <1>9. ASSUME NEW js, Write(p, row, js), w.event \in {"RETRIED"} \cup Marks
        PROVE  /\ \A q \in Requests : HistoryStepAt(q)
               /\ \A q \in Procs : tx'[q] \in {tx[q], Idle}
    <2>1. w.from = w.to /\ w.event # "EXTENSION_APPROVED"
      BY <1>3, <1>9 DEF HistoryPlanOK, Marks
    <2>2. Happens(row, row, e, log[r])
      BY <1>5, <2>1 DEF Happens
    <2>3. QED
      BY <1>4, <1>9, <2>2
  <1>10. CASE CommitRetry(p)
    BY <1>9, <1>10 DEF CommitRetry
  <1>11. CASE CommitOutcome(p)
    <2> DEFINE n == IF w.to # w.from THEN [row EXCEPT !.status = w.to] ELSE row
               outcome == IF w.event \in Successes THEN "Succeeded" ELSE "Failed"
    <2>1. /\ Write(p, n, [jobs[r] EXCEPT ![w.k].status = outcome])
          /\ w.event \in Successes \cup Failures
          /\ w.to # w.from => row.status = w.from
      BY <1>11 DEF CommitOutcome, UpdateMatches
    <2>2. /\ n.status = IF w.to # w.from THEN w.to ELSE row.status
          /\ n.end = row.end /\ n.ask = row.ask /\ n.extras = row.extras
      BY <1>2 DEF Row
    <2>3. w.event # "EXTENSION_APPROVED"
      BY <2>1 DEF Successes, Failures
    <2> HIDE DEF n
    <2>4. Happens(row, n, e, log[r])
      BY <1>5, <2>1, <2>2, <2>3 DEF Happens
    <2>5. QED
      BY <1>4, <2>1, <2>4
  <1>12. CASE CommitSystemEvent(p)
    BY <1>9, <1>12 DEF CommitSystemEvent
  <1>13. QED
    BY <1>6, <1>7, <1>8, <1>10, <1>11, <1>12

-----------------------------------------------------------------------------
(* Beginning a transaction *)

\* A plan that changes no status and decides nothing, or is none of a kind that could.
LEMMA HistoryPlanKinds ==
    ASSUME NEW w, NEW row, NEW l
    PROVE  /\ w.event \notin {"EDITED", "RETRIED"} \cup Decisions \cup Marks => HistoryPlanOK(w, row, l)
           /\ w.event \in {"EDITED", "RETRIED"} \cup Marks /\ w.from = w.to => HistoryPlanOK(w, row, l)
  BY DEF HistoryPlanOK, Decisions, Marks

LEMMA ClientHistoryPlans ==
    ASSUME HInv, NEW c \in Clients, NEW r \in Requests, ClientBegins(c, r)
    PROVE  \E w : Begin(c, w) /\ w.rid = r /\ HistoryPlanOK(w, request[r], log[r])
  <1>0. /\ TypeOK /\ jobs[r] \in Seq(Job)
        /\ HistoryOK(request[r], log[r])
    BY DEF HInv, WInv, TypeOK, HistoriesOK
  <1>1. ASSUME NEW d \in Days, NEW f \in Forms, EditRequest(c, r, d, f)
        PROVE  \E w : Begin(c, w) /\ w.rid = r /\ HistoryPlanOK(w, request[r], log[r])
    <2> DEFINE w == [Plan("EDITED", r, "Pending") EXCEPT !.end = d, !.extras = f]
    <2>1. Begin(c, w) /\ request[r].status = "Pending"
      BY <1>1 DEF EditRequest
    <2>2. w.event = "EDITED" /\ w.rid = r /\ w.from = w.to
      BY <2>1 DEF Plan
    <2> HIDE DEF w
    <2>3. QED
      BY <2>1, <2>2, HistoryPlanKinds
  <1>2. ASSUME NEW w, Begin(c, w), w.rid = r, w.event \in Transitions
        PROVE  \E v : Begin(c, v) /\ v.rid = r /\ HistoryPlanOK(v, request[r], log[r])
    BY <1>2, HistoryPlanKinds, KindsAreApart DEF Transitions, Decisions, Marks
  <1>3. CASE ApproveRequest(c, r)
    <2> DEFINE w == [Plan("APPROVED", r, "Approved") EXCEPT !.job = CreateJob(r)]
    <2>1. Begin(c, w) /\ w.rid = r /\ w.event \in Transitions
      BY <1>3 DEF ApproveRequest, Plan, Transitions
    <2>2. QED
      BY <1>2, <2>1
  <1>4. CASE RejectRequest(c, r)
    BY <1>2, <1>4 DEF RejectRequest, Plan, Transitions
  <1>5. CASE ActivateRequest(c, r)
    BY <1>2, <1>5 DEF ActivateRequest, Plan, Transitions
  <1>6. CASE CompleteRequest(c, r)
    <2> DEFINE w == [Plan("COMPLETED", r, "Completed") EXCEPT !.job = RevokeJob(r)]
    <2>1. Begin(c, w) /\ w.rid = r /\ w.event \in Transitions
      BY <1>6 DEF CompleteRequest, Plan, Transitions
    <2>2. QED
      BY <1>2, <2>1
  <1>7. CASE RetryProvisioning(c, r)
    <2> DEFINE last == jobs[r][Len(jobs[r])]
               job == NewJob(last.action, RetriedPeriod(r), last.action = "REVOKE" /\ ~KeepsVpn(r))
               w == [Plan("RETRIED", r, request[r].status) EXCEPT !.job = job]
    <2>1. Begin(c, w)
      BY <1>7 DEF RetryProvisioning
    <2>2. w.event = "RETRIED" /\ w.rid = r /\ w.from = w.to
      BY DEF Plan
    <2> HIDE DEF w
    <2>3. QED
      BY <2>1, <2>2, HistoryPlanKinds
  <1>8. ASSUME NEW approve \in BOOLEAN, DecideExtension(c, r, approve)
        PROVE  \E w : Begin(c, w) /\ w.rid = r /\ HistoryPlanOK(w, request[r], log[r])
    <2> DEFINE no == [Plan("EXTENSION_REJECTED", r, request[r].status) EXCEPT !.end = request[r].ask]
               yes == [no EXCEPT !.event = "EXTENSION_APPROVED", !.job = ExtendJob(r, no.end)]
               w == IF approve THEN yes ELSE no
    <2>1. Begin(c, w) /\ request[r].ask # 0
      BY <1>8 DEF DecideExtension
    <2>2. /\ no.rid = r /\ no.from = no.to /\ no.extras = request[r].extras /\ no.end = request[r].ask
          /\ yes.rid = r /\ yes.from = yes.to /\ yes.extras = request[r].extras /\ yes.end = request[r].ask
          /\ no.event = "EXTENSION_REJECTED" /\ yes.event = "EXTENSION_APPROVED"
      BY DEF Plan
    <2>3. w = yes \/ w = no
      OBVIOUS
    <2> HIDE DEF yes, no, w
    <2>4. /\ w.rid = r /\ w.from = w.to /\ w.extras = request[r].extras /\ w.end = request[r].ask
      BY <2>2, <2>3
    <2>5. request[r].status \in InUse /\ AskedFor(log[r], Len(log[r]), w.end)
      BY <1>0, <2>1, <2>4 DEF HistoryOK
    <2>6. QED
      BY <2>1, <2>4, <2>5 DEF HistoryPlanOK
  <1>9. ASSUME NEW w, Begin(c, w), w.rid = r, w.event \in Successes \cup Failures
        PROVE  \E v : Begin(c, v) /\ v.rid = r /\ HistoryPlanOK(v, request[r], log[r])
    BY <1>9, HistoryPlanKinds, KindsAreApart
  <1>10. ASSUME NEW k \in 1..MaxJobs, FailJob(c, r, k) \/ \E ok \in BOOLEAN : HandleResult(c, r, k, ok)
         PROVE  \E w : Begin(c, w) /\ w.rid = r /\ HistoryPlanOK(w, request[r], log[r])
    <2>1. jobs[r][k] \in Job
      <3>1. k \in DOMAIN jobs[r]
        BY <1>10 DEF FailJob, HandleResult
      <3>2. QED
        BY <1>0, <3>1
    <2>2. \A ok \in BOOLEAN : ResultEvent(jobs[r][k].action, ok) \in Successes \cup Failures
      BY <2>1 DEF ResultEvent, Job, JobActions, Successes, Failures
    <2>3. CASE FailJob(c, r, k)
      <3> DEFINE w == [Plan(ResultEvent(jobs[r][k].action, FALSE), r, request[r].status) EXCEPT !.k = k]
      <3>1. Begin(c, w)
        BY <2>3 DEF FailJob
      <3>2. w.rid = r /\ w.event \in Successes \cup Failures
        BY <2>2 DEF Plan
      <3>3. QED
        BY <1>9, <3>1, <3>2
    <2>4. ASSUME NEW ok \in BOOLEAN, HandleResult(c, r, k, ok)
          PROVE  \E w : Begin(c, w) /\ w.rid = r /\ HistoryPlanOK(w, request[r], log[r])
      <3> DEFINE job == jobs[r][k]
                 to == CASE ok /\ job.action = "CREATE" /\ request[r].status = "Approved" -> "On_Use"
                         [] ok /\ job.action = "REVOKE" /\ request[r].status = "On_Use" -> "Completed"
                         [] OTHER -> request[r].status
                 w == [Plan(ResultEvent(job.action, ok), r, to) EXCEPT !.k = k]
      <3>1. Begin(c, w)
        BY <2>4 DEF HandleResult
      <3>2. w.rid = r /\ w.event \in Successes \cup Failures
        BY <2>2 DEF Plan
      <3>3. QED
        BY <1>9, <3>1, <3>2
    <2>5. QED
      BY <1>10, <2>3, <2>4
  <1>11. QED
    BY <1>1, <1>3, <1>4, <1>5, <1>6, <1>7, <1>8, <1>10 DEF ClientBegins

-----------------------------------------------------------------------------
(* The invariant *)

HistoryPlansGoOn ==
    \A q \in Procs :
        \/ tx'[q] \in {tx[q], Idle}
        \/ /\ UNCHANGED <<request, log>>
           /\ tx'[q].rid \in Requests /\ HistoryPlanOK(tx'[q], request[tx'[q].rid], log[tx'[q].rid])

LEMMA BeginPlansGoOn ==
    ASSUME TypeOK, NEW p \in Procs, NEW r \in Requests,
           \E w : Begin(p, w) /\ w.rid = r /\ HistoryPlanOK(w, request[r], log[r])
    PROVE  (\A q \in Requests : HistoryStepAt(q)) /\ HistoryPlansGoOn
  <1>1. PICK w : Begin(p, w) /\ w.rid = r /\ HistoryPlanOK(w, request[r], log[r])
    OBVIOUS
  <1>2. UNCHANGED <<request, log>> /\ tx' = [tx EXCEPT ![p] = w]
    BY <1>1 DEF Begin, db
  <1>3. \A q \in Procs : tx'[q] = IF q = p THEN w ELSE tx[q]
    BY <1>2 DEF TypeOK
  <1>4. QED
    BY <1>1, <1>2, <1>3 DEF HistoryPlansGoOn, HistoryStepAt

LEMMA StepHappens ==
    ASSUME HInv, [Next]_vars
    PROVE  (\A q \in Requests : HistoryStepAt(q)) /\ HistoryPlansGoOn
  <1> DEFINE Goal == (\A q \in Requests : HistoryStepAt(q)) /\ HistoryPlansGoOn
  <1>0. TypeOK
    BY DEF HInv, WInv
  <1>1. ASSUME UNCHANGED <<request, log>>, \A q \in Procs : tx'[q] \in {tx[q], Idle}
        PROVE  Goal
    BY <1>1 DEF HistoryStepAt, HistoryPlansGoOn
  <1>2. ASSUME NEW c \in Clients, ClientStep(c)
        PROVE  Goal
    <2>1. c \in Procs
      BY DEF Procs
    <2>2. CASE Abort(c)
      <3>1. \A q \in Procs : tx'[q] \in {tx[q], Idle}
        BY <1>0, <2>2 DEF Abort, TypeOK
      <3>2. QED
        BY <1>1, <2>2, <3>1 DEF Abort, db
    <2>3. CASE \E r \in Requests : ClientBegins(c, r)
      BY <1>0, <2>1, <2>3, ClientHistoryPlans, BeginPlansGoOn
    <2>4. QED
      BY <1>2, <2>1, <2>2, <2>3, CommitHappens DEF ClientStep, ClientBegins, HistoryPlansGoOn
  <1>3. ASSUME NEW s \in Schedulers, SchedulerStep(s)
        PROVE  Goal
    <2>1. s \in Procs
      BY DEF Procs
    <2>2. CASE CommitSystemEvent(s)
      BY <2>1, <2>2, CommitHappens DEF HistoryPlansGoOn
    <2>3. ASSUME NEW r \in Requests, SystemEvent(s, r)
          PROVE  Goal
      <3> DEFINE mark == pass[s].step
                 w == [Plan(mark, r, "On_Use") EXCEPT
                         !.end = request[r].end,
                         !.job = IF mark = "EXPIRED" THEN RevokeJob(r) ELSE NoJob]
      <3>1. Begin(s, w) /\ request[r].status = "On_Use" /\ mark \in {"off", "REMINDED", "EXPIRED"}
        BY <1>0, <2>3 DEF SystemEvent, TypeOK, Pass
      <3>2. w.event = mark /\ w.rid = r /\ w.from = w.to
        BY <3>1 DEF Plan
      <3> HIDE DEF w
      <3>3. mark # "off"
        BY <3>1, <3>2, OpsAssumption DEF Begin, Events, Transitions, Decisions, Successes, Failures, Marks
      <3>4. HistoryPlanOK(w, request[r], log[r])
        BY <3>1, <3>2, <3>3, HistoryPlanKinds DEF Marks
      <3>5. QED
        BY <1>0, <2>1, <3>1, <3>2, <3>4, BeginPlansGoOn
    <2>4. CASE StartPass(s) \/ ListEnded(s) \/ EndPass(s) \/ \E r \in Requests : SkipSystemEvent(s, r)
      BY <1>1, <2>4 DEF StartPass, ListEnded, EndPass, SkipSystemEvent, db
    <2>5. CASE AbortSystemEvent(s) \/ CrashInPass(s)
      <3>1. \A q \in Procs : tx'[q] \in {tx[q], Idle}
        BY <1>0, <2>5 DEF AbortSystemEvent, CrashInPass, TypeOK
      <3>2. QED
        BY <1>1, <2>5, <3>1 DEF AbortSystemEvent, CrashInPass, db
    <2>6. QED
      BY <1>3, <2>2, <2>3, <2>4, <2>5 DEF SchedulerStep
  <1>4. ASSUME NEW r \in Requests, NEW d \in Days, NEW f \in Forms, CreateRequest(r, d, f)
        PROVE  Goal
    <2> DEFINE n == [status |-> "Pending", end |-> d, ask |-> 0, extras |-> f]
               e == [event |-> "CREATED", from |-> "None", to |-> "Pending", end |-> 0]
    <2>1. /\ request[r].status = "None" /\ request' = [request EXCEPT ![r] = n] /\ LogEvent(r, e)
          /\ tx' = tx
      BY <1>4 DEF CreateRequest
    <2>2. e \in Entry
      BY BoundsAssumption DEF Entry, Events, Statuses
    <2>3. Happens(request[r], n, e, log[r])
      BY <2>1 DEF Happens
    <2>4. QED
      BY <1>0, <2>1, <2>2, <2>3, OneHappens DEF HistoryPlansGoOn
  <1>5. ASSUME NEW r \in Requests, NEW d \in Days, RequestExtension(r, d)
        PROVE  Goal
    <2> DEFINE n == [request[r] EXCEPT !.ask = d]
               e == [event |-> "EXTENSION_REQUESTED", from |-> "On_Use", to |-> "On_Use", end |-> d]
    <2>1. /\ request[r].status = "On_Use" /\ request' = [request EXCEPT ![r] = n] /\ LogEvent(r, e)
          /\ tx' = tx
      BY <1>5 DEF RequestExtension, StillRunning
    <2>2. e \in Entry
      BY BoundsAssumption DEF Entry, Events, Statuses, Days
    <2>3. /\ n.status = request[r].status /\ n.end = request[r].end /\ n.ask = d
          /\ n.extras = request[r].extras
      BY <1>0 DEF TypeOK, Row
    <2> HIDE DEF n
    <2>4. Happens(request[r], n, e, log[r])
      BY <2>1, <2>3 DEF Happens, InUse
    <2>5. QED
      BY <1>0, <2>1, <2>2, <2>4, OneHappens DEF HistoryPlansGoOn
  <1>6. CASE \/ \E r \in Requests, k \in 1..MaxJobs : Dispatch(r, k) \/ DispatchRolledBack(r, k)
             \/ LeaseLapses \/ NextDay \/ UNCHANGED vars
    BY <1>1, <1>6 DEF Dispatch, DispatchRolledBack, LeaseLapses, NextDay, vars, db
  <1>7. QED
    BY <1>2, <1>3, <1>4, <1>5, <1>6 DEF Next

\* A request does not go back to a status it has left.
LEMMA StatusesMoveOn ==
    ASSUME WInv, [Next]_vars, NEW r \in Requests
    PROVE  request'[r].status \in Later(request[r].status)
  <1>1. SoundAt(r, St(r), Asked(jobs[r]), Outs(jobs[r])) /\ StepAt(r)
    BY StepIsWorkflowStep, EachSteps DEF WInv, Sound
  <1>2. QED
    BY <1>1, LocalStepIsSound DEF StepAt, St

\* What a plan read of the row and the log still holds after another step.
LEMMA HistoryPlanStays ==
    ASSUME TypeOK, TypeOK', NEW w, NEW r \in Requests, HistoryStepAt(r),
           request'[r].status \in Later(request[r].status),
           HistoryPlanOK(w, request[r], log[r])
    PROVE  HistoryPlanOK(w, request'[r], log'[r])
  <1>1. CASE request'[r] = request[r] /\ log'[r] = log[r]
    BY <1>1
  <1>2. ASSUME NEW e \in Entry, log'[r] = Append(log[r], e), Happens(request[r], request'[r], e, log[r])
        PROVE  HistoryPlanOK(w, request'[r], log'[r])
    <2>1. log[r] \in Seq(Entry)
      BY DEF TypeOK
    <2>2. 0 \in 0..Len(log[r])
      BY <2>1
    <2>3. AskedFor(log[r], Len(log[r]), w.end) => AskedFor(log'[r], Len(log'[r]), w.end)
      BY <1>2, <2>1, <2>2, AskedForStays
    <2>4. request[r].status \in InUse =>
              request'[r].status \in InUse /\ request'[r].extras = request[r].extras
      BY <1>2, InUseStays DEF Happens, InUse
    <2>5. QED
      BY <2>3, <2>4 DEF HistoryPlanOK
  <1>3. QED
    BY <1>1, <1>2 DEF HistoryStepAt

LEMMA HistoryInvariantStep ==
    ASSUME HInv, [Next]_vars
    PROVE  HInv'
  <1>1. WInv /\ TypeOK /\ TypeOK' /\ WInv'
    BY TypeStep, WorkInvariantStep DEF HInv, WInv
  <1>2. (\A r \in Requests : HistoryStepAt(r)) /\ HistoryPlansGoOn
    BY StepHappens
  <1>3. \A r \in Requests : request'[r].status \in Later(request[r].status)
    BY <1>1, StatusesMoveOn
  <1>4. ASSUME NEW r \in Requests
        PROVE  HistoryOK(request'[r], log'[r])
    <2>1. /\ HistoryOK(request[r], log[r]) /\ HistoryStepAt(r)
          /\ request[r] \in Row /\ request'[r] \in Row /\ log[r] \in Seq(Entry)
      BY <1>1, <1>2 DEF HInv, HistoriesOK, TypeOK
    <2>2. QED
      BY <1>3, <2>1, HistoryGrows DEF HistoryStepAt
  <1>5. ASSUME NEW q \in Procs, tx'[q] # Idle
        PROVE  HistoryPlanOK(tx'[q], request'[tx'[q].rid], log'[tx'[q].rid])
    <2>1. CASE tx'[q] = tx[q]
      <3> DEFINE w == tx[q]
      <3>1. w \in Txn /\ HistoryPlanOK(w, request[w.rid], log[w.rid])
        BY <1>1, <1>5, <2>1 DEF HInv, HistoryPlansOK, TypeOK
      <3>2. w.rid \in Requests
        BY <3>1 DEF Txn
      <3>3. HistoryPlanOK(w, request'[w.rid], log'[w.rid])
        BY <1>1, <1>2, <1>3, <3>1, <3>2, HistoryPlanStays
      <3>4. QED
        BY <2>1, <3>3
    <2>2. CASE tx'[q] # tx[q]
      BY <1>2, <1>5, <2>2 DEF HistoryPlansGoOn
    <2>3. QED
      BY <2>1, <2>2
  <1>6. QED
    BY <1>1, <1>4, <1>5 DEF HInv, HistoriesOK, HistoryPlansOK

LEMMA HistoryInvariantInit == Init => HInv
  <1> SUFFICES ASSUME Init PROVE HInv
    OBVIOUS
  <1>1. \A r \in Requests : log[r] = <<>> /\ request[r].status = "None" /\ request[r].ask = 0
    BY DEF Init
  <1>2. Moves(<<>>) = {} /\ Grants(<<>>) = {}
    BY DEF Moves, Grants
  <1>3. HistoriesOK
    BY <1>1, <1>2 DEF HistoriesOK, HistoryOK, MovesLead, GrantsLead
  <1>4. HistoryPlansOK
    BY DEF Init, HistoryPlansOK
  <1>5. QED
    BY <1>3, <1>4, WorkInvariantInit DEF HInv

LEMMA HistoryInvariant == Spec => []HInv
  BY HistoryInvariantInit, HistoryInvariantStep, PTL DEF Spec

-----------------------------------------------------------------------------
(* The theorems *)

\* The status changes in the log lead, one from the other, from the creation of
\* the request to its present status, whatever transactions raced: each of them
\* is the only one that left its status (guardedUpdate, handleResult).
THEOREM LogIsTheHistory == Spec => []LogTellsTheHistory
  <1>1. HInv => LogTellsTheHistory
    BY DEF HInv, HistoriesOK, HistoryOK, MovesLead, Moves, LogTellsTheHistory
  <1>2. QED
    BY <1>1, HistoryInvariant, PTL

\* The end date in force is the last one that was granted, and each granted date
\* had been asked for, although a decision is made on a snapshot older than its
\* lock (requestExtension, decideExtension).
THEOREM EndDatesAreGranted == Spec => []EndDateIsGranted
  <1>1. HInv => EndDateIsGranted
    BY DEF HInv, HistoriesOK, HistoryOK, GrantsLead, Grants, AskedFor, EndDateIsGranted
  <1>2. QED
    BY <1>1, HistoryInvariant, PTL

\* Once a request has left Pending nothing changes its form, neither an edit that
\* commits late nor a decision that writes extra_details back from its snapshot.
THEOREM FormsAreFixed == Spec => DecidedFormIsFixed
  <1>1. ASSUME HInv, [Next]_vars
        PROVE  [\A r \in Requests : request[r].status \notin {"None", "Pending"} =>
                    request'[r].extras = request[r].extras]_request
    BY <1>1, StepHappens DEF HistoryStepAt, Happens
  <1>2. QED
    BY <1>1, HistoryInvariant, PTL DEF Spec, DecidedFormIsFixed

-----------------------------------------------------------------------------
(* The marks of the scheduler *)

MarkLogged(l, mark, end) == \E i \in DOMAIN l : l[i].event = mark /\ l[i].end = end

MarkedOnce(l) ==
    \A i, j \in DOMAIN l :
        i # j /\ l[i].event \in Marks /\ l[i].event = l[j].event => l[i].end # l[j].end

\* Only the owner of the lease is in a pass.
PassIsAlone == \A s \in Schedulers : pass[s].step # "off" => lease.owner = s

\* A task's open transaction is that of a request it still has to do, and its
\* mark is not there for that end date; a client never marks.
MarkIsNew ==
    /\ \A c \in Clients : tx[c] # Idle => tx[c].event \notin Marks
    /\ \A s \in Schedulers : tx[s] # Idle =>
          /\ tx[s].event \in Marks /\ tx[s].event = pass[s].step
          /\ tx[s].rid \in Requests \cap pass[s].todo
          /\ ~MarkLogged(log[tx[s].rid], tx[s].event, tx[s].end)

MInv == TypeOK /\ PassIsAlone /\ MarkIsNew /\ \A r \in Requests : MarkedOnce(log[r])

\* No mark is logged.
NoMark(l, m) == m = l \/ \E e \in Entry : m = Append(l, e) /\ e.event \notin Marks

LEMMA NoMarkIsLogged ==
    ASSUME NEW l \in Seq(Entry), NEW m, NoMark(l, m)
    PROVE  /\ MarkedOnce(l) => MarkedOnce(m)
           /\ \A mark \in Marks : \A d : MarkLogged(m, mark, d) => MarkLogged(l, mark, d)
  <1>1. CASE m = l
    BY <1>1
  <1>2. ASSUME NEW e \in Entry, m = Append(l, e), e.event \notin Marks
        PROVE  /\ MarkedOnce(l) => MarkedOnce(m)
               /\ \A mark \in Marks : \A d : MarkLogged(m, mark, d) => MarkLogged(l, mark, d)
    <2>1. /\ m[Len(l) + 1] = e /\ DOMAIN m = DOMAIN l \cup {Len(l) + 1}
          /\ \A i \in DOMAIN l : m[i] = l[i]
      BY <1>2
    <2>2. QED
      BY <1>2, <2>1 DEF MarkedOnce, MarkLogged
  <1>3. QED
    BY <1>1, <1>2 DEF NoMark

LEMMA NewMarkIsLogged ==
    ASSUME NEW l \in Seq(Entry), NEW e \in Entry, MarkedOnce(l), ~MarkLogged(l, e.event, e.end)
    PROVE  MarkedOnce(Append(l, e))
  <1> DEFINE m == Append(l, e)
             n == Len(l) + 1
  <1>1. /\ m[n] = e /\ DOMAIN m = DOMAIN l \cup {n} /\ n \notin DOMAIN l
        /\ \A i \in DOMAIN l : m[i] = l[i]
    OBVIOUS
  <1> HIDE DEF m, n
  <1>2. QED
    BY <1>1 DEF MarkedOnce, MarkLogged, m

LEMMA ClientsDoNotMark ==
    ASSUME TypeOK, NEW c \in Clients, NEW r \in Requests, ClientBegins(c, r)
    PROVE  \E w : Begin(c, w) /\ w.event \notin Marks
  <1>2. ASSUME NEW k \in 1..MaxJobs, FailJob(c, r, k) \/ \E ok \in BOOLEAN : HandleResult(c, r, k, ok)
        PROVE  \E w : Begin(c, w) /\ w.event \notin Marks
    <2>1. jobs[r][k].action \in JobActions
      <3>1. k \in DOMAIN jobs[r] /\ jobs[r] \in Seq(Job)
        BY <1>2 DEF FailJob, HandleResult, TypeOK
      <3>2. jobs[r][k] \in Job
        BY <3>1
      <3>3. QED
        BY <3>2 DEF Job
    <2>2. \A ok \in BOOLEAN : ResultEvent(jobs[r][k].action, ok) \notin Marks
      BY <2>1 DEF ResultEvent, JobActions, Marks
    <2>3. CASE FailJob(c, r, k)
      <3> DEFINE w == [Plan(ResultEvent(jobs[r][k].action, FALSE), r, request[r].status) EXCEPT !.k = k]
      <3>1. Begin(c, w)
        BY <2>3 DEF FailJob
      <3>2. w.event \notin Marks
        BY <2>2 DEF Plan
      <3>3. QED
        BY <3>1, <3>2
    <2>4. ASSUME NEW ok \in BOOLEAN, HandleResult(c, r, k, ok)
          PROVE  \E w : Begin(c, w) /\ w.event \notin Marks
      <3> DEFINE job == jobs[r][k]
                 to == CASE ok /\ job.action = "CREATE" /\ request[r].status = "Approved" -> "On_Use"
                         [] ok /\ job.action = "REVOKE" /\ request[r].status = "On_Use" -> "Completed"
                         [] OTHER -> request[r].status
                 w == [Plan(ResultEvent(job.action, ok), r, to) EXCEPT !.k = k]
      <3>1. Begin(c, w)
        BY <2>4 DEF HandleResult
      <3>2. w.event \notin Marks
        BY <2>2 DEF Plan
      <3>3. QED
        BY <3>1, <3>2
    <2>5. QED
      BY <1>2, <2>3, <2>4
  <1>3. ASSUME NEW d \in Days, NEW f \in Forms, EditRequest(c, r, d, f)
        PROVE  \E w : Begin(c, w) /\ w.event \notin Marks
    <2> DEFINE w == [Plan("EDITED", r, "Pending") EXCEPT !.end = d, !.extras = f]
    <2>1. Begin(c, w)
      BY <1>3 DEF EditRequest
    <2>2. w.event \notin Marks
      BY DEF Plan, Marks
    <2>3. QED
      BY <2>1, <2>2
  <1>4. ASSUME NEW approve \in BOOLEAN, DecideExtension(c, r, approve)
        PROVE  \E w : Begin(c, w) /\ w.event \notin Marks
    <2> DEFINE no == [Plan("EXTENSION_REJECTED", r, request[r].status) EXCEPT !.end = request[r].ask]
               yes == [no EXCEPT !.event = "EXTENSION_APPROVED", !.job = ExtendJob(r, no.end)]
    <2>1. Begin(c, IF approve THEN yes ELSE no)
      BY <1>4 DEF DecideExtension
    <2>2. yes.event \notin Marks /\ no.event \notin Marks
      BY DEF Plan, Marks
    <2> HIDE DEF yes, no
    <2>3. QED
      BY <2>1, <2>2
  <1>5. CASE RetryProvisioning(c, r)
    <2> DEFINE last == jobs[r][Len(jobs[r])]
               job == NewJob(last.action, RetriedPeriod(r), last.action = "REVOKE" /\ ~KeepsVpn(r))
               w == [Plan("RETRIED", r, request[r].status) EXCEPT !.job = job]
    <2>1. Begin(c, w)
      BY <1>5 DEF RetryProvisioning
    <2>2. w.event \notin Marks
      BY DEF Plan, Marks
    <2>3. QED
      BY <2>1, <2>2
  <1>6. CASE ApproveRequest(c, r)
    <2> DEFINE w == [Plan("APPROVED", r, "Approved") EXCEPT !.job = CreateJob(r)]
    <2>1. Begin(c, w) /\ w.event \notin Marks
      BY <1>6 DEF ApproveRequest, Plan, Marks
    <2>2. QED
      BY <2>1
  <1>7. CASE CompleteRequest(c, r)
    <2> DEFINE w == [Plan("COMPLETED", r, "Completed") EXCEPT !.job = RevokeJob(r)]
    <2>1. Begin(c, w) /\ w.event \notin Marks
      BY <1>7 DEF CompleteRequest, Plan, Marks
    <2>2. QED
      BY <2>1
  <1>8. CASE RejectRequest(c, r)
    <2>1. Begin(c, Plan("REJECTED", r, "Rejected")) /\ Plan("REJECTED", r, "Rejected").event \notin Marks
      BY <1>8 DEF RejectRequest, Plan, Marks
    <2>2. QED
      BY <2>1
  <1>9. CASE ActivateRequest(c, r)
    <2>1. Begin(c, Plan("ACTIVATED", r, "On_Use")) /\ Plan("ACTIVATED", r, "On_Use").event \notin Marks
      BY <1>9 DEF ActivateRequest, Plan, Marks
    <2>2. QED
      BY <2>1
  <1>10. QED
    BY <1>2, <1>3, <1>4, <1>5, <1>6, <1>7, <1>8, <1>9 DEF ClientBegins

\* A client's step logs no mark and does not open a transaction that will.
LEMMA ClientsLogNoMark ==
    ASSUME TypeOK, \A c \in Clients : tx[c] # Idle => tx[c].event \notin Marks,
           NEW c \in Clients, ClientStep(c)
    PROVE  /\ UNCHANGED <<pass, lease>>
           /\ \A r \in Requests : NoMark(log[r], log'[r])
           /\ \A q \in Procs : \/ tx'[q] \in {tx[q], Idle}
                               \/ q \in Clients /\ tx'[q].event \notin Marks
  <1>1. c \in Procs
    BY DEF Procs
  <1>2. CASE Abort(c)
    BY <1>2 DEF Abort, db, TypeOK, NoMark
  <1>3. CASE \E r \in Requests : ClientBegins(c, r)
    <2>1. PICK w : Begin(c, w) /\ w.event \notin Marks
      BY <1>3, ClientsDoNotMark
    <2>2. UNCHANGED <<log, pass, lease>> /\ tx' = [tx EXCEPT ![c] = w]
      BY <2>1 DEF Begin, db
    <2>3. \A q \in Procs :
            \/ tx'[q] \in {tx[q], Idle}
            \/ q \in Clients /\ tx'[q].event \notin Marks
      <3>1. tx'[c] = w /\ \A q \in Procs \ {c} : tx'[q] = tx[q]
        BY <1>1, <2>2 DEF TypeOK
      <3>2. QED
        BY <2>1, <3>1
    <2>4. QED
      BY <2>2, <2>3 DEF NoMark
  <1>4. CASE CommitEdit(c) \/ CommitTransition(c) \/ CommitDecision(c) \/ CommitRetry(c) \/ CommitOutcome(c)
    <2> DEFINE w == tx[c]
               e == [event |-> w.event, from |-> w.from, to |-> w.to, end |-> w.end]
    <2>1. PICK row, js : Write(c, row, js) /\ pass' = pass
      BY <1>4 DEF CommitEdit, CommitTransition, CommitDecision, CommitRetry, CommitOutcome
    <2>2. w # Idle
      BY <1>4, CommitsAreOpen
    <2>3. w \in Txn /\ w.event \notin Marks
      BY <1>1, <2>2 DEF TypeOK
    <2>4. e \in Entry /\ e.event \notin Marks /\ w.rid \in Requests
      BY <2>3 DEF Txn, Entry
    <2>5. /\ log' = [log EXCEPT ![w.rid] = Append(@, e)]
          /\ tx' = [tx EXCEPT ![c] = Idle] /\ UNCHANGED <<pass, lease>>
      BY <2>1 DEF Write, LogEvent
    <2> HIDE DEF e
    <2>6. \A r \in Requests : NoMark(log[r], log'[r])
      BY <2>4, <2>5 DEF NoMark, TypeOK
    <2>7. \A q \in Procs : tx'[q] \in {tx[q], Idle}
      BY <2>5 DEF TypeOK
    <2>8. QED
      BY <2>5, <2>6, <2>7
  <1>5. QED
    BY <1>2, <1>3, <1>4 DEF ClientStep, ClientBegins

\* A step that logs no mark and leaves the passes alone; what it opens is no mark.
LEMMA MarksStay ==
    ASSUME MInv, TypeOK', UNCHANGED <<pass, lease>>,
           \A r \in Requests : NoMark(log[r], log'[r]),
           \A q \in Procs : \/ tx'[q] \in {tx[q], Idle}
                            \/ q \in Clients /\ tx'[q].event \notin Marks
    PROVE  MInv'
  <1>1. PassIsAlone'
    BY DEF MInv, PassIsAlone
  <1>2. \A r \in Requests : log[r] \in Seq(Entry)
    BY DEF MInv, TypeOK
  <1>3. \A r \in Requests : MarkedOnce(log'[r])
    BY <1>2, NoMarkIsLogged DEF MInv
  <1>4. ASSUME NEW c \in Clients, tx'[c] # Idle PROVE tx'[c].event \notin Marks
    BY <1>4 DEF MInv, MarkIsNew, Procs
  <1>5. ASSUME NEW s \in Schedulers, tx'[s] # Idle
        PROVE  /\ tx'[s].event \in Marks /\ tx'[s].event = pass'[s].step
               /\ tx'[s].rid \in Requests \cap pass'[s].todo
               /\ ~MarkLogged(log'[tx'[s].rid], tx'[s].event, tx'[s].end)
    <2>1. tx'[s] = tx[s] /\ s \notin Clients
      BY <1>5, SetsAssumption DEF Procs
    <2>2. QED
      BY <1>2, <1>5, <2>1, NoMarkIsLogged DEF MInv, MarkIsNew
  <1>6. QED
    BY <1>1, <1>3, <1>4, <1>5 DEF MInv, MarkIsNew

\* A step of a task s in its pass, or at its start, when no other task is in one.
LEMMA MarksOfOneTask ==
    ASSUME MInv, TypeOK', NEW s \in Schedulers,
           \A t \in Schedulers \ {s} : pass[t].step = "off",
           pass'[s].step # "off" => lease'.owner = s,
           \A t \in Schedulers \ {s} : pass'[t] = pass[t],
           \A q \in Procs \ {s} : tx'[q] = tx[q],
           tx'[s] # Idle =>
              /\ tx'[s].event \in Marks /\ tx'[s].event = pass'[s].step
              /\ tx'[s].rid \in Requests \cap pass'[s].todo
              /\ ~MarkLogged(log'[tx'[s].rid], tx'[s].event, tx'[s].end),
           \A r \in Requests : MarkedOnce(log'[r])
    PROVE  MInv'
  <1>1. PassIsAlone'
    BY DEF PassIsAlone
  <1>2. \A t \in Schedulers \ {s} : tx[t] = Idle
    BY DEF MInv, MarkIsNew, Marks
  <1>3. MarkIsNew'
    <2>1. \A c \in Clients : tx'[c] = tx[c]
      BY SetsAssumption DEF Procs
    <2>2. \A t \in Schedulers \ {s} : tx'[t] = Idle
      BY <1>2 DEF Procs
    <2>3. QED
      BY <2>1, <2>2 DEF MInv, MarkIsNew
  <1>4. QED
    BY <1>1, <1>3 DEF MInv

LEMMA TaskMarks ==
    ASSUME MInv, TypeOK', NEW s \in Schedulers, SchedulerStep(s)
    PROVE  MInv'
  <1>0. /\ TypeOK /\ s \in Procs /\ s # Nobody /\ pass[s] \in Pass
        /\ \A t \in Schedulers : t # Nobody
        /\ \A r \in Requests : log[r] \in Seq(Entry)
    BY SetsAssumption DEF MInv, Procs, TypeOK
  <1>1. pass[s].step # "off" => lease.owner = s /\ \A t \in Schedulers \ {s} : pass[t].step = "off"
    BY DEF MInv, PassIsAlone
  <1>2. tx[s] # Idle => pass[s].step # "off" /\ tx[s].rid \in pass[s].todo
    BY DEF MInv, MarkIsNew, Marks
  <1>3. CASE StartPass(s)
    <2>1. tx[s] = Idle /\ \A t \in Schedulers \ {s} : pass[t].step = "off"
      BY <1>0, <1>2, <1>3 DEF StartPass, MInv, PassIsAlone
    <2>2. UNCHANGED <<log, tx>> /\ lease'.owner = s /\ \A t \in Schedulers \ {s} : pass'[t] = pass[t]
      BY <1>0, <1>3 DEF StartPass, db, TypeOK, Lease
    <2>3. QED
      BY <2>1, <2>2, MarksOfOneTask DEF MInv
  <1>4. CASE ListEnded(s) \/ EndPass(s)
    <2>1. pass[s].step # "off" /\ tx[s] = Idle
      BY <1>2, <1>4 DEF ListEnded, EndPass
    <2>2. UNCHANGED <<log, tx, lease>> /\ \A t \in Schedulers \ {s} : pass'[t] = pass[t]
      BY <1>0, <1>4 DEF ListEnded, EndPass, db, TypeOK
    <2>3. QED
      BY <1>1, <2>1, <2>2, MarksOfOneTask DEF MInv
  <1>5. CASE CrashInPass(s)
    <2>1. /\ pass[s].step # "off" /\ tx'[s] = Idle /\ UNCHANGED <<log, lease>>
          /\ \A t \in Schedulers \ {s} : pass'[t] = pass[t]
          /\ \A q \in Procs \ {s} : tx'[q] = tx[q]
      BY <1>0, <1>5 DEF CrashInPass, db, TypeOK
    <2>2. QED
      BY <1>1, <2>1, MarksOfOneTask DEF MInv
  <1>6. ASSUME NEW r \in Requests, SystemEvent(s, r)
        PROVE  MInv'
    <2> DEFINE mark == pass[s].step
               w == [Plan(mark, r, "On_Use") EXCEPT
                       !.end = request[r].end,
                       !.job = IF mark = "EXPIRED" THEN RevokeJob(r) ELSE NoJob]
    <2>1. Begin(s, w) /\ r \in pass[s].todo /\ ~Marked(r, mark)
      BY <1>6 DEF SystemEvent
    <2>2. w.event = mark /\ w.rid = r /\ w.end = request[r].end
      BY DEF Plan
    <2> HIDE DEF w
    <2>3. mark \in Marks /\ mark # "off"
      <3>1. mark \in Ops /\ mark \in {"off", "REMINDED", "EXPIRED"}
        BY <1>0, <2>1, <2>2 DEF Begin, Pass
      <3>2. mark # "off"
        BY <3>1, OpsAssumption DEF Events, Transitions, Decisions, Successes, Failures, Marks
      <3>3. QED
        BY <3>1, <3>2 DEF Marks
    <2>4. tx' = [tx EXCEPT ![s] = w] /\ UNCHANGED <<log, pass, lease>>
      BY <2>1 DEF Begin, db
    <2>5. tx'[s] = w /\ \A q \in Procs \ {s} : tx'[q] = tx[q]
      BY <1>0, <2>4 DEF TypeOK
    <2>6. ~MarkLogged(log[r], mark, w.end)
      BY <2>1, <2>2 DEF Marked, MarkLogged
    <2>7. QED
      BY <1>1, <2>1, <2>2, <2>3, <2>4, <2>5, <2>6, MarksOfOneTask DEF MInv
  <1>7. ASSUME NEW r \in Requests, SkipSystemEvent(s, r)
        PROVE  MInv'
    <2>1. /\ tx[s] = Idle /\ UNCHANGED <<log, tx, lease>>
          /\ pass'[s].step = pass[s].step
          /\ \A t \in Schedulers \ {s} : pass'[t] = pass[t]
      BY <1>0, <1>7 DEF SkipSystemEvent, Done, db, TypeOK, Pass
    <2>2. CASE pass[s].step = "off"
      <3>1. \A q \in Procs : tx'[q] \in {tx[q], Idle}
        BY <2>1
      <3>2. \A t \in Schedulers : tx[t] # Idle => t # s
        BY <2>1
      <3>3. PassIsAlone' /\ MarkIsNew'
        BY <2>1, <2>2, <3>2 DEF MInv, PassIsAlone, MarkIsNew
      <3>4. QED
        BY <2>1, <3>3 DEF MInv
    <2>3. CASE pass[s].step # "off"
      BY <1>1, <2>1, <2>3, MarksOfOneTask DEF MInv
    <2>4. QED
      BY <2>2, <2>3
  <1>8. CASE AbortSystemEvent(s)
    <2>1. tx[s] # Idle /\ tx[s].rid \in Requests
      BY <1>8 DEF AbortSystemEvent, MInv, MarkIsNew
    <2>2. /\ tx'[s] = Idle /\ UNCHANGED <<log, lease>>
          /\ pass'[s].step = pass[s].step
          /\ \A t \in Schedulers \ {s} : pass'[t] = pass[t]
          /\ \A q \in Procs \ {s} : tx'[q] = tx[q]
      BY <1>0, <1>8 DEF AbortSystemEvent, Done, db, TypeOK, Pass
    <2>3. QED
      BY <1>1, <1>2, <2>1, <2>2, MarksOfOneTask DEF MInv
  <1>9. CASE CommitSystemEvent(s)
    <2> DEFINE w == tx[s]
               e == [event |-> w.event, from |-> w.from, to |-> w.to, end |-> w.end]
    <2>1. /\ w # Idle /\ w \in Txn /\ w.rid \in Requests
          /\ ~MarkLogged(log[w.rid], w.event, w.end)
      <3>1. w # Idle
        BY <1>9 DEF CommitSystemEvent, Idle, Marks
      <3>2. QED
        BY <1>0, <3>1 DEF MInv, MarkIsNew, TypeOK
    <2>2. e \in Entry /\ e.event = w.event /\ e.end = w.end
      BY <2>1 DEF Txn, Entry
    <2> HIDE DEF e
    <2>3. /\ tx' = [tx EXCEPT ![s] = Idle] /\ UNCHANGED lease
          /\ log' = [log EXCEPT ![w.rid] = Append(@, e)]
          /\ Done(s, w.rid)
      BY <1>9 DEF CommitSystemEvent, Write, LogEvent, e
    <2>4. /\ tx'[s] = Idle
          /\ \A q \in Procs \ {s} : tx'[q] = tx[q]
          /\ pass'[s].step = pass[s].step
          /\ \A t \in Schedulers \ {s} : pass'[t] = pass[t]
      BY <1>0, <2>3 DEF Done, TypeOK, Pass
    <2>5. ASSUME NEW r \in Requests PROVE MarkedOnce(log'[r])
      <3>1. CASE r = w.rid
        <4>1. log'[r] = Append(log[r], e)
          BY <1>0, <2>3, <3>1 DEF TypeOK
        <4>2. QED
          BY <1>0, <2>1, <2>2, <3>1, <4>1, NewMarkIsLogged DEF MInv
      <3>2. CASE r # w.rid
        <4>1. log'[r] = log[r]
          BY <1>0, <2>3, <3>2 DEF TypeOK
        <4>2. QED
          BY <4>1 DEF MInv
      <3>3. QED
        BY <3>1, <3>2
    <2>6. QED
      BY <1>1, <1>2, <2>1, <2>3, <2>4, <2>5, MarksOfOneTask
  <1>10. QED
    BY <1>3, <1>4, <1>5, <1>6, <1>7, <1>8, <1>9 DEF SchedulerStep

LEMMA MarkInvariantStep ==
    ASSUME MInv, [Next]_vars, lease'.outlived = 0
    PROVE  MInv'
  <1>0. TypeOK /\ TypeOK' /\ \A r \in Requests : log[r] \in Seq(Entry)
    BY TypeStep DEF MInv, TypeOK
  <1>1. ASSUME NEW c \in Clients, ClientStep(c)
        PROVE  MInv'
    BY <1>0, <1>1, ClientsLogNoMark, MarksStay DEF MInv, MarkIsNew
  <1>2. ASSUME NEW r \in Requests, NEW e \in Entry, LogEvent(r, e), e.event \notin Marks,
               UNCHANGED <<tx, pass, lease>>
        PROVE  MInv'
    <2>1. \A q \in Requests : NoMark(log[q], log'[q])
      BY <1>0, <1>2 DEF LogEvent, NoMark, TypeOK
    <2>2. QED
      BY <1>0, <1>2, <2>1, MarksStay
  <1>3. ASSUME NEW r \in Requests, NEW d \in Days, NEW f \in Forms, CreateRequest(r, d, f)
        PROVE  MInv'
    <2> DEFINE e == [event |-> "CREATED", from |-> "None", to |-> "Pending", end |-> 0]
    <2>1. e \in Entry /\ e.event \notin Marks
      BY BoundsAssumption DEF Entry, Events, Statuses, Marks
    <2>2. QED
      BY <1>2, <1>3, <2>1 DEF CreateRequest
  <1>4. ASSUME NEW r \in Requests, NEW d \in Days, RequestExtension(r, d)
        PROVE  MInv'
    <2> DEFINE e == [event |-> "EXTENSION_REQUESTED", from |-> "On_Use", to |-> "On_Use", end |-> d]
    <2>1. e \in Entry /\ e.event \notin Marks
      BY BoundsAssumption DEF Entry, Events, Statuses, Marks, Days
    <2>2. QED
      BY <1>2, <1>4, <2>1 DEF RequestExtension
  <1>5. CASE LeaseLapses
    <2>1. UNCHANGED <<log, tx, pass>> /\ lease.owner # Nobody /\ pass[lease.owner].step = "off"
      <3>1. lease \in Lease /\ \A n \in Nat : n + 1 # 0
        BY <1>0 DEF TypeOK
      <3>2. lease.outlived \in Nat
        BY <3>1, BoundsAssumption DEF Lease
      <3>3. QED
        BY <1>0, <1>5, <3>1, <3>2 DEF LeaseLapses, db
    <2>2. PassIsAlone'
      BY <2>1 DEF MInv, PassIsAlone
    <2>3. QED
      BY <1>0, <2>1, <2>2 DEF MInv, MarkIsNew
  <1>6. CASE \/ \E r \in Requests, k \in 1..MaxJobs : Dispatch(r, k) \/ DispatchRolledBack(r, k)
             \/ NextDay \/ UNCHANGED vars
    <2>1. UNCHANGED <<log, tx, pass, lease>>
      BY <1>6 DEF Dispatch, DispatchRolledBack, NextDay, vars, db
    <2>2. QED
      BY <1>0, <2>1, MarksStay DEF NoMark
  <1>7. QED
    BY <1>0, <1>1, <1>3, <1>4, <1>5, <1>6, TaskMarks DEF Next

LEMMA MarkInvariantInit == Init => MInv
  <1> SUFFICES ASSUME Init PROVE MInv
    OBVIOUS
  <1>1. TypeOK
    BY TypeInit
  <1>2. QED
    BY <1>1 DEF Init, MInv, PassIsAlone, MarkIsNew, MarkedOnce, Procs

-----------------------------------------------------------------------------
(* The marks when a pass goes on after its lease *)

\* The tasks whose open transaction is to mark r for the end date d.
Markers(r, mark, d) == {s \in Schedulers : tx[s] # Idle /\ tx[s].event = mark /\ tx[s].rid = r /\ tx[s].end = d}

\* Once there is a mark no other is planned: more come only of the transactions
\* that had looked for it before, at most one of each task.
FewMarks(r, mark, d) ==
    \/ MarksOf(r, mark, d) = {}
    \/ Cardinality(MarksOf(r, mark, d)) + Cardinality(Markers(r, mark, d)) <= Cardinality(Schedulers)

OInv ==
    /\ TypeOK
    /\ \A c \in Clients : tx[c] # Idle => tx[c].event \notin Marks
    /\ \A r \in Requests, mark \in Marks, d \in Days : FewMarks(r, mark, d)
    /\ lease.outlived = 0 => MInv

LEMMA MarksAreFinite ==
    ASSUME TypeOK, NEW r \in Requests, NEW mark, NEW d
    PROVE  /\ IsFiniteSet(MarksOf(r, mark, d)) /\ Cardinality(MarksOf(r, mark, d)) \in Nat
           /\ IsFiniteSet(Markers(r, mark, d)) /\ Cardinality(Markers(r, mark, d)) \in Nat
           /\ Cardinality(Schedulers) \in Nat
           /\ Cardinality(Markers(r, mark, d)) <= Cardinality(Schedulers)
  <1>1. MarksOf(r, mark, d) \in SUBSET (1..Len(log[r])) /\ Len(log[r]) \in Nat
    BY DEF TypeOK, MarksOf
  <1>2. IsFiniteSet(1..Len(log[r]))
    BY <1>1, FS_Interval
  <1>3. IsFiniteSet(MarksOf(r, mark, d))
    BY <1>1, <1>2, FS_Subset
  <1>4. Markers(r, mark, d) \in SUBSET Schedulers
    BY DEF Markers
  <1>5. IsFiniteSet(Markers(r, mark, d)) /\ Cardinality(Markers(r, mark, d)) <= Cardinality(Schedulers)
    BY <1>4, SetsAssumption, FS_Subset
  <1>6. QED
    BY <1>3, <1>5, SetsAssumption, FS_CardinalityType

\* What is marked stays, and no task is about to mark that was not.
LEMMA FewMarksStay ==
    ASSUME TypeOK, TypeOK', NEW r \in Requests, NEW mark, NEW d, FewMarks(r, mark, d),
           MarksOf(r, mark, d)' = MarksOf(r, mark, d),
           Markers(r, mark, d)' \subseteq Markers(r, mark, d)
    PROVE  FewMarks(r, mark, d)'
  <1>1. Cardinality(Markers(r, mark, d)') <= Cardinality(Markers(r, mark, d))
    BY MarksAreFinite, FS_Subset
  <1>2. Cardinality(Markers(r, mark, d)') \in Nat
    BY MarksAreFinite, FS_Subset, FS_CardinalityType
  <1>3. QED
    BY <1>1, <1>2, MarksAreFinite DEF FewMarks

\* A task that was about to mark does.
LEMMA FewMarksGrow ==
    ASSUME TypeOK, NEW r \in Requests, NEW mark, NEW d, FewMarks(r, mark, d),
           NEW n, n \notin MarksOf(r, mark, d), MarksOf(r, mark, d)' = MarksOf(r, mark, d) \cup {n},
           NEW s \in Markers(r, mark, d), Markers(r, mark, d)' = Markers(r, mark, d) \ {s}
    PROVE  FewMarks(r, mark, d)'
  <1>1. Cardinality(MarksOf(r, mark, d)') = Cardinality(MarksOf(r, mark, d)) + 1
    BY MarksAreFinite, FS_AddElement
  <1>2. Cardinality(Markers(r, mark, d)') = Cardinality(Markers(r, mark, d)) - 1
    BY MarksAreFinite, FS_RemoveElement
  <1>3. MarksOf(r, mark, d) = {} => Cardinality(MarksOf(r, mark, d)) = 0
    BY FS_EmptySet
  <1>4. Cardinality(MarksOf(r, mark, d)') + Cardinality(Markers(r, mark, d)') <= Cardinality(Schedulers)
    BY <1>1, <1>2, <1>3, MarksAreFinite DEF FewMarks
  <1>5. QED
    BY <1>4 DEF FewMarks

\* What a step does to the marks of one end date: it logs none and no task comes to
\* be about to make one, there is none and it logs none, or a task makes its own.
MarksStep(r, mark, d) ==
    \/ /\ MarksOf(r, mark, d)' = MarksOf(r, mark, d)
       /\ Markers(r, mark, d)' \subseteq Markers(r, mark, d)
    \/ MarksOf(r, mark, d)' = {}
    \/ \E n, s : /\ n \notin MarksOf(r, mark, d) /\ MarksOf(r, mark, d)' = MarksOf(r, mark, d) \cup {n}
                /\ s \in Markers(r, mark, d) /\ Markers(r, mark, d)' = Markers(r, mark, d) \ {s}

LEMMA FewMarksStep ==
    ASSUME TypeOK, TypeOK', NEW r \in Requests, NEW mark, NEW d, FewMarks(r, mark, d), MarksStep(r, mark, d)
    PROVE  FewMarks(r, mark, d)'
  <1>1. CASE MarksOf(r, mark, d)' = {}
    BY <1>1 DEF FewMarks
  <1>2. CASE MarksOf(r, mark, d)' = MarksOf(r, mark, d) /\ Markers(r, mark, d)' \subseteq Markers(r, mark, d)
    BY <1>2, FewMarksStay
  <1>3. ASSUME NEW n, NEW s, n \notin MarksOf(r, mark, d), MarksOf(r, mark, d)' = MarksOf(r, mark, d) \cup {n},
               s \in Markers(r, mark, d), Markers(r, mark, d)' = Markers(r, mark, d) \ {s}
        PROVE  FewMarks(r, mark, d)'
    BY <1>3, FewMarksGrow
  <1>4. QED
    BY <1>1, <1>2, <1>3 DEF MarksStep

\* Logging something else leaves the marks alone.
LEMMA NoMarkNoMarks ==
    ASSUME TypeOK, NEW r \in Requests, NoMark(log[r], log'[r]), NEW mark \in Marks, NEW d
    PROVE  MarksOf(r, mark, d)' = MarksOf(r, mark, d)
  <1>1. log[r] \in Seq(Entry)
    BY DEF TypeOK
  <1>2. ASSUME NEW e \in Entry, log'[r] = Append(log[r], e), e.event \notin Marks
        PROVE  MarksOf(r, mark, d)' = MarksOf(r, mark, d)
    <2>1. /\ log'[r][Len(log[r]) + 1] = e /\ DOMAIN log'[r] = DOMAIN log[r] \cup {Len(log[r]) + 1}
          /\ \A i \in DOMAIN log[r] : log'[r][i] = log[r][i]
      BY <1>1, <1>2
    <2>2. QED
      BY <1>2, <2>1 DEF MarksOf
  <1>3. QED
    BY <1>2 DEF NoMark, MarksOf

\* A step that logs no mark and opens no task's transaction.
LEMMA OthersMarkNot ==
    ASSUME TypeOK, NEW r \in Requests, NEW mark \in Marks, NEW d, NoMark(log[r], log'[r]),
           \A s \in Schedulers : tx'[s] \in {tx[s], Idle}
    PROVE  MarksStep(r, mark, d)
  <1>1. Markers(r, mark, d)' \subseteq Markers(r, mark, d)
    BY DEF Markers
  <1>2. QED
    BY <1>1, NoMarkNoMarks DEF MarksStep

\* A step of a task: each mark is its own, or was looked for.
LEMMA TasksMarkSteps ==
    ASSUME TypeOK, NEW s \in Schedulers, SchedulerStep(s), NEW r \in Requests, NEW mark \in Marks, NEW d \in Days
    PROVE  MarksStep(r, mark, d)
  <1>0. s \in Procs /\ \A q \in Schedulers : q \in Procs
    BY DEF Procs
  <1>1. ASSUME UNCHANGED log, \A q \in Schedulers : tx'[q] \in {tx[q], Idle}
        PROVE  MarksStep(r, mark, d)
    BY <1>1, OthersMarkNot DEF NoMark
  <1>2. CASE StartPass(s) \/ ListEnded(s) \/ EndPass(s) \/ \E q \in Requests : SkipSystemEvent(s, q)
    BY <1>1, <1>2 DEF StartPass, ListEnded, EndPass, SkipSystemEvent, db
  <1>3. CASE CrashInPass(s) \/ AbortSystemEvent(s)
    BY <1>0, <1>1, <1>3 DEF CrashInPass, AbortSystemEvent, db, TypeOK
  <1>4. ASSUME NEW q \in Requests, SystemEvent(s, q)
        PROVE  MarksStep(r, mark, d)
    <2> DEFINE step == pass[s].step
               w == [Plan(step, q, "On_Use") EXCEPT
                       !.end = request[q].end,
                       !.job = IF step = "EXPIRED" THEN RevokeJob(q) ELSE NoJob]
    <2>1. Begin(s, w) /\ ~Marked(q, step)
      BY <1>4 DEF SystemEvent
    <2>2. w.event = step /\ w.rid = q /\ w.end = request[q].end
      BY DEF Plan
    <2> HIDE DEF w
    <2>3. tx' = [tx EXCEPT ![s] = w] /\ UNCHANGED log
      BY <2>1 DEF Begin, db
    <2>4. \A t \in Schedulers : tx'[t] = IF t = s THEN w ELSE tx[t]
      BY <1>0, <2>3 DEF TypeOK
    <2>5. CASE w.event = mark /\ w.rid = r /\ w.end = d
      BY <2>1, <2>2, <2>3, <2>5 DEF Marked, MarksStep, MarksOf
    <2>6. CASE ~(w.event = mark /\ w.rid = r /\ w.end = d)
      <3>1. Markers(r, mark, d)' \subseteq Markers(r, mark, d)
        BY <2>4, <2>6 DEF Markers
      <3>2. QED
        BY <2>3, <3>1 DEF MarksStep, MarksOf
    <2>7. QED
      BY <2>5, <2>6
  <1>5. CASE CommitSystemEvent(s)
    <2> DEFINE w == tx[s]
               e == [event |-> w.event, from |-> w.from, to |-> w.to, end |-> w.end]
    <2>1. w # Idle /\ w \in Txn /\ w.rid \in Requests
      BY <1>0, <1>5 DEF CommitSystemEvent, Idle, Marks, TypeOK, Txn
    <2>2. e \in Entry /\ e.event = w.event /\ e.end = w.end
      BY <2>1 DEF Txn, Entry
    <2> HIDE DEF e
    <2>3. tx' = [tx EXCEPT ![s] = Idle] /\ log' = [log EXCEPT ![w.rid] = Append(@, e)]
      BY <1>5 DEF CommitSystemEvent, Write, LogEvent, e
    <2>4. /\ tx'[s] = Idle /\ \A t \in Schedulers \ {s} : tx'[t] = tx[t]
          /\ \A t \in Schedulers : tx'[t] \in {tx[t], Idle}
      BY <1>0, <2>3 DEF TypeOK
    <2>5. CASE r = w.rid
      <3> DEFINE n == Len(log[r]) + 1
      <3>1. log[r] \in Seq(Entry) /\ log'[r] = Append(log[r], e)
        BY <2>3, <2>5 DEF TypeOK
      <3>2. /\ log'[r][n] = e /\ DOMAIN log'[r] = DOMAIN log[r] \cup {n} /\ n \notin DOMAIN log[r]
            /\ \A i \in DOMAIN log[r] : log'[r][i] = log[r][i]
        BY <2>2, <3>1
      <3> HIDE DEF n
      <3>3. CASE w.event = mark /\ w.end = d
        <4>1. n \notin MarksOf(r, mark, d) /\ MarksOf(r, mark, d)' = MarksOf(r, mark, d) \cup {n}
          BY <2>2, <3>2, <3>3 DEF MarksOf
        <4>2. s \in Markers(r, mark, d) /\ Markers(r, mark, d)' = Markers(r, mark, d) \ {s}
          BY <2>1, <2>4, <2>5, <3>3 DEF Markers
        <4>3. QED
          BY <4>1, <4>2 DEF MarksStep
      <3>4. CASE ~(w.event = mark /\ w.end = d)
        <4>1. MarksOf(r, mark, d)' = MarksOf(r, mark, d)
          BY <2>2, <3>2, <3>4 DEF MarksOf
        <4>2. Markers(r, mark, d)' \subseteq Markers(r, mark, d)
          BY <2>4 DEF Markers
        <4>3. QED
          BY <4>1, <4>2 DEF MarksStep
      <3>5. QED
        BY <3>3, <3>4
    <2>6. CASE r # w.rid
      <3>1. log'[r] = log[r]
        BY <2>3, <2>6 DEF TypeOK
      <3>2. QED
        BY <2>4, <3>1, OthersMarkNot DEF NoMark
    <2>7. QED
      BY <2>5, <2>6
  <1>6. QED
    BY <1>2, <1>3, <1>4, <1>5 DEF SchedulerStep

\* Passes that have gone on after their lease are not forgotten.
LEMMA OutlivedStays ==
    ASSUME OInv, [Next]_vars, lease'.outlived = 0
    PROVE  lease.outlived = 0
  <1>1. lease \in Lease /\ lease.outlived \in Nat
    BY BoundsAssumption DEF OInv, TypeOK, Lease
  <1>2. CASE LeaseLapses
    BY <1>1, <1>2 DEF LeaseLapses
  <1>3. CASE \E s \in Schedulers : StartPass(s)
    BY <1>1, <1>3 DEF StartPass, Lease
  <1>4. CASE UNCHANGED lease
    BY <1>4
  <1>5. ASSUME NEW s \in Schedulers, SchedulerStep(s), ~StartPass(s)
        PROVE  UNCHANGED lease
    BY <1>5 DEF SchedulerStep, ListEnded, EndPass, SkipSystemEvent, SystemEvent, Begin,
          CommitSystemEvent, Write, AbortSystemEvent, CrashInPass
  <1>6. ASSUME NEW c \in Clients, ClientStep(c)
        PROVE  UNCHANGED lease
    BY <1>6, ClientsLogNoMark DEF OInv
  <1>7. CASE UNCHANGED vars
    BY <1>7 DEF vars
  <1>8. ASSUME NEW r \in Requests,
               \/ \E d \in Days, f \in Forms : CreateRequest(r, d, f)
               \/ \E d \in Days : RequestExtension(r, d)
               \/ \E k \in 1..MaxJobs : Dispatch(r, k) \/ DispatchRolledBack(r, k)
        PROVE  UNCHANGED lease
    BY <1>8 DEF CreateRequest, RequestExtension, Dispatch, DispatchRolledBack
  <1>9. QED
    BY <1>2, <1>3, <1>4, <1>5, <1>6, <1>7, <1>8 DEF Next, NextDay

LEMMA OutlivedInvariantStep ==
    ASSUME OInv, [Next]_vars
    PROVE  OInv'
  <1>0. TypeOK /\ TypeOK' /\ \A c \in Clients : tx[c] # Idle => tx[c].event \notin Marks
    BY TypeStep DEF OInv
  <1>1. lease'.outlived = 0 => MInv'
    <2>1. lease'.outlived = 0 => lease.outlived = 0
      BY OutlivedStays
    <2>2. QED
      BY <2>1, MarkInvariantStep DEF OInv
  <1> DEFINE Kept == /\ \A c \in Clients : tx'[c] # Idle => tx'[c].event \notin Marks
                     /\ \A r \in Requests, mark \in Marks, d \in Days : MarksStep(r, mark, d)
  <1>2. SUFFICES Kept
    BY <1>0, <1>1, FewMarksStep DEF OInv
  <1>3. ASSUME \A r \in Requests : NoMark(log[r], log'[r]),
               \A q \in Procs : \/ tx'[q] \in {tx[q], Idle}
                                \/ q \in Clients /\ tx'[q].event \notin Marks
        PROVE  Kept
    <2>1. \A s \in Schedulers : tx'[s] \in {tx[s], Idle}
      BY <1>3, SetsAssumption DEF Procs
    <2>2. \A c \in Clients : tx'[c] # Idle => tx'[c].event \notin Marks
      BY <1>0, <1>3 DEF Procs
    <2>3. QED
      BY <1>0, <1>3, <2>1, <2>2, OthersMarkNot
  <1>4. ASSUME NEW c \in Clients, ClientStep(c)
        PROVE  Kept
    BY <1>0, <1>3, <1>4, ClientsLogNoMark
  <1>5. ASSUME NEW s \in Schedulers, SchedulerStep(s)
        PROVE  Kept
    <2>1. \A c \in Clients : tx'[c] = tx[c]
      <3>1. \A c \in Clients : c # s /\ c \in Procs
        BY SetsAssumption DEF Procs
      <3>2. \/ UNCHANGED tx
            \/ \E w : tx' = [tx EXCEPT ![s] = w]
        BY <1>5 DEF SchedulerStep, StartPass, ListEnded, EndPass, SkipSystemEvent, SystemEvent, Begin,
              CommitSystemEvent, Write, AbortSystemEvent, CrashInPass
      <3>3. QED
        BY <1>0, <3>1, <3>2 DEF TypeOK
    <2>2. QED
      BY <1>0, <1>5, <2>1, TasksMarkSteps
  <1>6. ASSUME NEW r \in Requests, NEW e \in Entry, LogEvent(r, e), e.event \notin Marks, UNCHANGED tx
        PROVE  Kept
    <2>1. \A q \in Requests : NoMark(log[q], log'[q])
      BY <1>0, <1>6 DEF LogEvent, NoMark, TypeOK
    <2>2. QED
      BY <1>3, <1>6, <2>1
  <1>7. ASSUME NEW r \in Requests, NEW d \in Days, NEW f \in Forms, CreateRequest(r, d, f)
        PROVE  Kept
    <2> DEFINE e == [event |-> "CREATED", from |-> "None", to |-> "Pending", end |-> 0]
    <2>1. e \in Entry /\ e.event \notin Marks
      BY BoundsAssumption DEF Entry, Events, Statuses, Marks
    <2>2. QED
      BY <1>6, <1>7, <2>1 DEF CreateRequest
  <1>8. ASSUME NEW r \in Requests, NEW d \in Days, RequestExtension(r, d)
        PROVE  Kept
    <2> DEFINE e == [event |-> "EXTENSION_REQUESTED", from |-> "On_Use", to |-> "On_Use", end |-> d]
    <2>1. e \in Entry /\ e.event \notin Marks
      BY BoundsAssumption DEF Entry, Events, Statuses, Marks, Days
    <2>2. QED
      BY <1>6, <1>8, <2>1 DEF RequestExtension
  <1>9. CASE \/ \E r \in Requests, k \in 1..MaxJobs : Dispatch(r, k) \/ DispatchRolledBack(r, k)
             \/ LeaseLapses \/ NextDay \/ UNCHANGED vars
    <2>1. UNCHANGED <<log, tx>>
      BY <1>9 DEF Dispatch, DispatchRolledBack, LeaseLapses, NextDay, vars, db
    <2>2. QED
      BY <1>3, <2>1 DEF NoMark
  <1>10. QED
    BY <1>4, <1>5, <1>7, <1>8, <1>9 DEF Next

LEMMA OutlivedInvariantInit == Init => OInv
  <1> SUFFICES ASSUME Init PROVE OInv
    OBVIOUS
  <1>1. TypeOK /\ MInv
    BY TypeInit, MarkInvariantInit
  <1>2. \A r \in Requests, mark \in Marks, d \in Days : MarksOf(r, mark, d) = {}
    BY DEF Init, MarksOf
  <1>3. QED
    BY <1>1, <1>2 DEF Init, OInv, FewMarks, Procs

LEMMA MarksAreFew == OInv => OncePerEndDate
  <1> SUFFICES ASSUME OInv, NEW r \in Requests, NEW mark \in Marks, NEW d \in Days
               PROVE  /\ Cardinality(MarksOf(r, mark, d)) <= Cardinality(Schedulers)
                      /\ lease.outlived = 0 => Cardinality(MarksOf(r, mark, d)) <= 1
    BY DEF OncePerEndDate
  <1>1. TypeOK /\ FewMarks(r, mark, d)
    BY DEF OInv
  <1>2. Cardinality(MarksOf(r, mark, d)) <= Cardinality(Schedulers)
    BY <1>1, MarksAreFinite, FS_EmptySet DEF FewMarks
  <1>3. ASSUME lease.outlived = 0
        PROVE  Cardinality(MarksOf(r, mark, d)) <= 1
    <2>1. \A i, j \in MarksOf(r, mark, d) : i = j
      BY <1>3 DEF OInv, MInv, MarkedOnce, MarksOf
    <2>2. CASE MarksOf(r, mark, d) = {}
      BY <2>2, FS_EmptySet
    <2>3. CASE MarksOf(r, mark, d) # {}
      <3>1. PICK i : MarksOf(r, mark, d) = {i}
        BY <2>1, <2>3
      <3>2. Cardinality({i}) = 1
        BY FS_Singleton
      <3>3. QED
        BY <3>1, <3>2
    <2>4. QED
      BY <2>2, <2>3
  <1>4. QED
    BY <1>2, <1>3

\* Each end date of a request is reminded of once and expired once, whichever
\* tasks run the passes and wherever they are cut off, until a pass goes on after
\* its lease; from then on each task marks it once at most, however often passes
\* outlive their leases (runPass, acquireLease, systemEvent).
THEOREM EndDatesAreMarkedOnce == Spec => []OncePerEndDate
  <1>1. OInv /\ [Next]_vars => OInv'
    BY OutlivedInvariantStep
  <1>2. QED
    BY <1>1, MarksAreFew, OutlivedInvariantInit, PTL DEF Spec
=============================================================================
