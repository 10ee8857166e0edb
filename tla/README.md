# Verification of the SIIT ICT server management system

TLA+ models of this repository, checked with TLC on small instances and, where it matters most,
proved with TLAPS for every instance. The sources are under `backend/`, `acc-prov-vm/`,
`database/`, `frontend/` and `infra/`; paths below are relative to them.

## 1. The system

A student submits a request for a resource (GPU server, Big Data platform, VM, lab equipment, AWS
lab). An approver reviews it. For GPU and Big Data requests the backend then asks a worker at the
site, `acc-prov-vm`, to set up accounts, to move their expiry when the request is extended, and to
remove them when it ends. The other resources are set up by hand.

| Part | Keeps | Does | Talks to |
|---|---|---|---|
| Requests (`request.service.js`) | `request` rows | create, edit while Pending | database |
| Review (`reviewer.service.js`) | `request`, `provision_job`, `request_event` | approve, reject, activate, complete | outbox, notifications |
| Extensions (`extension.service.js`) | `request.extra_details.extension`, `end_date` | ask, approve, reject | outbox |
| Provisioning outbox (`provisioning.service.js`, `messaging/index.js`) | `provision_job` rows | plan CREATE/REVOKE/EXTEND jobs, publish them every 3 s, apply results, fail jobs, retry | broker, `acc-prov-vm` |
| Scheduler (`scheduler.service.js`) | `scheduler_lease`, events as marks | remind, expire, dead letters, unanswered jobs | outbox; every backend task runs the loop |
| Audit shipper (`audit-log.service.js`) | `log_cursor` | copies `request_event` to the logs | logs |
| Transports (`messaging/{amqp,sqs}.js`, `acc-prov-vm/src/{amqp,sqs}.js`) | unacknowledged messages | at-least-once delivery, dead-lettering | Artemis or SQS |
| Envelope (`envelope.js`, both sides) | keys | sign, encrypt, lifetime | transports |
| Site worker (`acc-prov-vm/src/worker.js`, `jobstore.js`, `jobs.js`) | a file of jobs done | runs a job, retries, answers | broker, site accounts |
| Site accounts (`pfsense.js`, `hue.js`; `ssh.js`, `linux.js`, `gpu.js`, `hadoop.js`) | VPN, HUE; Linux, HDFS accounts | what a job's handlers call | browser pages, SSH |
| Cleanup (`cleanup.js`, `scripts/cleanup-user.js`) | nothing | checks, asks, deletes a student's accounts; run by an administrator | site accounts |
| Sign-in (`auth/*`, `auth.middleware.js`, `auth.controller.js`) | session cookie | issue, renew, end | Google, browser |
| Request form (`RequestFormModal.jsx`, `StudentHomePage.jsx`, `drafts.js`) | drafts in the browser, the open form | submit, edit, ask for more time | API |
| Review form (`RequestFormModal.jsx`, `AdminHomePage.jsx`, `reviewer.controller.js`) | the open form | show, decide, confirm overlaps, poll a running setup | API |
| Signed-in page (`AuthProvider.jsx`, `NotificationBell.jsx`, `client.js`) | what it knows of the sign-in, the bell's list | polls, learns that the sign-in is over | API |
| Notifications (`notify.service.js`) | nothing | emails after commits, best effort | SMTP |
| Users and roles (`user.service.js`, `role.service.js`) | `user` rows | profile, role changes | database |
| Export, configuration, start-up, other pages, infrastructure | | reads, settings, presentation, deployment | |

The parts share one MySQL database. Nothing else is shared inside the backend: several backend
tasks run the API, the dispatcher, the result consumer and the scheduler at once, and only
transactions keep them apart. The site is reached through two queues only.

What is hard:

* **Snapshots.** MySQL's default isolation level is REPEATABLE READ, and Prisma's interactive
  transactions do not change it. All plain reads of a transaction come from the snapshot that its
  first plain read takes. `updateMany(... where status ...)` and `SELECT ... FOR UPDATE` see the
  latest rows. Most handlers check on the snapshot and write later.
* **Messages.** A job may be sent twice (the send succeeds, the confirmation or the commit does
  not), a result may come twice, late, after the job was failed for want of an answer, or after a
  retry replaced it. Messages expire, are redelivered and become dead letters; two clocks differ;
  keys change while messages are under way.
* **Several schedulers, a lease, crashes, midnight.** A pass lists, then handles the requests one
  by one; between the two an extension, a completion or another task may intervene.
* **The site worker** may die between changing an account, writing its job file and answering.
* **Pages and hosts without transactions.** The user lists of pfSense and HUE are edited page by
  page, by row index, while others edit them. A set-up over SSH stops after any command; a command
  may time out and still have its effect.
* **Browsers.** Answers come late, out of order, for a form that was closed, or not at all.

What makes each part correct:

* Requests and review: an edit never changes a form that was decided on; every status change is one
  the workflow has, made from the status it was decided on, and has its event.
* Extensions: the end date in force is one that was asked for and granted.
* Outbox: a job is written with the decision that causes it, is answered in the end, and its
  outcome is final and true of the site; what ended has its REVOKE.
* Queues: a job the backend waits for is somewhere; what the backend gave up does not begin later.
* Scheduler: each end date reminded and expired once, or by each task once where a pass outlives its
  lease; nothing ended left alone, whichever task dies.
* Site worker: no acknowledgement without an answer, no finished job run again, a stored success
  true of every account.
* Site accounts: only the student's account is touched, never a namesake's; a finished set-up is
  complete whatever was cut off before it; no account opens with an old password.
* Audit shipper: no event passed over, none repeated without a failure, each shipped in the end.
* Sign-in: no session outlives its end, polls do not prolong it, and activity does.
* Forms: no lost draft, no overwritten request, no locked form, and a
  footer that offers what the backend takes.

The hazards are listed one by one, at their lines, in `PROJECT.json`.

## 2. Modules

| Module | What it is |
|---|---|
| `RequestWorkflow` | abstract: what the backend promises about a request's status and about the work it asks of the site; every step atomic, on the present state |
| `RequestStore` | the database and everything that writes it |
| `MCRequestStore` | instances of `RequestStore` for TLC |
| `RequestStoreProofs` | theorems about `RequestStore`: its types and jobs, that it implements `RequestWorkflow`, the histories it leaves (the event log, the end dates, the forms, the marks) |
| `SiteWorker` | the worker at the site: deliveries, the steps of a job, the accounts they change, the job store, the answers |
| `MCSiteWorker` | the jobs and the accounts of one student, for TLC |
| `SiteWorkerProofs` | theorems about `SiteWorker` |
| `AuditShipper` | the backend tasks that copy `request_event` to the logs |
| `AuditShipperProofs` | theorems about `AuditShipper` |
| `JobExchange`, `MCJobExchange` | a job between the outbox and the site: envelopes, queues, dead letters, time-outs, clocks, keys |
| `UserManager`, `MCUserManager` | the browser sessions on the pfSense and HUE user lists |
| `LinuxHost`, `MCLinuxHost` | the commands on Linux and Hadoop hosts, sudo, the mails, the cleanup script |
| `RequestForm`, `MCRequestForm` | the student's form, the drafts, the calls to the API |
| `ReviewForm` | the approver's form and the reviewer API behind it |
| `Sessions` | the session cookie, the signed-in page, the notification bell |
| `SiteAccountsProofs` | theorems about `LinuxHost`, which it extends, and about `UserManager`, its instance `GUI` |
| `JobExchangeProofs`, `RequestFormProofs`, `ReviewFormProofs`, `SessionsProofs` | theorems about `JobExchange`, `RequestForm`, `ReviewForm` and `Sessions` |

The modules meet where one takes for granted only what the other may do at any time:
`RequestStore` takes any answer of the site at any time after a job was published, and
`JobExchange` says which answers there are; `SiteWorker` takes any set of published messages and
changes an account in one step, and `UserManager` and `LinuxHost` say what that step is made of;
`RequestForm` and `ReviewForm` take any decision of others at any time, and answer a call in one
step, the inside of which is `RequestStore`. No module composes them by INSTANCE: the product of
two such state spaces is out of TLC's reach at bounds at which anything happens.

### RequestStore

| Variable | Code |
|---|---|
| `request[r]` | the row of `request`: `status`, `end` (`end_date`), `ask` (`extra_details.extension.end_date`, 0 if none), `extras` (the rest of `extra_details`) |
| `jobs[r]` | the rows of `provision_job` of `r`, in `created_at` order |
| `log[r]` | the rows of `request_event` of `r`, in `eid` order |
| `published` | the jobs the broker has been given at least once; never shrinks, so redelivery and late answers are always possible |
| `tx[p]` | the open transaction of a client or scheduler task: what it read and will write |
| `pass[s]`, `lease.owner` | where a task is in `runPass`, and who holds `scheduler_lease` |
| `lease.outlived` | history: how many passes have gone on after their lease had run out |
| `today` | the calendar day at the site |

A handler that reads before it locks is two actions: *begin* (for example `CompleteRequest`) reads
the snapshot, makes the code's checks and plans the writes (`Plan`, the record in `tx`); *commit*
(`CommitTransition`) makes the guarded update on the latest rows (`UpdateMatches`, `Unanswered`),
inserts the job and appends the event, all at once (`Write`). Everything else may happen between
the two, and `Abort` may happen instead of the commit (a guard that matches no row, a deadlock,
Prisma's timeout, a crash). Handlers that lock or insert first (`createRequest`,
`requestExtension`, `dispatchQueued`) are one action.

| Code | Actions |
|---|---|
| `createRequest`, `updateRequest` | `CreateRequest`; `EditRequest`, `CommitEdit` |
| `approveRequest` ... `completeRequest` | `ApproveRequest`, `RejectRequest`, `ActivateRequest`, `CompleteRequest`; `CommitTransition` |
| `requestExtension`, `decideExtension` | `RequestExtension`; `DecideExtension`, `CommitDecision` |
| `dispatchQueued` | `Dispatch`, `DispatchRolledBack` |
| `handleResult`, `failJob` (from `handleDeadLetter` and `failUnansweredJobs`) | `HandleResult`, `FailJob`; `CommitOutcome` |
| `retryProvisioning` | `RetryProvisioning`, `CommitRetry` |
| `acquireLease`, `runPass`, `systemEvent`, `releaseLease` | `StartPass`, `ListEnded`, `EndPass`, `SystemEvent`, `SkipSystemEvent`, `CommitSystemEvent`, `AbortSystemEvent`, `CrashInPass`, `LeaseLapses` |

What is abstracted, and why it may be:

* `extra_details` is one of `NumForms` contents plus the waiting extension. The node of a GPU
  request is written by the update that queues its CREATE job and never changes, so "has a node"
  is "has a CREATE job" (`SetUpAutomatically`).
* A send that fails changes the backoff only; it is not an action. Nothing says when a job is due.
* Authorisation, overlaps, the profile checks of `usernameFor` and the limit of a year ahead only
  refuse an operation; a refusal changes nothing, and the actions may always be not taken.
* `today` in `decideExtension` is read with the snapshot; the commit may fall on a later day.
* `FailJob` may follow any publication: what the broker or the clock decides is left open.
* The order of `created_at` is the order of insertion. Two jobs of one request in the same second
  would tie; an approver would have to retry a job that failed within that second.
* `ExtensionRequestSchema` (`utils/validation.js:62`) refuses every date (section 5). The model is of
  `extension.service.js`, which is what the API calls once that is mended.

### RequestWorkflow

Three variables: the status of each request, the kinds of job ever asked of the site, the outcomes
they had. `RequestStore!ImplementsWorkflow` maps the tables to them (a projection of `request` and
`jobs`) and says that every commit of every handler, planned on a snapshot, is a step the abstract
workflow may take on the present state, or none. It is what makes the workflow of the README more
than a diagram: no transition is skipped or repeated, an automated request comes into use only
through its setup or, after a failed setup, by hand, and completing it asks for its removal.

### SiteWorker

| Variable | Code |
|---|---|
| `queue[m]`, `deliveries[m]` | a message of the request queue and the broker's count of its failed deliveries (`ApproximateReceiveCount`, the AMQP delivery count); several messages may carry one job |
| `outages[m]` | the deliveries that a crash or a failed send of the result ended; only the properties read it |
| `worker` | the delivery at hand: the step it is at, the hosts left, `vpnIsNew`, `forceNew` |
| `store[j]` | `jobstore.js`: no record, in progress with `vpnIsNew`, or done with its result |
| `vpn[s]`, `account[s][h]` | what pfSense and each Linux host or HUE keep for a student: exists, enabled, expiration, password, and whether the full name is the student's |
| `inbox[s]` | the passwords mailed, and whether the mail said they are the VPN's too |
| `results` | the results the broker was given |

One action is one change of an outside system or of the store. A password is named by the attempt
that generated it, since every attempt generates a new one. After any step the next may throw
(`StepFails`), a send may fail although the broker has the result (`SendFails`), the process may
die (`Crash`), and the message may be past its lifetime (`RefuseExpired`).

| Code | Actions |
|---|---|
| `onMessage`, `JobStore.get` | `Take` (`FirstPhase`, `ProgressOf`) |
| `ensureVpn`, `PfSense.createUser`, `setPassword`, `enableUser`, `setExpiration`, `saveProgress` | `CreateVpn`, `KeepVpn`, `ResetVpnPassword`, `EnableVpn`, `SetVpnExpiration`, `SaveProgress` |
| `provisionGpuUser`, `provisionHadoopUser`, HUE | `EnsureUser`, `SetUserPassword`, `UnlockUser`; `SetUpHue` |
| `sendEmails` | `SendEmails` |
| `revoke`, `extend` | `LockUser`, `DisableVpn`; `ExtendVpn` |
| `store.finish`, `sendResult`, acknowledgement | `Finish`, `SendResult`, `Accept` |
| the catch of `onMessage`, `fail` | `RejectForeign`, `StepFails`, `StoreFailure`, `SendFails` |

Abstracted: reads that change nothing, and the read-back after a change (it can only throw, which
`StepFails` does); locking a Linux account is one step of two commands, each repeated by a retry;
groups, homes and HDFS directories; the two mails are one; the store's file and its copy in memory
are one, though `jobstore.js` changes the copy before it writes the file. One worker takes one
message at a time (`add_credit(1)`, `maxMessages: 1`). `NoVpn` and `NoAccount` are students the
site has never seen.

### AuditShipper

`event[e]` is a row of `request_event`: open while its transaction is, its `created_at` and the
time of its insert. `cursor` is `log_cursor`, `lock` the task whose transaction holds that row,
`task[t]` where a task's `shipAuditEvents` is, `logged[e]` the lines in the logs. `Lock`, `Read`,
`LogBatch` and `Save` are the statements of the transaction; `RolledBack` is the database ending it
under the task, `GiveUp` the task failing, dying, or finding out. `Insert`, `End` and `Tick` are the
rest of the backend: ids are given in the order of the inserts, transactions end within `TxLife`
(Prisma's 5 s; the one with a longer timeout, `dispatchQueued`, inserts no event), and `created_at` is within `Drift` of the insert, because it is taken before the id and by the clock
of the task or of the database connection. `LagAssumption` is what the 120 s are for.

### JobExchange

| Variable | Code |
|---|---|
| `now`, `skew` | the backend's clock; how far the site's is ahead |
| `keys` | the key the backend seals with, the backend keys the site lists, and the one it answers to |
| `job[j]` | the row of `provision_job`: status, attempts, `sent_at`, and which error failed it |
| `mail` | the request queue, the result queue and the dead letters; a message is its envelope and its count of deliveries |
| `hand` | the job message the worker holds |
| `store[j]`, `runs[j]` | the outcome in `jobstore.js`; how far the site ever came with the job (history) |

| Code | Actions |
|---|---|
| `dispatchQueued`, `send` | `SendJob`; `SendUnconfirmed` (the broker has it, the backend does not know) |
| `handleResult`, the two `consume` | `ApplyResult`, `ResultNotApplied`, `RefuseResult` |
| `drainDeadLetters`, `handleDeadLetter`, `failUnansweredJobs` | `DrainDeadLetter`, `FailUnanswered` |
| `onMessage`, `open`, `JobStore.get` | `RefuseJob`, `StartJob`, `AnswerAgain` |
| `run`, `finish`, `sendResult`, `fail` | `JobSucceeds`, `JobFails`, `JobIsRetried`, `SendResult`, `SendResultFails`; `SiteStops` |
| key rotation (`config/provisioning.js`) | `BackendUsesNewKey` |

`Acceptable` is `open` in the order of its checks, without the cryptography. Equal copies of a
message are one element of `mail`. `SkewAssumption` is what `maxSkewSec` and `NO_ANSWER_GRACE_SEC`
are for: the clocks differ by less than a grace.

### UserManager

`rows` is the user list in the order of the page, with no username twice, which both products see to; a
session names an edit page by the index a row had when the list was read (`href`; on HUE by the
username), and `form` is whose page came up. `Steps` gives the pages of
each operation of `pfsense.js` and `hue.js`. A page that came up is saved or clicked without another
look. If its row has moved since, what pfSense does with it is not in this repository, and `Save` and
`Trash` leave it open: it changes the row that is at the index now, finds the account by its name, or
refuses. `setExpiration` is two operations, `expire` without the full name and `extend` with it. A step is one page load or click, so the other session
or the office (deletes, disables) comes in between any two. A save may be lost without an error.
The operations are in any order, which covers each job. `failed` counts the failed deliveries of
the worker's job.

### LinuxHost

`account[h]` is what `/etc/passwd`, `/etc/shadow`, `/etc/group`, conda and Jupyter say of the
student on a host, `home` the owner of the HDFS home. `Program` is the list of commands and checks
of each kind of job, in the order of the awaits; `Connect`, `CheckState`, `Skip`, `Execute` and
`ExecuteFails` run it, and a failure starts the next attempt, with a new password, from the first
command. `Mail` sends the two mails. The cleanup script checks every place, asks, and checks again
before it deletes. `reached` in `Connect` is the machine the address leads to; `TicketIsCached` is
someone else using sudo with the admin's account.

### RequestForm, ReviewForm

A call to the API is a record in `calls`: sent, answered by the backend (`Serve`), given to the page
(`Answer`), or lost on either way (`Lose`). The form is the state of the React components: which
form is open, whether it loads, is busy, asks for a confirmation. An answer belongs to the form
that sent it (`n`) where the code looks (`cancelled`), and to whichever is open where it does not.
`ReviewForm!Allowed` is what the services take and `Offers` what the footer shows: two translations
of two pieces of code that have to agree. Around the form other approvers decide (`Elsewhere`), end
dates pass (`Expire`, which queues the removal and leaves the request in use) and jobs move
(`JobMoves`; a removal that succeeds completes the request). Overlaps of a request that is no longer
pending are not kept, since nothing looks at them. Two tabs share `drafts`, the browser's storage.

### Sessions

A call carries the cookie of when it was sent; its answer may set or clear the cookie. `issueSession`,
`shouldRefresh`, `Valid` are the functions of `session.js` and `token.js`; `CountsAsActivity` is the
`X-Background` header. `active` and `told` are histories: when the backend last took a call that
counts, and when the page had last been answered one. A sign-in is a step of its own; Google is not
modelled.

## 3. Runs

| Run | Bounds | Distinct states | Shows |
|---|---|---|---|
| `Lifecycle` | 1 request, 2 open transactions, 2 days, 3 jobs, 8 events, 2 forms | 1 134 430 | types; an Approved request is always being set up or waiting for a retry; the log tells the history; outcomes are final; the form that was reviewed is fixed; the abstract workflow is implemented |
| `EndDates` | 2 tasks, 2 clients, 3 days, 3 jobs, 7 events, 1 pass that outlives its lease | 1 073 416 | the end date in force is the last one granted; each end date is expired once, or by each task once when a pass outlives its lease; what ended is revoked |
| `Liveness` | 2 tasks, 1 client, 3 days, 2 jobs, 12 events | 5 174 | each end date reminded and expired once, whichever task; every job is answered; every ended request is handled |
| `SiteJobs` | a set-up twice, with a removal, with an extension, or a malformed job; 2 hosts, 2 attempts, 3 deliveries, 3 failures, 2 days | 1 855 637 | what is acknowledged is answered; dead letters are outages; what is finished does not run again; a stored success is true of the accounts and the mail |
| `AuditShipping` | 3 events, 2 tasks, batches of 2, lag 3, skew, drift and life 1, 6 time units, 1 failure | 82 926 | nothing is passed over; repeats are failures; every event is shipped |
| `JobExchange` | 1 job, 2 attempts, 2 deliveries, 2 sends, 2 messages, time 0..4, lifetimes 1 and 2, clocks 1 apart | 1 035 209 | what the backend waits for is under way; a success was one; what was given up does not begin; only late jobs are refused |
| `UserManager` | 1 student, 2 other users, 2 sessions, 2 attempts, 2 troubles | 1 039 595 | no other person's account is changed, a namesake's included, but one that took the place of a row whose page had been checked |
| `LinuxHost` | 2 hosts, 2 jobs, 2 attempts, 1 trouble | 1 532 559 | a finished set-up is complete; accounts open with the new password; accounts of namesakes and on cloned machines are kept; the sudo password reaches no other program |
| `RequestForm` | 2 tabs, 2 forms, 2 requests, 1 draft, 2 calls, 1 lost | 2 114 417 | no form waits for nothing; drafts are kept; edits start from the request |
| `ReviewForm` | 2 overlapping requests, one automated, 1 form, 2 calls, 3 jobs, 1 lost | 445 056 | offers are the choices; overlaps are confirmed; the view of a running job moves on |
| `Sessions` | time 0..6, idle 3, limit 4, renewal after 1, 2 calls, 2 news, 1 sign-in, 1 lost | 975 294 | the sign-in ends when it should and not before; the bell does not go back; the end is noticed |
| `ExtensionAsk` | as `RequestForm` | | counterexample, section 5 |

Why the bounds are enough: a race needs two transactions on one request, and no handler looks at
more than two jobs or events at once (the latest job, a pending REVOKE, a mark). The three jobs of
`Lifecycle` are a CREATE, its retry and a REVOKE, or a CREATE and an EXTEND or a REVOKE with its retry.
Three days are a day before, on and after an end date. The three jobs of `EndDates` are a CREATE and
two EXTENDs, so that a second grant, also one decided on a stale snapshot, is committed, or a CREATE
and the two REVOKEs of two transactions that overlap. Only `keepsVpn` looks at other requests, and
no run has two (section 6). Every bound is a guard of `Write`, `LogEvent`, `NextDay` or
`LeaseLapses`, named `MaxJobs`, `MaxEvents`, `LastDay`, `MaxOutlived`; a run that reaches a bound
only stops early. Deadlock is not checked: a rejected or completed request on the last day has no
next step. In `Liveness` no bound is reachable (one CREATE, one REVOKE, at most nine events).

In `EndDates` a pass meets the open transactions of two clients at any point, and one pass may go on
while the other task, which took the lease when it ran out, works on the same list (`MaxOutlived = 1`):
the case in which an end date may be expired twice. A refusal of an extension is in no run (the
theorems cover it): it clears the ask and keeps the end date. Reminders are in `Liveness`, where no pass outlives its lease
(`MaxOutlived = 0`) and two tasks alternate.

Fairness of `Liveness` (`JobFairness`, `PassFairness`): transactions end (Prisma cuts them off after 5 s), the
dispatcher's timer fires every 3 s and the broker comes back, the scheduler fails an unanswered job
in every pass until that works (strong fairness: a given attempt may be cut off, not every one),
leases lapse and tasks go on starting passes, a crash does not hit every pass. Nothing is assumed
of students, approvers or the site, which may never answer.

In `SiteJobs` the messages are there from the start and taken in any order, so a late copy is one
taken late. Three failed deliveries in one behaviour (`MaxFailures`) are enough for a message to be
dead-lettered and for a job to be cut short twice; two hosts, one Linux and one HUE, for a loop cut
short in between; two days for an expiration that passes. `Loads` keeps the four cases apart, which
keeps the run small; three jobs at once would differ only by a second pair. Deadlock is not checked:
all messages handled is the end. Liveness of the worker is not checked: whether an answer comes is
the broker's retry and `AcknowledgedIsAnswered`, `DeadLetterIsOutage` say what it may come to.

In `AuditShipping` all inserts are at time 0, with created_at 0 or 1: a transaction that commits
late, an order of created_at that is not that of the ids, a full and a partial batch and a task
that lost its transaction are all reached. The same instance with inserts at times 0 and 1 (716 721
states) passes too, and the proofs have no such bound. Deadlock is not checked: the clock stops.
Fairness: time passes, transactions end, a task's statements return (weak), and a task's interval
comes round while the row is free now and then (strong fairness of `Lock`: `SKIP LOCKED` may find
the row locked any number of times).

In `JobExchange` the site's clock is behind, the side on which a job the backend has given up could
still begin; with the clock ahead, jobs are only refused earlier. Four time units are a send, the end
of the job's life, the deadline, and the end of a late answer's life. Two deliveries let a message
be returned once and become a dead letter. No fairness is assumed: the
properties are of safety, and that every job is answered in the end is in `Liveness`.

In `UserManager` other rows may stand above and below the student's, and the student's may be
missing, disabled or a namesake's (`SomeLists`). In `LinuxHost` each host starts with no account, one
from an earlier period, or a namesake's; two hosts are the GPU node and its clone, and the two
Hadoop nodes; two jobs are a set-up and a removal in either order or two set-ups.

In `RequestForm` one form may belong to each of two tabs or follow the other in one tab, and a form
is complete, differently complete, or lacks its type. In `ReviewForm` one form and two calls are a
decision or a poll overtaking a poll; three jobs are a set-up, a removal that fails, at the end date
or at the completion, and its retry. Fairness: the poll's timer fires while it is set, calls under
way are answered and the browser hands an answer on, reads and decisions each for themselves, so
that an approver who clicks again and again does not keep the polls from being answered, and a job gets its outcome, which is what `JobExchange` and `Liveness` show. In
`Sessions` the limit is just above the idle time, so that a renewed token reaches it; fairness: the
bell's timer, the backend and the browser, while nobody touches the page.

Deadlock is not checked in any of these: bounds end every behaviour.

`OncePerEndDate` does not say that a mark is never repeated, because the code does not see to that: a
lease lasts the interval plus 60 s, is renewed only by the next pass, and nothing in a pass looks at
it. While no pass has outlived its lease there is one mark per end date; after one has, two tasks may
handle the same end date, each on a snapshot from before the other's commit, and the property bounds
the marks by the number of tasks: a task sees its own.

Each property of a passing run has a mutant in `PROJECT.json`: a small bug put into a mapped
definition (`CreateJob_WhenSetUp`, `UpdateMatches_Stale`, ...) that TLC finds through that property.

## 4. Proofs

`RequestStoreProofs` proves, for any sets of requests, clients and tasks and any bounds, from
`SetsAssumption`, `BoundsAssumption` and `OpsAssumption`:

* `TypeCorrect`: `Spec => []TypeOK`. One lemma per group of actions; `WriteType` and `BeginType`
  carry the transactions.
* `OutcomesAreFinal`: `Spec => OutcomeIsFinal`. Every step keeps the jobs that are there, their
  action, and their outcome once they have one (`StepKeepsJobs`). The argument is that the outcome
  is written by an update that looks at the latest row, so it needs no more than the types.
* `AccessEnds`: `Spec => []EndedIsRevoked`. This one is not inductive: `buildRevokeJob` decides on
  a snapshot. `IInv` adds `SetUpIsQueued` (what was approved has its CREATE job, so the decision is
  never "not set up automatically"), and `PlansOK`: an open COMPLETED or EXPIRED transaction
  carries a REVOKE job or there is one already, and a planned move still says where it comes from.
  Jobs are never deleted, so what the plan saw is still there when it commits, however stale.

Its second part, on the workflow, goes on from there with the same assumptions:

* `WorkflowIsImplemented`: `Spec => ImplementsWorkflow`. A handler decides on a snapshot and commits
  later; the workflow decides and acts at once. The invariant `WInv` adds to the types what of a plan
  still holds at the commit (`WorkPlansOK`: an ACTIVATED transaction of an automated request saw a
  failed CREATE, a job to REVOKE or EXTEND belongs to a request that is past its set-up, a retried job
  was asked for before, the success of a CREATE that moved nothing found a request that was decided
  otherwise), and that what was asked of the site fits the status (`Sound`). Statuses only move
  forward, jobs stay and outcomes stay, so a plan that fitted its snapshot fits the state it commits
  on (`WorkPlanStays`); an update that names the status it came from (`from`) does nothing otherwise.
  `CommitIsStep` then shows, event by event, which step of the workflow a commit is (`LocalStep`, one
  request), `StepIsWorkflowStep` that the rest of the step leaves what the workflow sees alone, and
  `MappedStep` carries this to the instance.
* `SetUpIsUnderWay`: `Spec => []ApprovedIsBeingSetUp`, a part of `Sound`: CREATE was asked of what is
  Approved, and the success of a CREATE moves it on in the same transaction.

Its third part adds the whole history, with the same assumptions:

* `LogIsTheHistory`, `EndDatesAreGranted`: `Spec => []LogTellsTheHistory`, `Spec => []EndDateIsGranted`;
  `FormsAreFixed`: `Spec => DecidedFormIsFixed`. The invariant `HInv` is `WInv` with `HistoriesOK`, the
  two properties for each row and its log together with where its waiting ask was logged, and
  `HistoryPlansOK`, what of a planned event still holds when it commits: a decision on an extension
  grants a date that the log says was asked for and writes back the form the row has; an edit, a retry, a
  decision or a mark does not log a move. `Happens` says once what any event does to its row,
  `CommitHappens` and `StepHappens` that every step appends such an event or none, and `MovesGrow`,
  `GrantsGrow` and `HistoryGrows` that a log it is appended to stays a history.
* `EndDatesAreMarkedOnce`: `Spec => []OncePerEndDate`. While no pass has outlived its lease, only the
  holder of the lease has a pass or an open mark (`PassIsAlone`) and the mark it is about to log is
  not in the log (`MarkIsNew`). After that both may fail, and `OInv` counts instead (`FewMarks`): once
  there is a mark no transaction plans another, so more come only of those that had looked for it
  before, at most one of each task (`Markers`); the marks that are there and those still to come are
  together no more than the tasks.

`SiteWorkerProofs` proves, for any jobs, copies, hosts and students and any limits with
`MaxAttempts < MaxDeliveries` (`AttemptsAssumption`):

* `Acknowledged`: `Spec => []AcknowledgedIsAnswered`. Inductive with `AcceptsAnswered`: a worker
  about to acknowledge has sent a result of that job.
* `DeadLetters`: `Spec => []DeadLetterIsOutage`, from `CountsOK`: failed deliveries are outages and
  at most `MaxAttempts - 1` errors, because the attempt the worker counts is the broker's count.
* `NeverRunsAgain`: `Spec => FinishedNeverRunsAgain`, from `RunsUnfinished`: a delivery at a step
  that changes accounts is of a job without an outcome, since there is one worker.
* `CreateMakesUsable`, `RevokeCloses`, `ProgressIsMailed`: `Spec => CreatedIsUsable`,
  `Spec => RevokedIsClosed`, `Spec => SavedProgressIsMailed`. `PInv` is what a delivery has done at each
  of its steps: the hosts not left are usable with the password of this delivery (`HostsSetUp`), or
  closed (`HostsClosed`), and a VPN account that the store notes as new is made new again by whatever
  delivery comes next (`VpnSetUp`). It holds over crashes because a new delivery begins with all hosts.

`AuditShipperProofs` proves, for any tasks, events, batch size and failures, from `LagAssumption`:

* `NothingPassedOver`: `Spec => []NothingIsPassedOver`. The invariant adds that ids follow the
  inserts (`IdsInOrder`), that open events are young (`Timely`), that everything the cursor has
  passed is settled (`PassedOK`), and that everything a batch would make it pass is settled and
  either passed or in the batch (`BatchOK`). `OldIsSettled` is where the lag is used.
* `RepeatsBounded`: `Spec => []RepeatsAreFailures`. `CopiesOK` counts, with each line, the tasks that
  lost the row and will still write it: each is paid for by a failure.

`JobExchangeProofs` proves, for any jobs, lifetimes, limits and bounds, from `TimesAssumption`,
`CountsAssumption` and `SkewAssumption`:

* `WaitsForSomething`: `Spec => []WaitedForIsOnItsWay`. The argument is one lemma, `StepHandsOn`:
  whatever a step does, a message that is there stays, returns, becomes a dead letter or leaves an
  answer about the same job behind, or the job is settled in that step; and a message that is there
  afterwards was there before, is a job sealed just now, or is an answer from the job store.
* `SuccessIsTrue`: `Spec => []SuccessWasReported`, by `SuccessIsKnown`: a stored or travelling success
  was one.
* `DeadlineIsFinal`: `Spec => UnansweredIsOver`, by `Deadlines`: no copy of a Sent job outlives the send
  the backend counts from, because copies of unconfirmed sends are older. `LateCopiesAreShut` is
  where the grace has to cover the difference of the clocks.
* `RotationLosesNothing`: `Spec => OnlyLateJobsAreRefused`, if the site allows the lifetime the
  backend gives (`JobTtl <= SiteMaxTtl`); a site set to less refuses every job.

`SessionsProofs` proves, for any idle time, limit, renewal age and any number of calls:

* `TokensEnd` and `SignInsEnd`: `Spec => EndsInTime`. A token that is valid, in the cookie or in a
  call under way, was made by a call that counts as activity and ends no later than the idle time
  after it and the limit after the sign-in; a renewal takes the limit from the token it replaces.
* `ActivityCounts`: `Spec => ActivityKeepsSignedIn`. What the cookie is worth is told by its `iat`:
  activity the page knows of is less than the renewal age after it, plus the time of one answer
  (`Recent`, `OnTime`), because an active call with an older token renews it, and an answer may put back
  a token that another one replaced while it was on its way. The attempt to prove a bound without that
  last part failed, and with answers slower than one unit of time TLC refutes it; the property now names
  the time an answer takes.
* `BellMovesOn`: `Spec => BellNeverGoesBack`, by `BellInv`: one call at most may change the bell, and its
  answer is no older than what is shown.

`SiteAccountsProofs` proves of `LinuxHost`, for any hosts, any accounts on them at first, any jobs,
attempts and failures, from `HostAssumption` and `AccountsAssumption`:

* `SudoPasswordIsKept`: `Spec => []SudoPasswordStays`. Whether a line with the password is sent was
  probed on this connection and is still so (`Probed`).
* `OpenedWithNewPassword`, `OthersKept`, `SetUpsAreComplete`: `Spec => OpensWithNewPassword`,
  `Spec => OthersAreKept`, `Spec => SetUpIsComplete`. The list of commands that is left is described by
  the pairs that may follow each other (`InOrder`) and its last command (`TodoFits`), so that no proof
  speaks of whole programs; what was done before a command is what the account then has to be (`Fits`):
  checked to be the student's before `chpasswd`, with the new password before it is opened, open before
  the rest. The cleanup may take the account away in between, and then only the parts that speak of
  an account that is there remain. `HostsDone` keeps the finished hosts, `DeletesTheirs` what the
  cleanup has just checked.

and of `UserManager`, through its instance `GUI`, for any lists of users, any names and any failures, from `Parameters`, the
condition TLC checks as `UserAssumption` (the names differ, a list holds a username once, and the
worker uses the operations the model has):

* `SessionsKeepOthers`: `Spec => OthersAreKept`. `GInv` adds to the types that usernames stay unique,
  that the pages left are the last ones of the operation (`Underway`), that the form about to be saved is
  the student's (`AtForm`), and that between the check of the full name and what it is made for every
  row under the username bears that name (`NameChecked`). The check is of one row and the deletion
  of a row that is looked up again: the two are the same person's because usernames are unique and the
  lists only change as `AddMoves`, `RemoveMoves` and `ChangeMoves` say, none of which puts a
  namesake under the name. This is where the proof needs that the office adds nobody (section 6). A
  save or a deletion whose row is still the one that was checked (`SameRow`) changes that one; if the
  row has moved it changes the one under the name, none, or the one that `TookPlace`, which the
  property leaves out.

`ReviewFormProofs` proves, for any requests, any overlaps between them and any number of forms, calls,
jobs and failures, from `RequestsAssumption` and `BoundsAssumption`:

* `OffersAreChoices`: `Spec => []OffersAreTheChoices`. The footer and the services decide by different
  code. They disagree on one state that occurs: a request in use whose removal at its end date failed
  is offered the retry alone, and the services would also complete it (section 6); the property names
  it. They would disagree on others that do not occur, such as a request in use whose removal
  succeeded. `RowOK` says what jobs a request has at each point of its life; `AcceptedIsOK`,
  `JobMovesMoves`, `ExpireMoves` and `SubmitMoves` that every decision, every outcome and the passing
  of the end date keep it; `OffersAgree` compares the two.
* `OverlapsConfirmed`: `Spec => OverlapsAreConfirmed`. `RInv` follows the question from the screen to the
  backend: what is shown is a request as it was (`WasSo`), the question is asked only of a pending one
  with overlaps on the screen (`FormOK`), a form shows a pending request only while nothing but
  decisions of its own is under way (`OwnCallOK`), so no poll or retry changes the screen below the
  question, and an approval that was confirmed saw overlaps (`CallOK`). The first attempt found two
  guards of `AfterAnswer` that overlapped, where TLC takes the first and the language either;
  the definition now has the order of the code.

`RequestFormProofs` proves, for any tabs, field values, forms, requests, drafts and failures, from
`BoundsAssumption` and `TypedAssumption`:

* `FormsWaitForTheirCalls`: `Spec => []WaitsForItsCall`. Only the call a form made itself ends its
  waiting, and a form that was closed waits for nothing; `Waiting` has to tell loading from submitting,
  because an answer to one must not be taken for the other.
* `DraftsAreKept`: `Spec => DraftIsKeptUntilSubmitted`. The request is stored before the answer that
  makes the browser delete the draft, and requests are never removed (`CallOK`).
* `EditsStartFromTheRequest`: `Spec => EditStartsFromTheRequest`. A form that edits a request it has not
  loaded lacks the type (`FormOK`), which an edit form lets nobody change, so what it sends is not valid.

The type invariants of the modules other than `RequestStore` are parts of the inductive invariants of
their theorems and are not spent a run on.

Every safety property of the runs is a theorem, one of them under the hypothesis stated with it
(`JobTtl <= SiteMaxTtl`). Model-checked only: liveness (`JobsAreAnswered`,
`EndedIsHandled`, `EveryEventIsShipped`, `RunningViewMovesOn`, `EndIsNoticed`), since liveness under
fairness and ENABLED are out of the prover's reach, and the counterexample of `ExtensionAsk`. The
instances of TLC still say what the theorems cannot: that the cases they speak of occur.

## 5. Where code and documents disagree

`ExtensionAsk` finds that no ask for more time is ever taken: the pattern of
`ExtensionRequestSchema` (`utils/validation.js:62`) is `/^d{4}-d{2}-d{2}$/`, which has lost its
backslashes. The form sends a date, the backend answers 400. Nothing else of the extension can be
reached through the API until that is mended; `RequestStore` models it as it will work then.

The other disagreements that modelling found are in the next section.

## 6. Known limits

What the models show the code to do although a comment, a document or a reader would expect
otherwise. No run is spent on these; the hazards of `PROJECT.json` refer here.

Backend:

* `provisioning.service.js:105`: Complete and the scheduler's expiry, overlapping, both count no
  pending REVOKE in their snapshots and queue two ("at most one REVOKE per request", line 100).
* `extension.service.js:62`: `decideExtension` reads the approver before it locks the row, so its
  snapshot is older than its lock: one ask may be decided twice (against the comment at line 29).
* `scheduler.service.js:61`: `systemEvent` checks status and mark again but not the end date: a
  request extended after the listing is expired for its new date (against line 6).
* `provisioning.service.js:93`: `keepsVpn` counts the student's other requests in a snapshot, so a
  REVOKE may turn off the VPN account of someone just approved again (against line 91).
* `reviewer.service.js:75`: an approval or rejection writes back the `extra_details` of its
  snapshot, over an edit that committed since.
* A RETRIED or *_FAILED event may log a status the request has left; a student may be reminded at
  once of a new end date and never near it; two tasks may log one mark when a pass outlives its
  lease (`OncePerEndDate` says how many, at most); a retried EXTEND may carry an end date older than one granted meanwhile; after an EXTEND
  and a REVOKE both failed only the later can be retried.
* `audit-log.service.js`: the filter is on `created_at`, the cursor on `eid`. If two tasks write
  events at the same moment the greater id may have the smaller `created_at` and ship alone; the
  other is never shipped. `InOrder` in `NothingIsPassedOver` and `EveryEventIsShipped` names this.
* Emails go out one after the other after the commit; a task that dies in between leaves the rest
  unsent, and nothing records it.

Between backend and site:

* `scheduler.service.js:130`: a job that the site had begun and was redelivered after its expiry is
  reported as "expired before the SIIT site took it"; parts of it were done.
* A dead letter that names no job still waiting is logged and removed.
* When the backend stops listing its old key while answers sealed for it are under way, they are
  refused and the time-out fails the job.
* `acc-prov-vm/src/main.js:86`: SIGTERM ends the process with the job in hand; the message comes
  back and the job runs from its first step.

Site:

* `jobs.js:181`: that the VPN account is new is noted after it was changed. A crash or an error in
  between leaves an active account whose password nobody was told (against lines 17-18). The same
  holds for a set-up retried by an approver, which is a new job with empty progress.
* `worker.js:80`: when sending the result of a success fails on the last attempt, the failure
  replaces the success in the store and is what the backend is told (against `jobstore.js:2-3`).
* `worker.js:80`: a refused login is retried like any failure (`acc-prov-vm/README.md:57` says never).
* `pfsense.js:144`, `275`: an edit page is named by the index of a row and checked once, when it comes
  up; the click on Save or on the trash link is not preceded by another look. If a row above is
  deleted in that moment, pfSense may save the page to the account that took the place, or delete
  that one (the alert that is waited for would then be missing). What pfSense does is not in this
  repository; `OthersAreKept` leaves out exactly this account (`TookPlace`).
* `pfsense.js`: `setPassword` is not read back. `deleteUser` looks its row up again by username
  only after it compared the full name, and between an edit page and its save the account may be
  another's of the same name; both need the office to delete an account and add a namesake's in
  that moment, and the office of `UserManager` adds nobody.
* A removal locks a Linux account, and a set-up keeps an active VPN account and moves its expiration,
  without comparing the full name. A retry with `forceNew` may move that expiration to an earlier day.
* A remote command that timed out may finish after the retry has begun; `LinuxHost` lets it have its
  effect at once or never.
* `cleanup.js`: the HDFS home is removed by username alone. The second check may delete a place that
  the first had not marked and the person had not confirmed.

Browser:

* A late success closes the form that is open, also when it was opened since (`StudentHomePage.jsx:49`,
  `AdminHomePage.jsx:83`), with what was typed into it.
* A submission whose answer is lost shows an error and exists; submitting again makes a second
  request. So does resubmitting a draft whose form was closed while busy.
* What is saved to a draft after its submission began is deleted with the draft. Draft ids have six
  digits of the clock and wrap round.
* An edit sends the whole form: one loaded before another tab's edit overwrites it.
* An approval is of what is stored, which the student may have edited since the form was opened; its
  confirmation also covers overlaps that appeared after the question.
* `RequestFormModal.jsx:131-137`: polls are not numbered. A slow one may replace the view of a retry
  by the failure before it, and stop the polling.
* `RequestFormModal.jsx:134`: the poll of a running setup is not marked as background, so a form left
  open keeps the person signed in up to the limit. (`Sessions` has the bell's poll, which is marked.)
* A call under way at sign-out may bring back a renewed cookie after it; a sign-out that is lost leaves
  the cookie valid; a lost `/api/auth/me` shows a signed-in person as signed out.
* `RequestFormModal.jsx:337`: when the removal at the end date of a request in use has failed, the
  form offers to retry it and no longer to complete the request, which the service would take, and
  which would queue the removal too. A request whose removal keeps failing cannot be completed from
  the form.
* `HistoryPage.jsx`: pages are loaded by offset while rows are added; a row may come twice or not at all.

## 7. Not modelled

* Notifications: emails after the commit that change no state.
* Users and roles, Export: single updates and reads; formatting.
* Configuration and start-up: settings read once; the ones that matter are constants of the models.
* The choice of a GPU node (two approvals at once may pick the same one), the backoff of the
  dispatcher, the times of the lease.
* The exchange with Google, profiles, roles; the cryptography and the syntax of the envelope.
* Connecting and reconnecting to the broker; the extension of an SQS message's visibility.
* History, user and export pages, layout, wording.
* The stored procedures of `database/init.sql` (`update_request_status` and others) are for use by
  hand; the backend never calls them. Deployment templates and scripts.

## 8. Plan

Done: all modules of section 2 with their runs, and a theorem for every safety property of the runs.

1. What a student can log in to, with two requests that share a VPN account: retried EXTEND and
   REVOKE jobs, a set-up retried as a new job.
2. The lease with its times, and the choice of the GPU node.
3. That `SiteWorker`'s step on an account is what `UserManager` and `LinuxHost` do, as a refinement.
