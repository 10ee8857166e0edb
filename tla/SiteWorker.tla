---------------------------- MODULE SiteWorker ----------------------------
(***************************************************************************)
(* acc-prov-vm, the worker at the site: it takes one provisioning job at a *)
(* time from the request queue, changes accounts on pfSense (the VPN), on  *)
(* the Linux hosts and in HUE, mails the password, records the outcome in  *)
(* its job store and answers on the result queue (worker.js, jobs.js,      *)
(* jobstore.js, linux.js, pfsense.js, hue.js, amqp.js, sqs.js).            *)
(*                                                                         *)
(* One action is one change of an outside system or of the store.  Between *)
(* any two of them the process may crash or the next step may throw, and   *)
(* the message comes back.  A job can also be published twice.             *)
(***************************************************************************)
EXTENDS Integers, Sequences, SequencesExt

CONSTANTS
    Jobs,           \* jti of every job (provision_job.job_id)
    Messages,       \* copies of jobs on the request queue
    Loads,          \* the sets of messages that may have been published
    JobOf,          \* the job a message carries
    Task,           \* the payload of each job
    Students,
    Hosts,          \* Linux hosts and HUE: where a service keeps accounts
    HueHosts,       \* the ones that are HUE
    MaxAttempts,    \* WORKER_MAX_ATTEMPTS
    MaxDeliveries,  \* the broker's limit (maxReceiveCount, max-delivery-attempts)
    MaxFailures,    \* bound: the deliveries that fail in one behaviour
    LastDay,        \* bound: the last day of the calendar
    OldVpn,         \* the VPN accounts there may be before the first job, and
    OldAccount,     \* those of a host: an earlier period's, or someone else's
    NoMessage, NoPassword

Never == LastDay + 1      \* an account without an expiration (null)

Tasks == [action : {"CREATE", "REVOKE", "EXTEND"}, valid : BOOLEAN, student : Students,
          hosts : Seq(Hosts), end : 1..LastDay, revokeVpn : BOOLEAN]

(* A password is named by the attempt that generated it: every attempt     *)
(* generates a fresh one.  NoPassword is what an account had before.       *)
Passwords == (Messages \X Nat) \union {NoPassword}

VpnAccount == [exists : BOOLEAN, disabled : BOOLEAN, expires : 0..Never,
               pw : Passwords, mine : BOOLEAN]
Account    == [exists : BOOLEAN, open : BOOLEAN, pw : Passwords, mine : BOOLEAN]

ASSUME SiteAssumption ==
    /\ JobOf \in [Messages -> Jobs]
    /\ Task \in [Jobs -> Tasks]
    /\ NoMessage \notin Messages
    /\ HueHosts \subseteq Hosts
    /\ LastDay \in Nat \ {0}
    /\ \A v \in OldVpn : v \in VpnAccount /\ v.pw = NoPassword
    /\ \A a \in OldAccount : a \in Account /\ a.pw = NoPassword

\* acc-prov-vm/README.md: the worker gives up before the broker does.
ASSUME AttemptsAssumption ==
    /\ MaxAttempts \in Nat \ {0}
    /\ MaxDeliveries \in Nat
    /\ MaxAttempts < MaxDeliveries

VARIABLES
    queue,     \* per message: where it is
    deliveries,\* per message: failed deliveries the broker has counted
    outages,   \* per message: those a crash or a failed send of the result ended
    worker,    \* the delivery being handled
    store,     \* the job store, on disk
    vpn,       \* the pfSense account of each student
    account,   \* the account of each student on each host
    inbox,     \* the passwords mailed to each student
    results,   \* the results sent
    today

vars == <<queue, deliveries, outages, worker, store, vpn, account, inbox, results, today>>
broker  == <<queue, deliveries, outages>>
systems == <<vpn, account, inbox>>

Record     == [status : {"none", "in_progress", "done"}, vpnIsNew : BOOLEAN, ok : BOOLEAN]

\* The steps of a job that change accounts, and those that end a delivery.
AccountPhases == {"vpn", "enable", "expire", "save", "user", "password", "unlock",
                  "lock", "disable", "extend", "finish"}
Phases == AccountPhases \union {"idle", "send", "resend", "fail", "sendFailed", "accept"}
Delivery == [message : Messages \union {NoMessage}, phase : Phases, left : Seq(Hosts),
             vpnIsNew : BOOLEAN, forceNew : BOOLEAN]

Idle == [message |-> NoMessage, phase |-> "idle", left |-> <<>>,
         vpnIsNew |-> FALSE, forceNew |-> FALSE]
NoRecord == [status |-> "none", vpnIsNew |-> FALSE, ok |-> FALSE]

\* No account under this name.
NoVpn     == [exists |-> FALSE, disabled |-> FALSE, expires |-> 0, pw |-> NoPassword, mine |-> TRUE]
NoAccount == [exists |-> FALSE, open |-> FALSE, pw |-> NoPassword, mine |-> TRUE]

Init == /\ queue \in {[m \in Messages |-> IF m \in load THEN "queued" ELSE "unsent"] : load \in Loads}
        /\ deliveries = [m \in Messages |-> 0]
        /\ outages = [m \in Messages |-> 0]
        /\ worker = Idle
        /\ store = [j \in Jobs |-> NoRecord]
        /\ vpn \in [Students -> OldVpn]
        /\ account \in [Students -> {[h \in Hosts |-> a] : a \in OldAccount}]
        /\ inbox = [s \in Students |-> {}]
        /\ results = {}
        /\ today = 1

----------------------------------------------------------------------------
(* The delivery at hand.                                                   *)

job      == JobOf[worker.message]
task     == Task[job]
student  == task.student
host     == Head(worker.left)
Password == <<worker.message, deliveries[worker.message]>>
Attempt  == deliveries[worker.message] + 1

GoTo(phase) == worker' = [worker EXCEPT !.phase = phase]

NextHost(phase) == worker' = [worker EXCEPT !.phase = phase, !.left = Tail(@)]

\* The broker counts the delivery and hands the message out again, up to its limit.
Release(m) ==
    /\ FoldFunction(+, 0, deliveries) < MaxFailures
    /\ deliveries' = [deliveries EXCEPT ![m] = @ + 1]
    /\ queue' = [queue EXCEPT ![m] = IF deliveries[m] + 1 < MaxDeliveries THEN "queued" ELSE "dead"]
    /\ worker' = Idle

Outage(m) == outages' = [outages EXCEPT ![m] = @ + 1]

----------------------------------------------------------------------------
(* The request queue.  What is published is there from the start: the      *)
(* worker takes messages in any order, so a late one is one taken late.    *)

\* The envelope's lifetime is over: a PoisonMessageError, dead-lettered, no answer.
RefuseExpired(m) ==
    /\ worker = Idle
    /\ queue[m] = "queued"
    /\ queue' = [queue EXCEPT ![m] = "refused"]
    /\ UNCHANGED <<deliveries, outages, worker, store, systems, results, today>>

\* The first step of each kind of job.
Start == [CREATE |-> "vpn", REVOKE |-> "lock", EXTEND |-> "extend"]

\* Mutant: the job store is not asked.
FirstPhase_Always(j) == IF ~Task[j].valid THEN "fail" ELSE Start[Task[j].action]

FirstPhase(j) ==
    IF store[j].status = "done" THEN "resend"
    ELSE IF ~Task[j].valid THEN "fail" ELSE Start[Task[j].action]

\* Mutant: a retry starts without the saved progress.
ProgressOf_Never(j) == FALSE

ProgressOf(j) == store[j].status = "in_progress" /\ store[j].vpnIsNew

Take(m) ==
    /\ worker = Idle
    /\ queue[m] = "queued"
    /\ queue' = [queue EXCEPT ![m] = "taken"]
    /\ worker' = [message |-> m, phase |-> FirstPhase(JobOf[m]), left |-> Task[JobOf[m]].hosts,
                  vpnIsNew |-> FALSE, forceNew |-> ProgressOf(JobOf[m])]
    /\ UNCHANGED <<deliveries, outages, store, systems, results, today>>

----------------------------------------------------------------------------
(* CREATE: the VPN first, then every host, then the mail.                  *)

SetVpn(v) == vpn' = [vpn EXCEPT ![student] = v]

\* Enabled and not past its expiration.
Active(v) == ~v.disabled /\ v.expires >= today

CreateVpn ==
    /\ worker.phase = "vpn"
    /\ ~vpn[student].exists
    /\ SetVpn([exists |-> TRUE, disabled |-> FALSE, expires |-> task.end, pw |-> Password, mine |-> TRUE])
    /\ worker' = [worker EXCEPT !.phase = "save", !.vpnIsNew = TRUE]
    /\ UNCHANGED <<broker, store, account, inbox, results, today>>

\* Only the expiration may move; the full name on the account is not compared.
KeepVpn ==
    /\ worker.phase = "vpn"
    /\ vpn[student].exists
    /\ Active(vpn[student])
    /\ ~worker.forceNew
    /\ SetVpn([vpn[student] EXCEPT !.expires = IF @ < task.end THEN task.end ELSE @])
    /\ GoTo("user")
    /\ UNCHANGED <<broker, store, account, inbox, results, today>>

ResetsVpn == /\ worker.phase = "vpn"
             /\ vpn[student].exists
             /\ ~Active(vpn[student]) \/ worker.forceNew

ResetVpnPassword ==
    /\ ResetsVpn
    /\ vpn[student].mine
    /\ SetVpn([vpn[student] EXCEPT !.pw = Password])
    /\ GoTo("enable")
    /\ UNCHANGED <<broker, store, account, inbox, results, today>>

EnableVpn ==
    /\ worker.phase = "enable"
    /\ SetVpn([vpn[student] EXCEPT !.disabled = FALSE])
    /\ GoTo("expire")
    /\ UNCHANGED <<broker, store, account, inbox, results, today>>

SetVpnExpiration ==
    /\ worker.phase = "expire"
    /\ SetVpn([vpn[student] EXCEPT !.expires = task.end])
    /\ worker' = [worker EXCEPT !.phase = "save", !.vpnIsNew = TRUE]
    /\ UNCHANGED <<broker, store, account, inbox, results, today>>

SaveProgress ==
    /\ worker.phase = "save"
    /\ store' = [store EXCEPT ![job] = [status |-> "in_progress", vpnIsNew |-> TRUE, ok |-> FALSE]]
    /\ GoTo("user")
    /\ UNCHANGED <<broker, systems, results, today>>

SetAccount(a) == account' = [account EXCEPT ![student][host] = a]

\* Mutant: a user that exists is taken for one that is set up.
EnsureUser_KeepsExisting ==
    /\ worker.phase = "user"
    /\ worker.left # <<>>
    /\ host \notin HueHosts
    /\ SetAccount(IF account[student][host].exists THEN account[student][host]
                  ELSE [exists |-> TRUE, open |-> TRUE, pw |-> NoPassword, mine |-> TRUE])
    /\ IF account[student][host].exists THEN NextHost("user") ELSE GoTo("password")
    /\ UNCHANGED <<broker, store, vpn, inbox, results, today>>

\* adduser, unless the user exists.
EnsureUser ==
    /\ worker.phase = "user"
    /\ worker.left # <<>>
    /\ host \notin HueHosts
    /\ SetAccount(IF account[student][host].exists THEN account[student][host]
                  ELSE [exists |-> TRUE, open |-> TRUE, pw |-> NoPassword, mine |-> TRUE])
    /\ GoTo("password")
    /\ UNCHANGED <<broker, store, vpn, inbox, results, today>>

SetUserPassword ==
    /\ worker.phase = "password"
    /\ account[student][host].mine
    /\ SetAccount([account[student][host] EXCEPT !.pw = Password])
    /\ GoTo("unlock")
    /\ UNCHANGED <<broker, store, vpn, inbox, results, today>>

UnlockUser ==
    /\ worker.phase = "unlock"
    /\ SetAccount([account[student][host] EXCEPT !.open = TRUE])
    /\ NextHost("user")
    /\ UNCHANGED <<broker, store, vpn, inbox, results, today>>

\* HUE has no full name to compare: one form creates or resets the user.
SetUpHue ==
    /\ worker.phase = "user"
    /\ worker.left # <<>>
    /\ host \in HueHosts
    /\ SetAccount([exists |-> TRUE, open |-> TRUE, pw |-> Password, mine |-> account[student][host].mine])
    /\ NextHost("user")
    /\ UNCHANGED <<broker, store, vpn, inbox, results, today>>

\* The mail says whether the password is the VPN's too.
SendEmails ==
    /\ worker.phase = "user"
    /\ worker.left = <<>>
    /\ inbox' = [inbox EXCEPT ![student] = @ \union {[pw |-> Password, vpn |-> worker.vpnIsNew]}]
    /\ GoTo("finish")
    /\ UNCHANGED <<broker, store, vpn, account, results, today>>

----------------------------------------------------------------------------
(* REVOKE: lock every host, and the VPN when no other request keeps it.    *)

\* Mutant: the loop over the hosts ends after the first.
LockUser_FirstOnly ==
    /\ worker.phase = "lock"
    /\ worker.left # <<>>
    /\ SetAccount([account[student][host] EXCEPT !.open = FALSE])
    /\ worker' = [worker EXCEPT !.left = <<>>]
    /\ UNCHANGED <<broker, store, vpn, inbox, results, today>>

LockUser ==
    /\ worker.phase = "lock"
    /\ worker.left # <<>>
    /\ SetAccount([account[student][host] EXCEPT !.open = FALSE])
    /\ NextHost("lock")
    /\ UNCHANGED <<broker, store, vpn, inbox, results, today>>

DisableVpn ==
    /\ worker.phase = "lock"
    /\ worker.left = <<>>
    /\ SetVpn(IF task.revokeVpn /\ vpn[student].exists
              THEN [vpn[student] EXCEPT !.disabled = TRUE] ELSE vpn[student])
    /\ GoTo("finish")
    /\ UNCHANGED <<broker, store, account, inbox, results, today>>

(* EXTEND: the VPN account's expiration, never earlier.                    *)
MovesExpiration == vpn[student].exists /\ ~vpn[student].disabled /\ vpn[student].expires < task.end

ExtendVpn ==
    /\ worker.phase = "extend"
    /\ MovesExpiration => vpn[student].mine
    /\ SetVpn(IF MovesExpiration THEN [vpn[student] EXCEPT !.expires = task.end] ELSE vpn[student])
    /\ GoTo("finish")
    /\ UNCHANGED <<broker, store, account, inbox, results, today>>

----------------------------------------------------------------------------
(* The end of a delivery.                                                  *)

Finish ==
    /\ worker.phase = "finish"
    /\ store' = [store EXCEPT ![job] = [status |-> "done", vpnIsNew |-> FALSE, ok |-> TRUE]]
    /\ GoTo("send")
    /\ UNCHANGED <<broker, systems, results, today>>

\* store.finish of a failed result.
StoreFailure ==
    /\ worker.phase = "fail"
    /\ store' = [store EXCEPT ![job] = [status |-> "done", vpnIsNew |-> FALSE, ok |-> FALSE]]
    /\ GoTo("sendFailed")
    /\ UNCHANGED <<broker, systems, results, today>>

Result == [job |-> job, ok |-> store[job].ok]

Sending == worker.phase \in {"send", "resend", "sendFailed"}

SendResult ==
    /\ Sending
    /\ results' = results \union {Result}
    /\ GoTo("accept")
    /\ UNCHANGED <<broker, store, systems, today>>

Accept ==
    /\ worker.phase = "accept"
    /\ queue' = [queue EXCEPT ![worker.message] = "acked"]
    /\ worker' = Idle
    /\ UNCHANGED <<deliveries, outages, store, systems, results, today>>

\* A JobRejectedError: an account under this name belongs to a different full name.
Foreign ==
    \/ ResetsVpn /\ ~vpn[student].mine
    \/ worker.phase = "password" /\ ~account[student][host].mine
    \/ worker.phase = "extend" /\ MovesExpiration /\ ~vpn[student].mine

RejectForeign ==
    /\ Foreign
    /\ GoTo("fail")
    /\ UNCHANGED <<broker, store, systems, results, today>>

\* Mutant: one attempt too many.
GivesUp_Later == Attempt > MaxAttempts

GivesUp == Attempt >= MaxAttempts

\* Any other error of a step: the last attempt answers, an earlier one leaves the
\* message to redelivery.
StepFails ==
    /\ worker.phase \in AccountPhases
    /\ \/ GivesUp /\ GoTo("fail") /\ UNCHANGED broker
       \/ ~GivesUp /\ Release(worker.message) /\ UNCHANGED outages
    /\ UNCHANGED <<store, systems, results, today>>

\* Mutant: the answer is not awaited.
SendFails_Ignored ==
    /\ Sending
    /\ GoTo("accept")
    /\ UNCHANGED <<broker, store, systems, results, today>>

\* The broker may have stored a result whose send fails.  In the try block of onMessage
\* a failed send is an error of the job like any other.
SendFails ==
    /\ Sending
    /\ results' \in {results, results \union {Result}}
    /\ \/ worker.phase = "send" /\ GivesUp /\ GoTo("fail") /\ UNCHANGED broker
       \/ ~(worker.phase = "send" /\ GivesUp) /\ Release(worker.message) /\ Outage(worker.message)
    /\ UNCHANGED <<store, systems, today>>

\* The process or its connection to the broker dies; only the store survives.
Crash ==
    /\ worker # Idle
    /\ Release(worker.message)
    /\ Outage(worker.message)
    /\ UNCHANGED <<store, systems, results, today>>

NextDay ==
    /\ today < LastDay
    /\ today' = today + 1
    /\ UNCHANGED <<broker, worker, store, systems, results>>

----------------------------------------------------------------------------

CreateStep == \/ CreateVpn \/ KeepVpn \/ ResetVpnPassword \/ EnableVpn \/ SetVpnExpiration
              \/ SaveProgress \/ EnsureUser \/ SetUserPassword \/ UnlockUser \/ SetUpHue
              \/ SendEmails
RevokeStep == LockUser \/ DisableVpn
EndStep    == Finish \/ StoreFailure \/ SendResult \/ Accept \/ RejectForeign

WorkerStep == CreateStep \/ RevokeStep \/ ExtendVpn \/ EndStep

Next == \/ \E m \in Messages : RefuseExpired(m) \/ Take(m)
        \/ WorkerStep
        \/ StepFails
        \/ SendFails
        \/ Crash
        \/ NextDay

Spec == Init /\ [][Next]_vars

----------------------------------------------------------------------------
(* Properties.                                                             *)

\* Every variable has its type, the broker's counts stay within its limit, and the message
\* being handled is the only one the broker has handed out.
TypeOK ==
    /\ queue \in [Messages -> {"unsent", "queued", "taken", "acked", "dead", "refused"}]
    /\ deliveries \in [Messages -> 0..MaxDeliveries]
    /\ outages \in [Messages -> 0..MaxDeliveries]
    /\ worker \in Delivery
    /\ store \in [Jobs -> Record]
    /\ vpn \in [Students -> VpnAccount]
    /\ account \in [Students -> [Hosts -> Account]]
    /\ inbox \in [Students -> SUBSET [pw : Passwords, vpn : BOOLEAN]]
    /\ results \subseteq [job : Jobs, ok : BOOLEAN]
    /\ today \in 1..LastDay
    /\ \A m \in Messages : queue[m] = "taken" <=> worker.message = m

Answered(j) == \E r \in results : r.job = j

\* "The message is acknowledged only after the result has been sent" (worker.js:10), across
\* crashes, failed sends and redeliveries.
AcknowledgedIsAnswered ==
    \A m \in Messages : queue[m] = "acked" => Answered(JobOf[m])

\* A job's own failures never use up the broker's deliveries: a message is dead-lettered only
\* after more than MaxDeliveries - MaxAttempts crashes or failed sends ("so the backend always
\* gets a failed result instead of a silent dead-letter", acc-prov-vm/README.md:239).
DeadLetterIsOutage ==
    \A m \in Messages : queue[m] = "dead" => outages[m] > MaxDeliveries - MaxAttempts

\* A job with a stored outcome is not run again: neither a redelivery, nor a second copy of the
\* message, nor a restart changes an account or mails a password for it (jobstore.js:1-3).
FinishedNeverRunsAgain ==
    [][<<vpn', account', inbox'>> # systems => store[job].status # "done"]_vars

Mailed == {m.pw : m \in inbox[student]}
VpnMailed == {m.pw : m \in {n \in inbox[student] : n.vpn}}

\* The step that stores a success: handlers.run has returned.
Succeeds(action) == worker.phase = "finish" /\ task.action = action /\ store'[job].status = "done"

\* When the outcome of a CREATE is stored as a success, every account of the job is open with
\* one password and that password has been mailed, whatever earlier attempts left behind
\* (jobs.js:16-17, "sets it on every account it manages in this job, and emails it last").
CreatedIsUsable ==
    [][Succeeds("CREATE") =>
        \E pw \in Mailed : \A h \in ToSet(task.hosts) :
            account[student][h].exists /\ account[student][h].open /\ account[student][h].pw = pw]_vars

\* When the outcome of a REVOKE is stored as a success, no host of the job is open, and the VPN
\* account is not usable if the job was to take it away, whatever attempts were cut short.
RevokedIsClosed ==
    [][Succeeds("REVOKE") =>
        /\ \A h \in ToSet(task.hosts) : ~account[student][h].open
        /\ task.revokeVpn => ~vpn[student].exists \/ vpn[student].disabled]_vars

\* Once the job store says that a job made the VPN account new, the job does not succeed before
\* the student has been mailed the password the VPN account has (jobs.js:17-18).
SavedProgressIsMailed ==
    [][(Succeeds("CREATE") /\ store[job].vpnIsNew) => vpn[student].pw \in VpnMailed]_vars
============================================================================
