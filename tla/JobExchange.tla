----------------------------- MODULE JobExchange -----------------------------
(***************************************************************************)
(* A job between the backend and the site: the sealed envelopes and their  *)
(* lifetimes, the request and result queues with their dead letters, the   *)
(* deadline after which the backend stops waiting, two clocks that differ, *)
(* and a key that is rotated while messages are on their way.              *)
(*                                                                         *)
(* What the site does for a job (module SiteWorker) and what the answer    *)
(* does to the request (module RequestStore) are left to those modules:    *)
(* here a job is run, and it succeeds or fails.  A message is its envelope *)
(* and its number of earlier deliveries.  Equal copies of a message are    *)
(* one element of the set mail; that a copy is handled twice is modelled   *)
(* by a delivery whose removal fails.                                      *)
(***************************************************************************)
EXTENDS Integers, FiniteSets

CONSTANTS
    Jobs,           \* job ids (the jti of every message about the job)
    JobTtl,         \* MSG_JOB_TTL_SEC of the backend
    ResultTtl,      \* MSG_RESULT_TTL_SEC of the site
    SiteMaxTtl,     \* MSG_MAX_TTL_SEC of the site
    BackendMaxTtl,  \* MSG_MAX_TTL_SEC of the backend
    SkewAllowed,    \* maxSkewSec
    Grace,          \* NO_ANSWER_GRACE_SEC
    Skews,          \* how far the site's clock may be ahead of the backend's
    MaxAttempts,    \* WORKER_MAX_ATTEMPTS
    MaxDeliveries,  \* the broker's max-delivery-attempts or maxReceiveCount
    MaxSends,       \* bound: a job is handed to the broker this often
    MaxMail,        \* bound: nothing new is sent while the broker has this many messages
    Horizon         \* bound: the clock stops here

ASSUME TimesAssumption ==
    /\ JobTtl \in Nat \ {0} /\ ResultTtl \in Nat \ {0}
    /\ SiteMaxTtl \in Nat /\ BackendMaxTtl \in Nat
    /\ SkewAllowed \in Nat /\ Grace \in Nat
    /\ Horizon \in Nat
    /\ Skews \subseteq Int

\* The two clocks differ by no more than an envelope may come from the future,
\* and the backend waits at least that much longer than a job is valid.
ASSUME SkewAssumption ==
    /\ \A s \in Skews : -SkewAllowed <= s /\ s <= SkewAllowed
    /\ SkewAllowed <= Grace

ASSUME CountsAssumption ==
    /\ MaxAttempts \in Nat \ {0}
    /\ MaxDeliveries \in Nat \ {0}
    /\ MaxSends \in Nat /\ MaxMail \in Nat

VARIABLES
    now,     \* the backend's clock
    skew,    \* the site's clock minus the backend's
    keys,    \* the backend's key; the backend keys the site lists, and the first of them
    job,     \* the provision_job rows
    mail,    \* the messages the broker has to give, and its dead letters
    hand,    \* the job message the site's worker is on
    store,   \* the outcomes in the site's job store
    runs     \* history: how far the site has come with each job

backend == <<now, job, keys>>
vars == <<now, skew, keys, job, mail, hand, store, runs>>

-----------------------------------------------------------------------------
(* Envelopes *)

Kids == {"old", "new"}          \* the backend's key before and after the rotation
SiteKid == "site"
SiteNow == now + skew

\* ok is the payload: for a result, whether the job succeeded.
Envelope(typ, j, ok, at, ttl, kid, rkid) ==
    [typ |-> typ, jti |-> j, ok |-> ok, iat |-> at, exp |-> at + ttl, kid |-> kid, rkid |-> rkid]

Acceptable(e, typ, kids, me, at, maxTtl) ==
    /\ e.typ = typ
    /\ e.kid \in kids
    /\ e.rkid = me
    /\ e.iat <= at + SkewAllowed
    /\ at < e.exp
    /\ e.exp - e.iat <= maxTtl

SealJob(j) == Envelope("job", j, FALSE, now, JobTtl, keys.backend, SiteKid)
SealResult(j, ok) == Envelope("result", j, ok, SiteNow, ResultTtl, SiteKid, keys.first)
SiteOpens(e) == Acceptable(e, "job", keys.listed, SiteKid, SiteNow, SiteMaxTtl)
BackendOpens(e) == Acceptable(e, "result", {SiteKid}, keys.backend, now, BackendMaxTtl)

-----------------------------------------------------------------------------
(* The broker *)

Message(queue, e) == [queue |-> queue, env |-> e, count |-> 0]

\* A delivery that was not settled: the broker counts it, and gives up on the
\* message once it has used its deliveries.
Returned(m) ==
    IF m.count + 1 < MaxDeliveries THEN [m EXCEPT !.count = @ + 1] ELSE [m EXCEPT !.queue = "dead"]

\* A message its receiver refuses to read: AMQP rejects it, SQS lets it come
\* back until the redrive policy moves it.
AfterRefusal(m) == {[m EXCEPT !.queue = "dead"], Returned(m)}

Room == Cardinality(mail) < MaxMail

PutOn(m) == mail' = mail \cup {m}
\* Mutant: a message that used its deliveries is dropped.
Swap_Drops(m, n) == mail' = IF n.queue = "dead" THEN mail \ {m} ELSE (mail \ {m}) \cup {n}
Swap(m, n) == mail' = (mail \ {m}) \cup {n}
TakeOff(m) == mail' = mail \ {m}

Free == [phase |-> "free"]
Held == IF hand = Free THEN {} ELSE {hand.msg}

Init ==
    /\ now = 0
    /\ skew \in Skews
    /\ keys = [backend |-> "old", listed |-> Kids, first |-> "old"]
    /\ job = [j \in Jobs |-> [status |-> "Queued", attempts |-> 0, sentAt |-> 0, error |-> "none"]]
    /\ mail = {}
    /\ hand = Free
    /\ store = [j \in Jobs |-> "none"]
    /\ runs = [j \in Jobs |-> "never"]

-----------------------------------------------------------------------------
(* The backend *)

\* Bounds: a job is not sent so late that the clock stops before its deadline,
\* and only MaxSends times.
SealAndSend(j) ==
    /\ job[j].status = "Queued" /\ Room
    /\ now + JobTtl + Grace < Horizon /\ job[j].attempts < MaxSends
    /\ PutOn(Message("request", SealJob(j)))
    /\ UNCHANGED <<now, skew, keys, hand, store, runs>>

SendJob(j) ==
    /\ SealAndSend(j)
    /\ job' = [job EXCEPT ![j].status = "Sent", ![j].sentAt = now, ![j].attempts = @ + 1]

\* The broker has the message, and the sender takes the send for failed: no
\* answer came in time.
SendUnconfirmed(j) ==
    /\ SealAndSend(j)
    /\ job' = [job EXCEPT ![j].attempts = @ + 1]

Active(j) == job[j].status \in {"Queued", "Sent"}

\* The guarded update of a job: one that has its outcome keeps it.
Settle(j, status, error) ==
    job' = IF Active(j) THEN [job EXCEPT ![j].status = status, ![j].error = error] ELSE job

\* handleResult commits; the message is removed, or it is given again because
\* the backend stopped before it could settle the delivery.
ApplyResult(m) ==
    /\ m \in mail /\ m.queue = "result" /\ BackendOpens(m.env)
    /\ IF m.env.ok THEN Settle(m.env.jti, "Succeeded", "none") ELSE Settle(m.env.jti, "Failed", "reported")
    /\ TakeOff(m) \/ Swap(m, Returned(m))
    /\ UNCHANGED <<now, skew, keys, hand, store, runs>>

\* The database is not there, or the request changed while it was applied.
ResultNotApplied(m) ==
    /\ m \in mail /\ m.queue = "result" /\ BackendOpens(m.env)
    /\ Swap(m, Returned(m))
    /\ UNCHANGED <<now, skew, keys, job, hand, store, runs>>

RefuseResult(m) ==
    /\ m \in mail /\ m.queue = "result" /\ ~BackendOpens(m.env)
    /\ \E n \in AfterRefusal(m) : Swap(m, n)
    /\ UNCHANGED <<now, skew, keys, job, hand, store, runs>>

\* Only the header of a dead letter is read.
DeadLetterError(e) ==
    IF e.typ = "result" THEN "unreadable" ELSE IF e.exp < now THEN "expired" ELSE "refused"

DrainDeadLetter(m) ==
    /\ m \in mail /\ m.queue = "dead"
    /\ Settle(m.env.jti, "Failed", DeadLetterError(m.env))
    /\ TakeOff(m)
    /\ UNCHANGED <<now, skew, keys, hand, store, runs>>

\* Mutant: the seconds of the lifetime and of the grace taken as milliseconds.
FailUnanswered_Milliseconds(j) ==
    /\ job[j].status = "Sent" /\ job[j].sentAt < now
    /\ Settle(j, "Failed", "unanswered")
    /\ UNCHANGED <<now, skew, keys, mail, hand, store, runs>>

FailUnanswered(j) ==
    /\ job[j].status = "Sent" /\ job[j].sentAt < now - (JobTtl + Grace)
    /\ Settle(j, "Failed", "unanswered")
    /\ UNCHANGED <<now, skew, keys, mail, hand, store, runs>>

-----------------------------------------------------------------------------
(* The site's worker *)

Take(m) == hand = Free /\ m \in mail /\ m.queue = "request"
Attempt == hand.msg.count + 1

RefuseJob(m) ==
    /\ Take(m) /\ ~SiteOpens(m.env)
    /\ \E n \in AfterRefusal(m) : Swap(m, n)
    /\ UNCHANGED <<now, skew, keys, job, hand, store, runs>>

StartJob(m) ==
    /\ Take(m) /\ SiteOpens(m.env) /\ store[m.env.jti] = "none"
    /\ hand' = [phase |-> "run", msg |-> m]
    /\ runs' = [runs EXCEPT ![m.env.jti] = IF @ = "never" THEN "begun" ELSE @]
    /\ TakeOff(m)
    /\ UNCHANGED <<now, skew, keys, job, store>>

\* A job that is done is answered from the store.
AnswerAgain(m) ==
    /\ Take(m) /\ SiteOpens(m.env) /\ store[m.env.jti] # "none"
    /\ hand' = [phase |-> "fail", msg |-> m]
    /\ TakeOff(m)
    /\ UNCHANGED <<now, skew, keys, job, store, runs>>

Finish(outcome, phase) ==
    /\ store' = [store EXCEPT ![hand.msg.env.jti] = outcome]
    /\ hand' = [hand EXCEPT !.phase = phase]
    /\ UNCHANGED <<now, skew, keys, job>>

JobSucceeds ==
    /\ hand.phase = "run"
    /\ Finish("ok", "done")
    /\ runs' = [runs EXCEPT ![hand.msg.env.jti] = "succeeded"]
    /\ UNCHANGED mail

\* JobRejectedError at any attempt, any other error at the last one.
JobFails ==
    /\ hand.phase = "run"
    /\ Finish("failed", "fail")
    /\ UNCHANGED <<mail, runs>>

ReleaseWith(sent) ==
    /\ hand' = Free
    /\ mail' = mail \cup sent \cup {Returned(hand.msg)}
    /\ UNCHANGED <<now, skew, keys, job, store, runs>>

Release == ReleaseWith({})

JobIsRetried == hand.phase = "run" /\ Attempt < MaxAttempts /\ Release

\* The result is sealed when it is sent.
Answer(ok) == Message("result", SealResult(hand.msg.env.jti, ok))
\* Mutant: a stored outcome is always sent as a success.
StoredAnswer_Ok == Answer(TRUE)
StoredAnswer == Answer(store[hand.msg.env.jti] = "ok")

\* The message is removed after its result was sent, or it comes again: the
\* worker stops between the two, or the removal is lost.
SendResult ==
    /\ hand.phase \in {"done", "fail"} /\ Room
    /\ hand' = Free
    /\ \E rest \in {{}, {Returned(hand.msg)}} : mail' = mail \cup {StoredAnswer} \cup rest
    /\ UNCHANGED <<now, skew, keys, job, store, runs>>

\* A send that fails for the site may have reached the broker.
MayBeSent == {{}} \cup (IF Room THEN {{StoredAnswer}} ELSE {})

\* The send of a success fails inside the try block of the job: on the last
\* attempt the catch stores a failed result over it and sends that.
SuccessIsOverwritten ==
    /\ hand.phase = "done" /\ Attempt >= MaxAttempts
    /\ Finish("failed", "fail")
    /\ \E sent \in MayBeSent : mail' = mail \cup sent
    /\ UNCHANGED runs

SendResultFails ==
    /\ \/ hand.phase = "fail"
       \/ hand.phase = "done" /\ Attempt < MaxAttempts
    /\ \E sent \in MayBeSent : ReleaseWith(sent)

\* The worker stops, or the connection drops, with the message unsettled.
SiteStops == hand # Free /\ Release

-----------------------------------------------------------------------------
(* The rotation of the backend's key.  Each side reads its keys when it     *)
(* starts; the site lists the new key, second, before the backend has it.   *)

BackendUsesNewKey ==
    /\ keys.backend = "old"
    /\ keys' = [keys EXCEPT !.backend = "new"]
    /\ UNCHANGED <<now, skew, job, mail, hand, store, runs>>

\* Mutant: the old key is taken off the site's list at once.
SiteAnswersNewKey_Only ==
    /\ hand = Free /\ keys.backend = "new" /\ keys.first = "old"
    /\ keys' = [keys EXCEPT !.first = "new", !.listed = {"new"}]
    /\ UNCHANGED <<now, skew, job, mail, hand, store, runs>>

SiteAnswersNewKey ==
    /\ hand = Free /\ keys.backend = "new" /\ keys.first = "old"
    /\ keys' = [keys EXCEPT !.first = "new"]
    /\ UNCHANGED <<now, skew, job, mail, hand, store, runs>>

Tick ==
    /\ now < Horizon
    /\ now' = now + 1
    /\ UNCHANGED <<skew, keys, job, mail, hand, store, runs>>

Backend ==
    \/ \E j \in Jobs : SendJob(j) \/ SendUnconfirmed(j) \/ FailUnanswered(j)
    \/ \E m \in mail : ApplyResult(m) \/ ResultNotApplied(m) \/ RefuseResult(m) \/ DrainDeadLetter(m)

Site ==
    \/ \E m \in mail : RefuseJob(m) \/ StartJob(m) \/ AnswerAgain(m)
    \/ JobSucceeds \/ JobFails \/ JobIsRetried
    \/ SendResult \/ SuccessIsOverwritten \/ SendResultFails \/ SiteStops

Rotation == BackendUsesNewKey \/ SiteAnswersNewKey

Next == Backend \/ Site \/ Rotation \/ Tick

Spec == Init /\ [][Next]_vars

-----------------------------------------------------------------------------
\* A job the backend waits for is never forgotten: a message about it is with
\* the broker, among its dead letters, or in the worker's hand, whatever was
\* lost, refused or returned on the way (README of acc-prov-vm: a message is
\* acknowledged only after its result was sent).
WaitedForIsOnItsWay ==
    \A j \in Jobs : job[j].status = "Sent" => \E m \in mail \cup Held : m.env.jti = j

\* What the backend calls a success was one at the site, also when outcomes
\* were sent twice, overwritten or read late.
SuccessWasReported == \A j \in Jobs : job[j].status = "Succeeded" => runs[j] = "succeeded"

\* A job that was failed for want of an answer is over: the site does not
\* begin with it afterwards, whatever copies of it are left and however the
\* two clocks differ.
UnansweredIsOver ==
    [][\A j \in Jobs : job[j].error = "unanswered" /\ runs[j] = "never" => runs'[j] = "never"]_vars

\* During a rotation and with clocks apart, the site refuses a job only when
\* its time is over.
OnlyLateJobsAreRefused ==
    [][\A m \in mail : RefuseJob(m) => m.env.exp <= SiteNow]_vars

=============================================================================
