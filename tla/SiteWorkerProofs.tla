------------------------- MODULE SiteWorkerProofs -------------------------
(* What holds of the worker for any number of jobs, messages, hosts and    *)
(* students, and any limits with MaxAttempts < MaxDeliveries.              *)
EXTENDS SiteWorker, TLAPS

(* The worker is idle, or at a step of a message it holds; a host is being *)
(* set up only while one is left.                                          *)
AtWork == /\ \/ worker = Idle
             \/ worker.message \in Messages /\ worker.phase # "idle"
          /\ worker.phase \in {"password", "unlock"} => worker.left # <<>>

\* The message is about to be acknowledged only once its job is answered.
AcceptsAnswered == worker.phase = "accept" => Answered(job)

\* No step of a job that changes accounts is run once its outcome is stored.
RunsUnfinished == worker.phase \in AccountPhases => store[job].status # "done"

(* Outages are failed deliveries, and at most MaxAttempts - 1 deliveries   *)
(* failed otherwise: the worker's own give-up comes first.                 *)
CountsOK == \A m \in Messages :
    /\ outages[m] <= deliveries[m]
    /\ deliveries[m] <= outages[m] + MaxAttempts - 1
    /\ queue[m] \in {"queued", "taken"} => deliveries[m] < MaxDeliveries
    /\ queue[m] = "dead" => deliveries[m] = MaxDeliveries

IInv == /\ TypeOK
        /\ AtWork
        /\ AcceptsAnswered
        /\ AcknowledgedIsAnswered
        /\ RunsUnfinished
        /\ CountsOK

LEMMA InitIInv == Init => IInv
<1> SUFFICES ASSUME Init PROVE IInv
    OBVIOUS
<1> USE SiteAssumption, AttemptsAssumption
<1>1. TypeOK
    BY DEF Init, TypeOK, Idle, Delivery, Phases, AccountPhases, NoRecord, Record, VpnAccount, Account, Passwords, Never
<1>2. AtWork /\ AcceptsAnswered /\ AcknowledgedIsAnswered /\ RunsUnfinished /\ CountsOK
    BY DEF Init, AtWork, AcceptsAnswered, AcknowledgedIsAnswered, RunsUnfinished, CountsOK, Idle, AccountPhases
<1> QED
    BY <1>1, <1>2 DEF IInv

----------------------------------------------------------------------------
(* The steps.  AtHand: what a step of a delivery refers to exists.         *)

LEMMA AtHand ==
    ASSUME IInv, worker.phase # "idle"
    PROVE  /\ worker.message \in Messages
           /\ job \in Jobs
           /\ task \in Tasks
           /\ student \in Students
           /\ Password \in Passwords
           /\ worker.left # <<>> => host \in Hosts /\ Tail(worker.left) \in Seq(Hosts)
<1>1. worker.message \in Messages
    BY DEF IInv, AtWork, Idle
<1>2. job \in Jobs /\ task \in Tasks
    BY <1>1, SiteAssumption DEF job, task
<1>3. student \in Students
    BY <1>2 DEF student, Tasks
<1>4. Password \in Passwords
    BY <1>1 DEF Password, Passwords, IInv, TypeOK
<1>5. worker.left # <<>> => host \in Hosts /\ Tail(worker.left) \in Seq(Hosts)
    BY DEF host, IInv, TypeOK, Delivery
<1> QED
    BY <1>1, <1>2, <1>3, <1>4, <1>5

\* A step that leaves the broker, the store and the results alone, and stays within the
\* steps that change accounts.
LEMMA AccountStep ==
    ASSUME IInv, TypeOK', worker.phase \in AccountPhases,
           UNCHANGED <<broker, store, results>>,
           worker'.message = worker.message,
           worker'.phase \in AccountPhases,
           worker'.phase \in {"password", "unlock"} => worker'.left # <<>>
    PROVE  IInv'
<1>1. worker.message \in Messages
    BY AtHand DEF AccountPhases
<1>2. AtWork'
    BY <1>1 DEF AtWork, AccountPhases
<1>3. AcceptsAnswered' /\ AcknowledgedIsAnswered'
    BY DEF IInv, AcceptsAnswered, AcknowledgedIsAnswered, Answered, broker, AccountPhases
<1>4. RunsUnfinished'
    BY DEF IInv, RunsUnfinished, job, broker
<1>5. CountsOK'
    BY DEF IInv, CountsOK, broker
<1> QED
    BY <1>2, <1>3, <1>4, <1>5 DEF IInv

\* An account of the VPN or of a host may change to another of its type.
LEMMA VpnTyped ==
    ASSUME IInv, worker.phase # "idle", NEW v \in VpnAccount, SetVpn(v)
    PROVE  vpn' \in [Students -> VpnAccount]
BY AtHand DEF SetVpn, IInv, TypeOK

LEMMA AccountTyped ==
    ASSUME IInv, worker.phase # "idle", worker.left # <<>>, NEW a \in Account, SetAccount(a)
    PROVE  account' \in [Students -> [Hosts -> Account]]
BY AtHand DEF SetAccount, IInv, TypeOK

LEMMA VpnStep ==
    ASSUME IInv,
           \/ CreateVpn \/ KeepVpn \/ ResetVpnPassword \/ EnableVpn
           \/ SetVpnExpiration \/ DisableVpn \/ ExtendVpn
    PROVE  IInv'
<1> DEFINE v == vpn[student]
<1>1. worker.phase \in AccountPhases /\ worker.phase # "idle"
    BY DEF CreateVpn, KeepVpn, ResetVpnPassword, ResetsVpn, EnableVpn, SetVpnExpiration, DisableVpn, ExtendVpn, AccountPhases
<1>2. v \in VpnAccount /\ task.end \in 0..Never /\ Password \in Passwords
    BY <1>1, AtHand, SiteAssumption DEF IInv, TypeOK, Tasks, Never
<1>3. \E w \in VpnAccount : SetVpn(w)
    <2>1. CASE CreateVpn
        <3> DEFINE w == [exists |-> TRUE, disabled |-> FALSE, expires |-> task.end, pw |-> Password, mine |-> TRUE]
        <3>1. w \in VpnAccount /\ SetVpn(w)
            BY <1>2, <2>1 DEF CreateVpn, VpnAccount
        <3> QED
            BY <3>1
    <2>2. CASE KeepVpn
        <3> DEFINE w == [v EXCEPT !.expires = IF @ < task.end THEN task.end ELSE @]
        <3>1. w \in VpnAccount /\ SetVpn(w)
            BY <1>2, <2>2 DEF KeepVpn, VpnAccount
        <3> QED
            BY <3>1
    <2>3. CASE ResetVpnPassword
        <3> DEFINE w == [v EXCEPT !.pw = Password]
        <3>1. w \in VpnAccount /\ SetVpn(w)
            BY <1>2, <2>3 DEF ResetVpnPassword, VpnAccount
        <3> QED
            BY <3>1
    <2>4. CASE EnableVpn
        <3> DEFINE w == [v EXCEPT !.disabled = FALSE]
        <3>1. w \in VpnAccount /\ SetVpn(w)
            BY <1>2, <2>4 DEF EnableVpn, VpnAccount
        <3> QED
            BY <3>1
    <2>5. CASE SetVpnExpiration
        <3> DEFINE w == [v EXCEPT !.expires = task.end]
        <3>1. w \in VpnAccount /\ SetVpn(w)
            BY <1>2, <2>5 DEF SetVpnExpiration, VpnAccount
        <3> QED
            BY <3>1
    <2>6. CASE DisableVpn
        <3> DEFINE w == IF task.revokeVpn /\ v.exists THEN [v EXCEPT !.disabled = TRUE] ELSE v
        <3>1. w \in VpnAccount /\ SetVpn(w)
            BY <1>2, <2>6 DEF DisableVpn, VpnAccount
        <3> QED
            BY <3>1
    <2>7. CASE ExtendVpn
        <3> DEFINE w == IF MovesExpiration THEN [v EXCEPT !.expires = task.end] ELSE v
        <3>1. w \in VpnAccount /\ SetVpn(w)
            BY <1>2, <2>7 DEF ExtendVpn, VpnAccount
        <3> QED
            BY <3>1
    <2> QED
        BY <2>1, <2>2, <2>3, <2>4, <2>5, <2>6, <2>7
<1>4. vpn' \in [Students -> VpnAccount]
    BY <1>1, <1>3, VpnTyped
<1>5. \E phase \in AccountPhases \ {"password", "unlock"}, isNew \in BOOLEAN :
          worker' = [worker EXCEPT !.phase = phase, !.vpnIsNew = isNew]
    <2>1. CASE CreateVpn \/ SetVpnExpiration
        BY <2>1 DEF CreateVpn, SetVpnExpiration, AccountPhases
    <2>2. CASE KeepVpn \/ ResetVpnPassword \/ EnableVpn \/ DisableVpn \/ ExtendVpn
        <3>1. \E phase \in {"user", "enable", "expire", "finish"} : worker' = [worker EXCEPT !.phase = phase]
            BY <2>2 DEF KeepVpn, ResetVpnPassword, EnableVpn, DisableVpn, ExtendVpn, GoTo
        <3>2. \A phase : [worker EXCEPT !.phase = phase]
                           = [worker EXCEPT !.phase = phase, !.vpnIsNew = worker.vpnIsNew]
            BY DEF IInv, TypeOK, Delivery
        <3> QED
            BY <3>1, <3>2 DEF AccountPhases, IInv, TypeOK, Delivery
    <2> QED
        BY <2>1, <2>2
<1>6. UNCHANGED <<broker, store, account, inbox, results, today>>
    BY DEF CreateVpn, KeepVpn, ResetVpnPassword, EnableVpn, SetVpnExpiration, DisableVpn, ExtendVpn
<1>7. /\ worker' \in Delivery
      /\ worker'.message = worker.message
      /\ worker'.phase \in AccountPhases \ {"password", "unlock"}
    BY <1>5 DEF IInv, TypeOK, Delivery, Phases
<1>8. TypeOK'
    BY <1>4, <1>6, <1>7 DEF IInv, TypeOK, broker
<1> QED
    BY <1>1, <1>6, <1>7, <1>8, AccountStep

LEMMA HostStep ==
    ASSUME IInv, EnsureUser \/ SetUserPassword \/ UnlockUser \/ SetUpHue \/ LockUser
    PROVE  IInv'
<1> DEFINE a == account[student][host]
<1>1. worker.phase \in AccountPhases /\ worker.phase # "idle" /\ worker.left # <<>>
    BY DEF EnsureUser, SetUserPassword, UnlockUser, SetUpHue, LockUser, AccountPhases, IInv, AtWork
<1>2. a \in Account /\ Password \in Passwords /\ Tail(worker.left) \in Seq(Hosts)
    BY <1>1, AtHand DEF IInv, TypeOK
<1>3. \E b \in Account : SetAccount(b)
    <2>1. CASE EnsureUser
        <3> DEFINE b == IF a.exists THEN a
                        ELSE [exists |-> TRUE, open |-> TRUE, pw |-> NoPassword, mine |-> TRUE]
        <3>1. b \in Account /\ SetAccount(b)
            BY <1>2, <2>1 DEF EnsureUser, Account, Passwords
        <3> QED
            BY <3>1
    <2>2. CASE SetUserPassword
        <3> DEFINE b == [a EXCEPT !.pw = Password]
        <3>1. b \in Account /\ SetAccount(b)
            BY <1>2, <2>2 DEF SetUserPassword, Account
        <3> QED
            BY <3>1
    <2>3. CASE UnlockUser
        <3> DEFINE b == [a EXCEPT !.open = TRUE]
        <3>1. b \in Account /\ SetAccount(b)
            BY <1>2, <2>3 DEF UnlockUser, Account
        <3> QED
            BY <3>1
    <2>4. CASE SetUpHue
        <3> DEFINE b == [exists |-> TRUE, open |-> TRUE, pw |-> Password, mine |-> a.mine]
        <3>1. b \in Account /\ SetAccount(b)
            BY <1>2, <2>4 DEF SetUpHue, Account
        <3> QED
            BY <3>1
    <2>5. CASE LockUser
        <3> DEFINE b == [a EXCEPT !.open = FALSE]
        <3>1. b \in Account /\ SetAccount(b)
            BY <1>2, <2>5 DEF LockUser, Account
        <3> QED
            BY <3>1
    <2> QED
        BY <2>1, <2>2, <2>3, <2>4, <2>5
<1>4. account' \in [Students -> [Hosts -> Account]]
    BY <1>1, <1>3, AccountTyped
<1>5. /\ worker' \in Delivery
      /\ worker'.message = worker.message
      /\ worker'.phase \in AccountPhases
      /\ worker'.phase \in {"password", "unlock"} => worker'.left # <<>>
    <2>1. CASE EnsureUser \/ SetUserPassword
        BY <1>1, <2>1 DEF EnsureUser, SetUserPassword, GoTo, IInv, TypeOK, Delivery, Phases, AccountPhases
    <2>2. CASE UnlockUser \/ SetUpHue \/ LockUser
        BY <1>2, <2>2 DEF UnlockUser, SetUpHue, LockUser, NextHost, IInv, TypeOK, Delivery, Phases, AccountPhases
    <2> QED
        BY <2>1, <2>2
<1>6. UNCHANGED <<broker, store, vpn, inbox, results, today>>
    BY DEF EnsureUser, SetUserPassword, UnlockUser, SetUpHue, LockUser
<1>7. TypeOK'
    BY <1>4, <1>5, <1>6 DEF IInv, TypeOK, broker
<1> QED
    BY <1>1, <1>5, <1>6, <1>7, AccountStep

LEMMA MailStep ==
    ASSUME IInv, SendEmails
    PROVE  IInv'
<1>1. worker.phase \in AccountPhases /\ worker.phase # "idle"
    BY DEF SendEmails, AccountPhases
<1>2. inbox' \in [Students -> SUBSET [pw : Passwords, vpn : BOOLEAN]]
    BY <1>1, AtHand DEF SendEmails, IInv, TypeOK, Delivery
<1>3. /\ worker' \in Delivery
      /\ worker'.message = worker.message
      /\ worker'.phase = "finish"
    BY DEF SendEmails, GoTo, IInv, TypeOK, Delivery, Phases, AccountPhases
<1>4. TypeOK'
    BY <1>2, <1>3 DEF SendEmails, IInv, TypeOK, broker
<1> QED
    BY <1>1, <1>3, <1>4, AccountStep DEF SendEmails, AccountPhases

\* A step that writes the store for the job at hand.
LEMMA StoreStep ==
    ASSUME IInv, SaveProgress \/ Finish \/ StoreFailure
    PROVE  IInv'
<1>1. worker.phase # "idle" /\ worker.message \in Messages /\ job \in Jobs
    BY AtHand DEF SaveProgress, Finish, StoreFailure
<1>2. store' \in [Jobs -> Record]
    <2>1. \E rec \in Record : store' = [store EXCEPT ![job] = rec]
        <3>1. [status |-> "in_progress", vpnIsNew |-> TRUE, ok |-> FALSE] \in Record
            BY DEF Record
        <3>2. [status |-> "done", vpnIsNew |-> FALSE, ok |-> TRUE] \in Record
            BY DEF Record
        <3>3. [status |-> "done", vpnIsNew |-> FALSE, ok |-> FALSE] \in Record
            BY DEF Record
        <3> QED
            BY <3>1, <3>2, <3>3 DEF SaveProgress, Finish, StoreFailure
    <2>2. store \in [Jobs -> Record]
        BY DEF IInv, TypeOK
    <2> QED
        BY <1>1, <2>1, <2>2
<1>3. /\ worker' \in Delivery
      /\ worker'.message = worker.message
      /\ worker'.phase \in {"user", "send", "sendFailed"}
    BY DEF SaveProgress, Finish, StoreFailure, GoTo, IInv, TypeOK, Delivery, Phases, AccountPhases
<1>3a. worker'.phase = "user" => store'[job].status = "in_progress"
    <2>1. CASE SaveProgress
        BY <1>1, <2>1 DEF SaveProgress, IInv, TypeOK
    <2>2. CASE Finish \/ StoreFailure
        <3>1. worker'.phase # "user"
            BY <2>2 DEF Finish, StoreFailure, GoTo, IInv, TypeOK, Delivery
        <3> QED
            BY <3>1
    <2> QED
        BY <2>1, <2>2
<1>3b. job' = job
    BY <1>3 DEF job
<1>4. UNCHANGED <<broker, systems, results, today>>
    BY DEF SaveProgress, Finish, StoreFailure
<1>5. TypeOK'
    BY <1>2, <1>3, <1>4 DEF IInv, TypeOK, broker, systems
<1>6. AtWork' /\ AcceptsAnswered' /\ RunsUnfinished'
    <2>1. AtWork' /\ AcceptsAnswered'
        BY <1>1, <1>3 DEF AtWork, AcceptsAnswered
    <2>2. RunsUnfinished'
        BY <1>3, <1>3a, <1>3b DEF RunsUnfinished, AccountPhases
    <2> QED
        BY <2>1, <2>2
<1>7. AcknowledgedIsAnswered' /\ CountsOK'
    BY <1>4 DEF IInv, AcknowledgedIsAnswered, Answered, CountsOK, broker
<1> QED
    BY <1>5, <1>6, <1>7 DEF IInv

\* The message leaves the worker uncounted: acknowledged once its job is answered.
LEMMA AcceptStep ==
    ASSUME IInv, Accept
    PROVE  IInv'
<1>1. worker.phase # "idle" /\ worker.message \in Messages /\ Answered(job)
    BY AtHand DEF Accept, IInv, AcceptsAnswered
<1>2. TypeOK'
    BY <1>1, SiteAssumption DEF Accept, IInv, TypeOK, Idle, Delivery, Phases, systems
<1>3. AtWork' /\ AcceptsAnswered' /\ RunsUnfinished'
    BY DEF Accept, Idle, AtWork, AcceptsAnswered, RunsUnfinished, AccountPhases
<1>4. AcknowledgedIsAnswered'
    BY <1>1 DEF Accept, IInv, TypeOK, AcknowledgedIsAnswered, Answered, job
<1>5. CountsOK'
    BY <1>1 DEF Accept, IInv, TypeOK, CountsOK
<1> QED
    BY <1>2, <1>3, <1>4, <1>5 DEF IInv

\* The message goes back to the broker: only a failure of the job before its last attempt
\* leaves no outage.
LEMMA ReleaseStep ==
    ASSUME IInv, worker.phase # "idle", Release(worker.message),
           \/ Outage(worker.message)
           \/ ~GivesUp /\ UNCHANGED outages,
           results' \in {results, results \union {Result}},
           UNCHANGED <<store, systems, today>>
    PROVE  IInv'
<1> DEFINE m == worker.message
<1> USE SiteAssumption, AttemptsAssumption
<1>1. m \in Messages /\ job \in Jobs /\ queue[m] = "taken"
    BY AtHand DEF IInv, TypeOK
<1>2. results' \subseteq [job : Jobs, ok : BOOLEAN] /\ results \subseteq results'
    BY <1>1 DEF Result, IInv, TypeOK, Record
<1>3. /\ deliveries[m] \in Nat /\ outages[m] \in Nat
      /\ deliveries[m] < MaxDeliveries /\ outages[m] <= deliveries[m]
    BY <1>1 DEF IInv, TypeOK, CountsOK
<1>4. /\ deliveries' \in [Messages -> 0..MaxDeliveries]
      /\ outages' \in [Messages -> 0..MaxDeliveries]
    <2>1. /\ deliveries \in [Messages -> 0..MaxDeliveries]
          /\ outages \in [Messages -> 0..MaxDeliveries]
        BY DEF IInv, TypeOK
    <2>2. /\ deliveries[m] + 1 \in 0..MaxDeliveries
          /\ outages[m] + 1 \in 0..MaxDeliveries
        BY <1>3
    <2>3. deliveries' = [deliveries EXCEPT ![m] = deliveries[m] + 1]
        BY DEF Release
    <2>4. outages' \in {outages, [outages EXCEPT ![m] = outages[m] + 1]}
        BY DEF Outage
    <2> QED
        BY <1>1, <2>1, <2>2, <2>3, <2>4
<1>5. /\ queue' \in [Messages -> {"unsent", "queued", "taken", "acked", "dead", "refused"}]
      /\ \A n \in Messages : n # m => queue'[n] = queue[n]
      /\ queue'[m] = IF deliveries[m] + 1 < MaxDeliveries THEN "queued" ELSE "dead"
      /\ worker' = Idle
    BY <1>1 DEF Release, IInv, TypeOK
<1>6. \A n \in Messages : queue'[n] = "taken" <=> worker'.message = n
    BY <1>1, <1>5 DEF Idle, IInv, TypeOK
<1>7. TypeOK'
    BY <1>2, <1>4, <1>5, <1>6 DEF IInv, TypeOK, Idle, Delivery, Phases, systems
<1>8. AtWork' /\ AcceptsAnswered' /\ RunsUnfinished'
    BY <1>5 DEF Idle, AtWork, AcceptsAnswered, RunsUnfinished, AccountPhases
<1>9. AcknowledgedIsAnswered'
    BY <1>1, <1>2, <1>5 DEF IInv, AcknowledgedIsAnswered, Answered
<1>10. CountsOK'
    <2> SUFFICES ASSUME NEW n \in Messages
                 PROVE  /\ outages'[n] <= deliveries'[n]
                        /\ deliveries'[n] <= outages'[n] + MaxAttempts - 1
                        /\ queue'[n] \in {"queued", "taken"} => deliveries'[n] < MaxDeliveries
                        /\ queue'[n] = "dead" => deliveries'[n] = MaxDeliveries
        BY DEF CountsOK
    <2>1. CASE n # m
        BY <1>1, <1>5, <2>1 DEF Release, Outage, IInv, TypeOK, CountsOK
    <2>2. CASE n = m
        <3>1. deliveries'[m] = deliveries[m] + 1
            BY <1>1 DEF Release, IInv, TypeOK
        <3>2. \/ outages'[m] = outages[m] + 1
              \/ outages'[m] = outages[m] /\ deliveries[m] + 1 < MaxAttempts
            BY <1>1, <1>3 DEF Outage, GivesUp, Attempt, IInv, TypeOK
        <3>3. deliveries[m] <= outages[m] + MaxAttempts - 1
            BY <1>1 DEF IInv, CountsOK
        <3> QED
            BY <1>3, <1>5, <2>2, <3>1, <3>2, <3>3
    <2> QED
        BY <2>1, <2>2
<1> QED
    BY <1>7, <1>8, <1>9, <1>10 DEF IInv

\* The delivery ends in an answer: nothing moves but the worker's phase and, when a result
\* is sent, the results.
LEMMA AnswerStep ==
    ASSUME IInv, worker.phase # "idle",
           NEW phase \in {"fail", "accept"}, GoTo(phase),
           results' \in {results, results \union {Result}},
           phase = "accept" => results' = results \union {Result},
           UNCHANGED <<broker, store, systems, today>>
    PROVE  IInv'
<1>1. worker.message \in Messages /\ job \in Jobs
    BY AtHand
<1>2. /\ results' \subseteq [job : Jobs, ok : BOOLEAN] /\ results \subseteq results'
      /\ phase = "accept" => \E r \in results' : r.job = job
    <2>1. Result \in [job : Jobs, ok : BOOLEAN] /\ Result.job = job
        BY <1>1 DEF Result, IInv, TypeOK, Record
    <2>2. results \subseteq [job : Jobs, ok : BOOLEAN]
        BY DEF IInv, TypeOK
    <2> QED
        BY <2>1, <2>2
<1>3. /\ worker' \in Delivery
      /\ worker'.message = worker.message
      /\ worker'.phase = phase
    BY DEF GoTo, IInv, TypeOK, Delivery, Phases
<1>4. TypeOK'
    BY <1>2, <1>3 DEF IInv, TypeOK, broker, systems
<1>5. AtWork' /\ AcceptsAnswered' /\ RunsUnfinished'
    BY <1>1, <1>2, <1>3 DEF AtWork, AcceptsAnswered, Answered, job, RunsUnfinished, AccountPhases
<1>6. AcknowledgedIsAnswered' /\ CountsOK'
    BY <1>2 DEF IInv, AcknowledgedIsAnswered, Answered, CountsOK, broker
<1> QED
    BY <1>4, <1>5, <1>6 DEF IInv

LEMMA TakeStep ==
    ASSUME IInv, NEW m \in Messages, Take(m)
    PROVE  IInv'
<1> DEFINE j == JobOf[m]
<1>1. j \in Jobs /\ Task[j] \in Tasks
    BY SiteAssumption
<1>2. /\ FirstPhase(j) \in {"resend", "fail", "vpn", "lock", "extend"}
      /\ store[j].status = "done" => FirstPhase(j) = "resend"
    BY <1>1 DEF FirstPhase, Start, Tasks
<1>3. ProgressOf(j) \in BOOLEAN /\ Task[j].hosts \in Seq(Hosts)
    BY <1>1 DEF ProgressOf, Tasks, IInv, TypeOK, Record
<1>4. /\ worker' \in Delivery
      /\ worker'.message = m
      /\ worker'.phase = FirstPhase(j)
    BY <1>2, <1>3 DEF Take, Delivery, Phases, AccountPhases
<1>5. /\ queue' \in [Messages -> {"unsent", "queued", "taken", "acked", "dead", "refused"}]
      /\ \A n \in Messages : n # m => queue'[n] = queue[n]
      /\ queue[m] = "queued" /\ queue'[m] = "taken"
    BY DEF Take, IInv, TypeOK
<1>6. \A n \in Messages : queue'[n] = "taken" <=> worker'.message = n
    BY <1>4, <1>5, SiteAssumption DEF Take, Idle, IInv, TypeOK
<1>7. TypeOK'
    BY <1>4, <1>5, <1>6 DEF Take, IInv, TypeOK, systems
<1>8. AtWork' /\ AcceptsAnswered' /\ RunsUnfinished'
    <2>1. job' = j /\ store' = store
        BY <1>4 DEF Take, job
    <2>2. AtWork' /\ AcceptsAnswered'
        BY <1>2, <1>4 DEF AtWork, AcceptsAnswered
    <2>3. RunsUnfinished'
        BY <1>2, <1>4, <2>1 DEF RunsUnfinished, AccountPhases
    <2> QED
        BY <2>2, <2>3
<1>9. AcknowledgedIsAnswered' /\ CountsOK'
    BY <1>5 DEF Take, IInv, AcknowledgedIsAnswered, Answered, CountsOK
<1> QED
    BY <1>7, <1>8, <1>9 DEF IInv

LEMMA RefuseStep ==
    ASSUME IInv, NEW m \in Messages, RefuseExpired(m)
    PROVE  IInv'
<1>1. /\ queue' \in [Messages -> {"unsent", "queued", "taken", "acked", "dead", "refused"}]
      /\ \A n \in Messages : n # m => queue'[n] = queue[n]
      /\ queue[m] = "queued" /\ queue'[m] = "refused"
    BY DEF RefuseExpired, IInv, TypeOK
<1>2. TypeOK'
    BY <1>1 DEF RefuseExpired, IInv, TypeOK, systems
<1>3. AtWork' /\ AcceptsAnswered' /\ RunsUnfinished'
    BY DEF RefuseExpired, Idle, AtWork, AcceptsAnswered, RunsUnfinished, AccountPhases
<1>4. AcknowledgedIsAnswered' /\ CountsOK'
    BY <1>1 DEF RefuseExpired, IInv, AcknowledgedIsAnswered, Answered, CountsOK
<1> QED
    BY <1>2, <1>3, <1>4 DEF IInv

----------------------------------------------------------------------------
(* The theorems.                                                           *)

LEMMA NextIInv == IInv /\ [Next]_vars => IInv'
<1> SUFFICES ASSUME IInv, [Next]_vars PROVE IInv'
    OBVIOUS
<1>1. ASSUME NEW m \in Messages, RefuseExpired(m) \/ Take(m) PROVE IInv'
    BY <1>1, RefuseStep, TakeStep
<1>2. CASE CreateStep
    BY <1>2, VpnStep, StoreStep, HostStep, MailStep DEF CreateStep
<1>3. CASE RevokeStep \/ ExtendVpn
    BY <1>3, VpnStep, HostStep DEF RevokeStep
<1>4. CASE Finish \/ StoreFailure
    BY <1>4, StoreStep
<1>5. CASE SendResult
    BY <1>5, AnswerStep DEF SendResult, Sending
<1>6. CASE Accept
    BY <1>6, AcceptStep
<1>7. CASE RejectForeign
    <2>1. worker.phase # "idle"
        BY <1>7 DEF RejectForeign, Foreign, ResetsVpn
    <2> QED
        BY <1>7, <2>1, AnswerStep DEF RejectForeign
<1>8. CASE StepFails
    <2>1. worker.phase # "idle"
        BY <1>8 DEF StepFails, AccountPhases
    <2>2. CASE GivesUp /\ GoTo("fail") /\ UNCHANGED broker
        BY <1>8, <2>1, <2>2, AnswerStep DEF StepFails
    <2>3. CASE ~GivesUp /\ Release(worker.message) /\ UNCHANGED outages
        BY <1>8, <2>1, <2>3, ReleaseStep DEF StepFails
    <2> QED
        BY <1>8, <2>2, <2>3 DEF StepFails
<1>9. CASE SendFails
    <2>1. worker.phase # "idle"
        BY <1>9 DEF SendFails, Sending
    <2>2. CASE GoTo("fail") /\ UNCHANGED broker
        BY <1>9, <2>1, <2>2, AnswerStep DEF SendFails
    <2>3. CASE Release(worker.message) /\ Outage(worker.message)
        BY <1>9, <2>1, <2>3, ReleaseStep DEF SendFails
    <2> QED
        BY <1>9, <2>2, <2>3 DEF SendFails
<1>10. CASE Crash
    <2>1. worker.phase # "idle"
        BY <1>10 DEF Crash, IInv, AtWork
    <2> QED
        BY <1>10, <2>1, ReleaseStep DEF Crash
<1>11. CASE NextDay
    <2>1. today' \in 1..LastDay
        BY <1>11, SiteAssumption DEF NextDay, IInv, TypeOK
    <2> QED
        BY <1>11, <2>1 DEF NextDay, IInv, TypeOK, AtWork, AcceptsAnswered, AcknowledgedIsAnswered,
            RunsUnfinished, CountsOK, Answered, job, broker, systems
<1>12. CASE UNCHANGED vars
    BY <1>12 DEF vars, IInv, TypeOK, AtWork, AcceptsAnswered, AcknowledgedIsAnswered,
        RunsUnfinished, CountsOK, Answered, job
<1> QED
    BY <1>1, <1>2, <1>3, <1>4, <1>5, <1>6, <1>7, <1>8, <1>9, <1>10, <1>11, <1>12
    DEF Next, WorkerStep, EndStep

\* The invariant of the worker, the job store and the broker's counts.
THEOREM Invariant == Spec => []IInv
BY InitIInv, NextIInv, PTL DEF Spec

\* The variables keep their types and one message is handled at a time, for any number of
\* jobs, messages and hosts.
THEOREM TypeCorrect == Spec => []TypeOK
<1>1. IInv => TypeOK
    BY DEF IInv
<1> QED
    BY <1>1, Invariant, PTL

\* An acknowledged message has been answered (worker.js:10).
THEOREM Acknowledged == Spec => []AcknowledgedIsAnswered
<1>1. IInv => AcknowledgedIsAnswered
    BY DEF IInv
<1> QED
    BY <1>1, Invariant, PTL

\* With WORKER_MAX_ATTEMPTS below the broker's limit, whatever the two are, only outages of
\* the worker or of the result queue dead-letter a message (acc-prov-vm/README.md:239).
THEOREM DeadLetters == Spec => []DeadLetterIsOutage
<1>1. IInv => DeadLetterIsOutage
    <2> SUFFICES ASSUME IInv, NEW m \in Messages, queue[m] = "dead"
                 PROVE  outages[m] > MaxDeliveries - MaxAttempts
        BY DEF DeadLetterIsOutage
    <2>1. deliveries[m] = MaxDeliveries /\ deliveries[m] <= outages[m] + MaxAttempts - 1
        BY DEF IInv, CountsOK
    <2>2. outages[m] \in Nat
        BY DEF IInv, TypeOK
    <2> QED
        BY <2>1, <2>2, AttemptsAssumption
<1> QED
    BY <1>1, Invariant, PTL

\* The accounts and the mail change only in the steps of a job being run.
LEMMA OnlyRunsChangeAccounts ==
    ASSUME [Next]_vars, <<vpn', account', inbox'>> # systems
    PROVE  worker.phase \in AccountPhases
<1>1. ~UNCHANGED systems
    BY DEF systems
<1>2. CreateStep \/ RevokeStep \/ ExtendVpn
    BY <1>1 DEF Next, vars, systems, RefuseExpired, Take, WorkerStep, EndStep, Finish, StoreFailure,
        SendResult, Accept, RejectForeign, StepFails, SendFails, Crash, NextDay
<1> QED
    BY <1>2 DEF CreateStep, RevokeStep, ExtendVpn, CreateVpn, KeepVpn, ResetVpnPassword, ResetsVpn,
        EnableVpn, SetVpnExpiration, SaveProgress, EnsureUser, SetUserPassword, UnlockUser, SetUpHue,
        SendEmails, LockUser, DisableVpn, AccountPhases

\* A job with a stored outcome changes no account and mails nothing, however often its message
\* is delivered (jobstore.js:1-3).
THEOREM NeverRunsAgain == Spec => FinishedNeverRunsAgain
<1>1. IInv /\ [Next]_vars => [<<vpn', account', inbox'>> # systems => store[job].status # "done"]_vars
    BY OnlyRunsChangeAccounts DEF IInv, RunsUnfinished
<1> QED
    BY <1>1, Invariant, PTL DEF Spec, FinishedNeverRunsAgain
----------------------------------------------------------------------------
(* What a delivery has done so far.                                        *)

\* Open, with the password of this delivery.
Usable(h) == account[student][h].exists /\ account[student][h].open /\ account[student][h].pw = Password

Closed(h) == ~account[student][h].open

VpnPhases  == {"vpn", "enable", "expire", "save"}
HostPhases == {"user", "password", "unlock"}
Finishes(action) == worker.phase = "finish" /\ task.action = action

\* Each kind of job has its own steps.
ActionFits ==
    /\ worker.phase \in VpnPhases \union HostPhases => task.action = "CREATE"
    /\ worker.phase = "lock" => task.action = "REVOKE"
    /\ worker.phase = "extend" => task.action = "EXTEND"

\* A set-up: the hosts that are not left are usable, and the host at hand is on its way.
HostsSetUp ==
    /\ worker.phase \in VpnPhases => worker.left = task.hosts
    /\ worker.phase \in HostPhases =>
          \A h \in ToSet(task.hosts) : h \in ToSet(worker.left) \/ Usable(h)
    /\ worker.phase \in {"password", "unlock"} => account[student][host].exists
    /\ worker.phase = "unlock" => account[student][host].pw = Password
    /\ Finishes("CREATE") => /\ \A h \in ToSet(task.hosts) : Usable(h)
                             /\ [pw |-> Password, vpn |-> worker.vpnIsNew] \in inbox[student]

\* A removal: the hosts that are not left are closed.
HostsClosed ==
    /\ worker.phase = "lock" => \A h \in ToSet(task.hosts) : h \in ToSet(worker.left) \/ Closed(h)
    /\ Finishes("REVOKE") => /\ \A h \in ToSet(task.hosts) : Closed(h)
                             /\ task.revokeVpn => ~vpn[student].exists \/ vpn[student].disabled

\* The VPN account a set-up made new has the password of this delivery, and a job whose
\* progress says it did makes it new again.
VpnSetUp ==
    /\ \A j \in Jobs : store[j].vpnIsNew => store[j].status = "in_progress"
    /\ worker.phase = "vpn" => ~worker.vpnIsNew /\ (store[job].vpnIsNew => worker.forceNew)
    /\ worker.phase \in VpnPhases \ {"vpn"} => vpn[student].pw = Password
    /\ worker.phase = "save" => worker.vpnIsNew
    /\ worker.phase \in HostPhases \/ Finishes("CREATE") =>
          /\ worker.vpnIsNew => vpn[student].pw = Password
          /\ store[job].vpnIsNew => worker.vpnIsNew

PInv == ActionFits /\ HostsSetUp /\ HostsClosed /\ VpnSetUp

LEMMA HeadAndTail ==
    ASSUME NEW s \in Seq(Hosts), s # <<>>
    PROVE  ToSet(s) = {Head(s)} \union ToSet(Tail(s))
<1>1. Len(s) \in Nat \ {0} /\ Len(Tail(s)) = Len(s) - 1
    OBVIOUS
<1>2. \A i \in 1..Len(Tail(s)) : Tail(s)[i] = s[i + 1]
    BY <1>1
<1>3. \A i \in 1..Len(s) : i = 1 \/ (i - 1 \in 1..Len(Tail(s)) /\ s[i] = Tail(s)[i - 1])
    BY <1>1, <1>2
<1>4. s[1] = Head(s) /\ \A i \in 1..Len(Tail(s)) : i + 1 \in 1..Len(s)
    BY <1>1
<1>5. \A x : x \in ToSet(s) <=> \E i \in 1..Len(s) : s[i] = x
    BY DEF ToSet
<1>6. \A x : x \in ToSet(Tail(s)) <=> \E i \in 1..Len(Tail(s)) : Tail(s)[i] = x
    <2>1. DOMAIN Tail(s) = 1..Len(Tail(s))
        OBVIOUS
    <2> QED
        BY <2>1 DEF ToSet
<1>7. ToSet(s) \subseteq {Head(s)} \union ToSet(Tail(s))
    BY <1>3, <1>4, <1>5, <1>6
<1>8. {Head(s)} \union ToSet(Tail(s)) \subseteq ToSet(s)
    BY <1>1, <1>2, <1>4, <1>5, <1>6
<1> QED
    BY <1>7, <1>8

\* A step of the same delivery.
LEMMA SameDelivery ==
    ASSUME UNCHANGED broker, worker'.message = worker.message
    PROVE  job' = job /\ task' = task /\ student' = student /\ Password' = Password
BY DEF broker, job, task, student, Password

LEMMA GoToStep ==
    ASSUME TypeOK, NEW phase, GoTo(phase)
    PROVE  /\ worker'.phase = phase
           /\ worker'.message = worker.message
           /\ worker'.left = worker.left
           /\ worker'.vpnIsNew = worker.vpnIsNew
           /\ worker'.forceNew = worker.forceNew
BY DEF GoTo, TypeOK, Delivery

LEMMA NextHostStep ==
    ASSUME TypeOK, NEW phase, NextHost(phase)
    PROVE  /\ worker'.phase = phase
           /\ worker'.message = worker.message
           /\ worker'.left = Tail(worker.left)
           /\ worker'.vpnIsNew = worker.vpnIsNew
BY DEF NextHost, TypeOK, Delivery

\* What an account step changes is the student's account, of the VPN or of one host.
LEMMA OneVpn ==
    ASSUME IInv, worker.phase # "idle", NEW v, SetVpn(v)
    PROVE  vpn'[student] = v
BY AtHand DEF SetVpn, IInv, TypeOK

LEMMA OneAccount ==
    ASSUME IInv, worker.phase # "idle", worker.left # <<>>, NEW a, SetAccount(a)
    PROVE  /\ account'[student][host] = a
           /\ \A h \in Hosts \ {host} : account'[student][h] = account[student][h]
BY AtHand DEF SetAccount, IInv, TypeOK

LEMMA ItsHosts ==
    ASSUME IInv, worker.phase # "idle"
    PROVE  ToSet(task.hosts) \subseteq Hosts
BY AtHand DEF Tasks, ToSet

\* The steps that set the VPN account up come before the hosts.
LEMMA BeforeHosts ==
    ASSUME IInv, PInv, worker.phase \in VpnPhases, UNCHANGED <<broker, account, inbox>>,
           worker'.message = worker.message, worker'.left = worker.left,
           worker'.phase \in {"enable", "expire", "save", "user"},
           VpnSetUp'
    PROVE  PInv'
<1>1. job' = job /\ task' = task /\ student' = student
    BY SameDelivery
<1>2. task.action = "CREATE" /\ worker.left = task.hosts
    BY DEF PInv, ActionFits, HostsSetUp
<1>3. ActionFits' /\ HostsSetUp' /\ HostsClosed'
    BY <1>1, <1>2 DEF ActionFits, HostsSetUp, HostsClosed, Finishes, VpnPhases, HostPhases
<1> QED
    BY <1>3 DEF PInv

LEMMA VpnProgress ==
    ASSUME IInv, PInv, CreateVpn \/ KeepVpn \/ ResetVpnPassword \/ EnableVpn \/ SetVpnExpiration
    PROVE  PInv'
<1>1. worker.phase \in VpnPhases \ {"save"} /\ worker.phase # "idle" /\ TypeOK
    BY DEF CreateVpn, KeepVpn, ResetVpnPassword, ResetsVpn, EnableVpn, SetVpnExpiration, VpnPhases, IInv
<1>2. vpn[student] \in VpnAccount
    BY <1>1, AtHand DEF TypeOK
<1>3. UNCHANGED <<broker, store, account, inbox>>
    BY DEF CreateVpn, KeepVpn, ResetVpnPassword, EnableVpn, SetVpnExpiration
<1>4. worker'.message = worker.message /\ worker'.left = worker.left
    BY <1>1 DEF TypeOK, Delivery, GoTo, CreateVpn, KeepVpn, ResetVpnPassword, EnableVpn, SetVpnExpiration
<1>5. job' = job /\ task' = task /\ student' = student /\ Password' = Password
    BY <1>3, <1>4, SameDelivery
<1>6. ASSUME worker'.phase \in {"enable", "expire", "save"},
             vpn'[student].pw = Password, worker'.phase = "save" => worker'.vpnIsNew
      PROVE  PInv'
    <2>1. VpnSetUp'
        BY <1>3, <1>5, <1>6 DEF PInv, VpnSetUp, VpnPhases, HostPhases, Finishes
    <2> QED
        BY <1>1, <1>3, <1>4, <1>6, <2>1, BeforeHosts
<1>7. CASE CreateVpn
    <2>1. worker'.phase = "save" /\ worker'.vpnIsNew
        BY <1>1, <1>7 DEF CreateVpn, TypeOK, Delivery
    <2>2. vpn'[student].pw = Password
        BY <1>1, <1>7, OneVpn DEF CreateVpn
    <2> QED
        BY <1>6, <2>1, <2>2
<1>8. CASE KeepVpn
    <2>1. worker'.phase = "user" /\ worker'.vpnIsNew = worker.vpnIsNew
        BY <1>1, <1>8, GoToStep DEF KeepVpn
    <2>2. ~worker.vpnIsNew /\ ~store[job].vpnIsNew
        BY <1>8 DEF KeepVpn, PInv, VpnSetUp
    <2>3. VpnSetUp'
        BY <1>3, <1>5, <2>1, <2>2 DEF PInv, VpnSetUp, VpnPhases, HostPhases, Finishes
    <2> QED
        BY <1>1, <1>3, <1>4, <2>1, <2>3, BeforeHosts
<1>9. CASE ResetVpnPassword
    <2>1. worker'.phase = "enable"
        BY <1>1, <1>9, GoToStep DEF ResetVpnPassword
    <2>2. vpn'[student] = [vpn[student] EXCEPT !.pw = Password]
        BY <1>1, <1>9, OneVpn DEF ResetVpnPassword
    <2> QED
        BY <1>2, <1>6, <2>1, <2>2 DEF VpnAccount
<1>10. CASE EnableVpn
    <2>1. worker'.phase = "expire" /\ vpn[student].pw = Password
        BY <1>1, <1>10, GoToStep DEF EnableVpn, PInv, VpnSetUp, VpnPhases
    <2>2. vpn'[student] = [vpn[student] EXCEPT !.disabled = FALSE]
        BY <1>1, <1>10, OneVpn DEF EnableVpn
    <2> QED
        BY <1>2, <1>6, <2>1, <2>2 DEF VpnAccount
<1>11. CASE SetVpnExpiration
    <2>1. worker'.phase = "save" /\ worker'.vpnIsNew /\ vpn[student].pw = Password
        BY <1>1, <1>11 DEF SetVpnExpiration, PInv, VpnSetUp, VpnPhases, TypeOK, Delivery
    <2>2. vpn'[student] = [vpn[student] EXCEPT !.expires = task.end]
        BY <1>1, <1>11, OneVpn DEF SetVpnExpiration
    <2> QED
        BY <1>2, <1>6, <2>1, <2>2 DEF VpnAccount
<1> QED
    BY <1>7, <1>8, <1>9, <1>10, <1>11

LEMMA SaveKeepsProgress ==
    ASSUME IInv, PInv, SaveProgress
    PROVE  PInv'
<1>1. /\ worker.phase = "save" /\ worker.phase # "idle" /\ TypeOK /\ job \in Jobs
      /\ vpn[student].pw = Password /\ worker.vpnIsNew
    BY AtHand DEF SaveProgress, IInv, PInv, VpnSetUp, VpnPhases
<1>2. /\ worker'.phase = "user" /\ worker'.message = worker.message /\ worker'.left = worker.left
      /\ worker'.vpnIsNew
      /\ UNCHANGED <<broker, systems>>
    BY <1>1, GoToStep DEF SaveProgress
<1>3. job' = job /\ task' = task /\ student' = student /\ Password' = Password
    BY <1>2, SameDelivery
<1>4. \A j \in Jobs : store'[j] = IF j = job THEN [status |-> "in_progress", vpnIsNew |-> TRUE, ok |-> FALSE]
                                  ELSE store[j]
    BY <1>1 DEF SaveProgress, TypeOK
<1>5. VpnSetUp'
    BY <1>1, <1>2, <1>3, <1>4 DEF PInv, VpnSetUp, VpnPhases, HostPhases, Finishes, systems
<1> QED
    BY <1>1, <1>2, <1>5, BeforeHosts DEF VpnPhases, systems

\* A step of a set-up on the host at hand.
LEMMA HostProgress ==
    ASSUME IInv, PInv, EnsureUser \/ SetUserPassword \/ UnlockUser \/ SetUpHue
    PROVE  PInv'
<1> DEFINE a == account[student][host]
           b == account'[student][host]
<1>1. /\ worker.phase \in HostPhases /\ worker.phase # "idle" /\ worker.left # <<>>
      /\ TypeOK /\ worker.left \in Seq(Hosts)
    BY DEF EnsureUser, SetUserPassword, UnlockUser, SetUpHue, HostPhases, IInv, AtWork, TypeOK, Delivery
<1>2. a \in Account
    BY <1>1, AtHand DEF TypeOK
<1>3. UNCHANGED <<broker, store, vpn, inbox>>
    BY DEF EnsureUser, SetUserPassword, UnlockUser, SetUpHue
<1>4. /\ worker'.message = worker.message
      /\ worker'.vpnIsNew = worker.vpnIsNew
      /\ \/ worker'.phase \in {"password", "unlock"} /\ worker'.left = worker.left
            /\ b.exists /\ (worker'.phase = "unlock" => b.pw = Password)
         \/ worker'.phase = "user" /\ worker'.left = Tail(worker.left)
            /\ b.exists /\ b.open /\ b.pw = Password
    <2>1. CASE EnsureUser
        <3>1. b = IF a.exists THEN a ELSE [exists |-> TRUE, open |-> TRUE, pw |-> NoPassword, mine |-> TRUE]
            BY <1>1, <2>1, OneAccount DEF EnsureUser
        <3>2. b.exists
            BY <3>1
        <3> QED
            BY <1>1, <2>1, <3>2, GoToStep DEF EnsureUser
    <2>2. CASE SetUserPassword
        <3>1. b = [a EXCEPT !.pw = Password] /\ a.exists
            BY <1>1, <2>2, OneAccount DEF SetUserPassword, PInv, HostsSetUp
        <3>2. b.exists /\ b.pw = Password
            BY <1>2, <3>1 DEF Account
        <3> QED
            BY <1>1, <2>2, <3>2, GoToStep DEF SetUserPassword
    <2>3. CASE UnlockUser
        <3>1. b = [a EXCEPT !.open = TRUE] /\ a.exists /\ a.pw = Password
            BY <1>1, <2>3, OneAccount DEF UnlockUser, PInv, HostsSetUp
        <3>2. b.exists /\ b.open /\ b.pw = Password
            BY <1>2, <3>1 DEF Account
        <3> QED
            BY <1>1, <2>3, <3>2, NextHostStep DEF UnlockUser
    <2>4. CASE SetUpHue
        <3>1. b = [exists |-> TRUE, open |-> TRUE, pw |-> Password, mine |-> a.mine]
            BY <1>1, <2>4, OneAccount DEF SetUpHue
        <3> QED
            BY <1>1, <2>4, <3>1, NextHostStep DEF SetUpHue
    <2> QED
        BY <2>1, <2>2, <2>3, <2>4
<1>5. \A h \in Hosts \ {host} : account'[student][h] = account[student][h]
    <2>1. \E x : SetAccount(x)
        BY DEF EnsureUser, SetUserPassword, UnlockUser, SetUpHue
    <2> QED
        BY <1>1, <2>1, OneAccount
<1>6. job' = job /\ task' = task /\ student' = student /\ Password' = Password
    BY <1>3, <1>4, SameDelivery
<1>7. ToSet(worker.left) = {host} \union ToSet(Tail(worker.left)) /\ ToSet(task.hosts) \subseteq Hosts
    BY <1>1, HeadAndTail, ItsHosts DEF host
<1>8. worker'.phase \in HostPhases /\ task.action = "CREATE"
    BY <1>1, <1>4 DEF HostPhases, PInv, ActionFits
<1>9. HostsSetUp'
    <2>1. \A h \in ToSet(task.hosts) : h \in ToSet(worker.left) \/ Usable(h)
        BY <1>1 DEF PInv, HostsSetUp
    <2>2. ASSUME NEW h \in ToSet(task.hosts), h # host, Usable(h) PROVE Usable(h)'
        BY <1>5, <1>6, <1>7, <2>2 DEF Usable
    <2>3. CASE worker'.left = worker.left
        <3>1. host' = host
            BY <2>3 DEF host
        <3>2. \A h \in ToSet(task.hosts) : h \in ToSet(worker'.left) \/ Usable(h)'
            BY <1>7, <2>1, <2>2, <2>3
        <3> QED
            BY <1>4, <1>6, <1>8, <2>3, <3>1, <3>2 DEF HostsSetUp, VpnPhases, HostPhases, Finishes
    <2>4. CASE worker'.phase = "user" /\ worker'.left = Tail(worker.left) /\ b.exists /\ b.open /\ b.pw = Password
        <3>1. account'[student'][host].exists /\ account'[student'][host].open /\ account'[student'][host].pw = Password'
            BY <1>6, <2>4
        <3>2. \A h \in ToSet(task.hosts) : h \in ToSet(worker'.left) \/ Usable(h)'
            BY <1>7, <2>1, <2>2, <2>4, <3>1 DEF Usable
        <3> QED
            BY <1>6, <2>4, <3>2 DEF HostsSetUp, VpnPhases, HostPhases, Finishes
    <2> QED
        BY <1>4, <2>3, <2>4
<1>10. ActionFits' /\ HostsClosed' /\ VpnSetUp'
    BY <1>1, <1>3, <1>4, <1>6, <1>8 DEF PInv, ActionFits, HostsClosed, VpnSetUp, VpnPhases, HostPhases, Finishes
<1> QED
    BY <1>9, <1>10 DEF PInv

LEMMA MailProgress ==
    ASSUME IInv, PInv, SendEmails
    PROVE  PInv'
<1>1. /\ worker.phase = "user" /\ worker.phase # "idle" /\ worker.left = <<>> /\ TypeOK
      /\ UNCHANGED <<broker, store, vpn, account>>
    BY DEF SendEmails, IInv
<1>2. worker'.phase = "finish" /\ worker'.message = worker.message /\ worker'.vpnIsNew = worker.vpnIsNew
    BY <1>1, GoToStep DEF SendEmails
<1>3. job' = job /\ task' = task /\ student' = student /\ Password' = Password
    BY <1>1, <1>2, SameDelivery
<1>4. task.action = "CREATE" /\ [pw |-> Password, vpn |-> worker.vpnIsNew] \in inbox'[student]
    BY <1>1, AtHand DEF SendEmails, TypeOK, PInv, ActionFits, HostPhases
<1>5. \A h \in ToSet(task.hosts) : Usable(h) /\ Usable(h)'
    <2>1. ToSet(worker.left) = {}
        BY <1>1 DEF ToSet
    <2>2. \A h \in ToSet(task.hosts) : Usable(h)
        BY <1>1, <2>1 DEF PInv, HostsSetUp, HostPhases
    <2> QED
        BY <1>1, <1>3, <2>2 DEF Usable
<1>6. HostsSetUp'
    BY <1>2, <1>3, <1>4, <1>5 DEF HostsSetUp, VpnPhases, HostPhases, Finishes
<1>7. ActionFits' /\ HostsClosed' /\ VpnSetUp'
    BY <1>1, <1>2, <1>3, <1>4 DEF PInv, ActionFits, HostsClosed, VpnSetUp, VpnPhases, HostPhases, Finishes
<1> QED
    BY <1>6, <1>7 DEF PInv

\* A step of a removal: the host at hand is closed, and at the end the VPN account.
LEMMA RevokeProgress ==
    ASSUME IInv, PInv, RevokeStep
    PROVE  PInv'
<1>1. /\ worker.phase = "lock" /\ worker.phase # "idle" /\ TypeOK /\ worker.left \in Seq(Hosts)
      /\ task.action = "REVOKE"
      /\ UNCHANGED <<broker, store, inbox>>
    BY DEF RevokeStep, LockUser, DisableVpn, IInv, TypeOK, Delivery, PInv, ActionFits
<1>2. \A h \in ToSet(task.hosts) : h \in ToSet(worker.left) \/ Closed(h)
    BY <1>1 DEF PInv, HostsClosed
<1>3. CASE LockUser
    <2>1. worker.left # <<>>
        BY <1>3 DEF LockUser
    <2>2. worker'.phase = "lock" /\ worker'.message = worker.message /\ worker'.left = Tail(worker.left)
        BY <1>1, <1>3, NextHostStep DEF LockUser
    <2>3. job' = job /\ task' = task /\ student' = student
        BY <1>1, <2>2, SameDelivery
    <2>4. account[student][host] \in Account
        BY <1>1, <2>1, AtHand DEF TypeOK
    <2>5. /\ account'[student][host] = [account[student][host] EXCEPT !.open = FALSE]
          /\ \A h \in Hosts \ {host} : account'[student][h] = account[student][h]
        BY <1>1, <1>3, <2>1, OneAccount DEF LockUser
    <2>6. ~account'[student][host].open
        BY <2>4, <2>5 DEF Account
    <2>7. ToSet(worker.left) = {host} \union ToSet(Tail(worker.left)) /\ ToSet(task.hosts) \subseteq Hosts
        BY <1>1, <2>1, HeadAndTail, ItsHosts DEF host
    <2>8. \A h \in ToSet(task.hosts) : h \in ToSet(worker'.left) \/ Closed(h)'
        BY <1>2, <2>2, <2>3, <2>5, <2>6, <2>7 DEF Closed
    <2>9. ActionFits' /\ HostsSetUp' /\ HostsClosed' /\ VpnSetUp'
        BY <1>1, <2>2, <2>3, <2>8 DEF PInv, ActionFits, HostsSetUp, HostsClosed, VpnSetUp, VpnPhases, HostPhases, Finishes
    <2> QED
        BY <2>9 DEF PInv
<1>4. CASE DisableVpn
    <2> DEFINE v == IF task.revokeVpn /\ vpn[student].exists
                    THEN [vpn[student] EXCEPT !.disabled = TRUE] ELSE vpn[student]
    <2>1. worker'.phase = "finish" /\ worker'.message = worker.message /\ worker.left = <<>> /\ account' = account
        BY <1>1, <1>4, GoToStep DEF DisableVpn
    <2>2. job' = job /\ task' = task /\ student' = student
        BY <1>1, <2>1, SameDelivery
    <2>3. vpn'[student] = v /\ vpn[student] \in VpnAccount
        BY <1>1, <1>4, OneVpn, AtHand DEF DisableVpn, TypeOK
    <2>4. task.revokeVpn => ~vpn'[student].exists \/ vpn'[student].disabled
        BY <2>3 DEF VpnAccount
    <2>5. ToSet(worker.left) = {}
        BY <2>1 DEF ToSet
    <2>6. \A h \in ToSet(task.hosts) : Closed(h)'
        BY <1>2, <2>1, <2>2, <2>5 DEF Closed
    <2>7. ActionFits' /\ HostsSetUp' /\ HostsClosed' /\ VpnSetUp'
        BY <1>1, <2>1, <2>2, <2>4, <2>6 DEF PInv, ActionFits, HostsSetUp, HostsClosed, VpnSetUp, VpnPhases, HostPhases, Finishes
    <2> QED
        BY <2>7 DEF PInv
<1> QED
    BY <1>3, <1>4 DEF RevokeStep

LEMMA ExtendProgress ==
    ASSUME IInv, PInv, ExtendVpn
    PROVE  PInv'
<1>1. /\ worker.phase = "extend" /\ TypeOK /\ task.action = "EXTEND"
      /\ UNCHANGED <<broker, store, account, inbox>>
    BY DEF ExtendVpn, IInv, PInv, ActionFits
<1>2. worker'.phase = "finish" /\ worker'.message = worker.message
    BY <1>1, GoToStep DEF ExtendVpn
<1>3. job' = job /\ task' = task
    BY <1>1, <1>2, SameDelivery
<1> QED
    BY <1>1, <1>2, <1>3 DEF PInv, ActionFits, HostsSetUp, HostsClosed, VpnSetUp, VpnPhases, HostPhases, Finishes

\* A delivery that begins: it knows of the progress that was saved.
LEMMA TakeProgress ==
    ASSUME IInv, PInv, NEW m \in Messages, Take(m)
    PROVE  PInv'
<1> DEFINE j == JobOf[m]
<1>1. j \in Jobs /\ Task[j] \in Tasks /\ Task[j].action \in {"CREATE", "REVOKE", "EXTEND"}
    BY SiteAssumption DEF Tasks
<1>2. /\ worker'.phase = FirstPhase(j) /\ worker'.left = Task[j].hosts
      /\ ~worker'.vpnIsNew /\ worker'.forceNew = ProgressOf(j)
      /\ job' = j /\ task' = Task[j]
    BY DEF Take, job, task
<1>3. /\ FirstPhase(j) \in {"resend", "fail", "vpn", "lock", "extend"}
      /\ FirstPhase(j) = "vpn" => Task[j].action = "CREATE"
      /\ FirstPhase(j) = "lock" => Task[j].action = "REVOKE"
      /\ FirstPhase(j) = "extend" => Task[j].action = "EXTEND"
    BY <1>1 DEF FirstPhase, Start
<1>4. store' = store
    BY DEF Take
<1>5. ActionFits' /\ HostsSetUp' /\ HostsClosed'
    BY <1>2, <1>3 DEF ActionFits, HostsSetUp, HostsClosed, VpnPhases, HostPhases, Finishes
<1>6. VpnSetUp'
    BY <1>1, <1>2, <1>3, <1>4 DEF PInv, VpnSetUp, ProgressOf, VpnPhases, HostPhases, Finishes
<1> QED
    BY <1>5, <1>6 DEF PInv

\* Elsewhere the worker is not at a step of a job.
LEMMA NoProgress ==
    ASSUME worker'.phase \notin AccountPhases,
           \A j \in Jobs : store'[j].vpnIsNew => store'[j].status = "in_progress"
    PROVE  PInv'
BY DEF PInv, ActionFits, HostsSetUp, HostsClosed, VpnSetUp, VpnPhases, HostPhases, Finishes, AccountPhases

LEMMA NextPInv ==
    ASSUME IInv, PInv, [Next]_vars
    PROVE  PInv'
<1>0. TypeOK /\ \A j \in Jobs : store[j].vpnIsNew => store[j].status = "in_progress"
    BY DEF IInv, PInv, VpnSetUp
<1>1. ASSUME store' = store, worker'.phase \notin AccountPhases
      PROVE  PInv'
    BY <1>0, <1>1, NoProgress
<1>2. CASE CreateStep
    BY <1>2, VpnProgress, SaveKeepsProgress, HostProgress, MailProgress DEF CreateStep
<1>3. CASE RevokeStep \/ ExtendVpn
    BY <1>3, RevokeProgress, ExtendProgress
<1>4. CASE Finish \/ StoreFailure
    <2>1. worker'.phase \in {"send", "sendFailed"} /\ job \in Jobs
        BY <1>0, <1>4, GoToStep, AtHand DEF Finish, StoreFailure
    <2>2. \A j \in Jobs : store'[j].vpnIsNew => store'[j].status = "in_progress"
        BY <1>0, <1>4 DEF Finish, StoreFailure, TypeOK
    <2> QED
        BY <2>1, <2>2, NoProgress DEF AccountPhases
<1>5. CASE SendResult \/ Accept \/ RejectForeign
    <2>1. worker'.phase \in {"accept", "idle", "fail"} /\ store' = store
        BY <1>0, <1>5, GoToStep DEF SendResult, Accept, RejectForeign, Idle
    <2> QED
        BY <1>1, <2>1 DEF AccountPhases
<1>6. CASE StepFails \/ SendFails \/ Crash
    <2>1. store' = store /\ (GoTo("fail") \/ Release(worker.message))
        BY <1>6 DEF StepFails, SendFails, Crash
    <2>2. Release(worker.message) => worker' = Idle
        BY Zenon DEF Release
    <2>3. worker'.phase \in {"idle", "fail"}
        BY <1>0, <2>1, <2>2, GoToStep DEF Idle
    <2> QED
        BY <1>1, <2>1, <2>3 DEF AccountPhases
<1>7. ASSUME NEW m \in Messages, RefuseExpired(m) \/ Take(m)
      PROVE  PInv'
    <2>1. CASE RefuseExpired(m)
        BY <1>1, <2>1 DEF RefuseExpired, Idle, AccountPhases
    <2> QED
        BY <1>7, <2>1, TakeProgress
<1>8. CASE NextDay \/ UNCHANGED vars
    <2>1. UNCHANGED <<worker, store, broker, systems>>
        BY <1>8 DEF NextDay, vars, broker, systems
    <2>2. job' = job /\ task' = task /\ student' = student /\ Password' = Password /\ host' = host
        BY <2>1, SameDelivery DEF host
    <2>3. \A h : (Usable(h)' <=> Usable(h)) /\ (Closed(h)' <=> Closed(h))
        BY <2>1, <2>2 DEF Usable, Closed, systems
    <2>4. ActionFits' /\ HostsSetUp' /\ HostsClosed' /\ VpnSetUp'
        BY <2>1, <2>2, <2>3 DEF PInv, ActionFits, HostsSetUp, HostsClosed, VpnSetUp, Finishes, systems
    <2> QED
        BY <2>4 DEF PInv
<1> QED
    BY <1>2, <1>3, <1>4, <1>5, <1>6, <1>7, <1>8 DEF Next, WorkerStep, EndStep

LEMMA InitPInv == Init => PInv
BY DEF Init, Idle, NoRecord, PInv, ActionFits, HostsSetUp, HostsClosed, VpnSetUp, VpnPhases, HostPhases, Finishes

\* The invariant of the job at hand.
LEMMA Progress == Spec => []PInv
<1>1. IInv /\ PInv /\ [Next]_vars => PInv'
    BY NextPInv
<1> QED
    BY <1>1, InitPInv, Invariant, PTL DEF Spec

\* A CREATE succeeds only when each account of the job is open with one password that has been
\* mailed, whatever earlier attempts, of this job or others, left behind (jobs.js:16-17).
THEOREM CreateMakesUsable == Spec => CreatedIsUsable
<1>1. ASSUME IInv, PInv, Succeeds("CREATE")
      PROVE  \E pw \in Mailed : \A h \in ToSet(task.hosts) :
                account[student][h].exists /\ account[student][h].open /\ account[student][h].pw = pw
    <2>1. /\ [pw |-> Password, vpn |-> worker.vpnIsNew] \in inbox[student]
          /\ \A h \in ToSet(task.hosts) : Usable(h)
        BY <1>1 DEF Succeeds, PInv, HostsSetUp, Finishes
    <2>2. Password \in Mailed
        BY <2>1 DEF Mailed
    <2> QED
        BY <2>1, <2>2 DEF Usable
<1>2. IInv /\ PInv => [Succeeds("CREATE") =>
        \E pw \in Mailed : \A h \in ToSet(task.hosts) :
            account[student][h].exists /\ account[student][h].open /\ account[student][h].pw = pw]_vars
    BY <1>1
<1> QED
    BY <1>2, Invariant, Progress, PTL DEF CreatedIsUsable

\* A REVOKE succeeds only when every host of the job is closed, and the VPN account when the
\* job was to take it away, whatever attempts were cut short (linux.js, pfsense.js).
THEOREM RevokeCloses == Spec => RevokedIsClosed
<1>1. IInv /\ PInv => [Succeeds("REVOKE") =>
        /\ \A h \in ToSet(task.hosts) : ~account[student][h].open
        /\ task.revokeVpn => ~vpn[student].exists \/ vpn[student].disabled]_vars
    BY DEF Succeeds, PInv, HostsClosed, Finishes, Closed
<1> QED
    BY <1>1, Invariant, Progress, PTL DEF RevokedIsClosed

\* A job that once made the VPN account new succeeds only when the password the account has
\* was mailed as the VPN's, after any number of restarts (jobs.js:17-18).
THEOREM ProgressIsMailed == Spec => SavedProgressIsMailed
<1>1. ASSUME IInv, PInv, Succeeds("CREATE"), store[job].vpnIsNew
      PROVE  vpn[student].pw \in VpnMailed
    <2>1. /\ [pw |-> Password, vpn |-> worker.vpnIsNew] \in inbox[student]
          /\ worker.vpnIsNew /\ vpn[student].pw = Password
        BY <1>1 DEF Succeeds, PInv, HostsSetUp, VpnSetUp, Finishes
    <2>2. [pw |-> Password, vpn |-> worker.vpnIsNew].vpn /\ [pw |-> Password, vpn |-> worker.vpnIsNew].pw = Password
        BY <2>1
    <2> QED
        BY <2>1, <2>2 DEF VpnMailed
<1>2. IInv /\ PInv => [(Succeeds("CREATE") /\ store[job].vpnIsNew) => vpn[student].pw \in VpnMailed]_vars
    BY <1>1
<1> QED
    BY <1>2, Invariant, Progress, PTL DEF SavedProgressIsMailed
============================================================================
