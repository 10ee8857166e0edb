------------------------------ MODULE LinuxHost ------------------------------
(***************************************************************************)
(* A student's accounts on the Linux hosts, command by command: the worker *)
(* sets them up (user, password, unlock, Jupyter kernel or groups and HDFS *)
(* home) and mails the password, or locks them; the administrator's        *)
(* cleanup script checks, asks, and deletes (ssh.js, linux.js, gpu.js,     *)
(* hadoop.js, mail.js, cleanup.js, scripts/cleanup-user.js).               *)
(*                                                                         *)
(* One step is one remote command.  A command may fail, or time out and    *)
(* still have its effect; the job's next attempt begins again with a new   *)
(* password.  The hosts are clones with one host key (D17), and the        *)
(* network may lead to the wrong one.                                      *)
(***************************************************************************)
EXTENDS Integers, Sequences, SequencesExt

CONSTANTS
    Hosts,        \* the Hadoop nodes in the order of the configuration; the last has the HDFS home
    GpuNode,      \* the one of them a GPU job names
    Accounts,     \* the accounts there may be on a host at first
    Sudoers,      \* what sudo may ask for, a subset of {"password", "nothing"}
    MaxAttempts,  \* WORKER_MAX_ATTEMPTS
    MaxJobs,      \* bound: the jobs
    MaxTrouble    \* bound: commands and connections that fail

HostSet == ToSet(Hosts)

ASSUME HostAssumption ==
    /\ Hosts \in Seq(HostSet) /\ GpuNode \in HostSet
    /\ Sudoers \subseteq {"password", "nothing"}
    /\ MaxAttempts \in Nat \ {0} /\ MaxJobs \in Nat /\ MaxTrouble \in Nat

VARIABLES
    account,  \* per host, the student's account
    home,     \* the owner of the HDFS home, or "none"
    sudo,     \* what sudo asks for, and whether a ticket is cached
    worker,   \* the worker's run of a job
    cleanup,  \* the cleanup script's run
    mailed,   \* the passwords the last instructions and the last image were sent with
    pw,       \* the last password generated; 0 stands for earlier ones
    leaked,   \* history: the sudo password was given to a command as input
    disturbed,\* history: the cleanup deleted something during the worker's attempt
    bounds    \* the jobs and failures so far

systems == <<account, home, sudo, mailed>>
vars == <<systems, worker, cleanup, pw, leaked, disturbed, bounds>>

NoPassword == -1
Account == [exists : BOOLEAN, theirs : BOOLEAN, pw : Int, locked : BOOLEAN, expired : BOOLEAN,
            groups : BOOLEAN, env : BOOLEAN, kernel : BOOLEAN]
NoAccount == [exists |-> FALSE, theirs |-> TRUE, pw |-> NoPassword, locked |-> FALSE, expired |-> FALSE,
              groups |-> FALSE, env |-> FALSE, kernel |-> FALSE]

ASSUME AccountsAssumption == Accounts \subseteq Account

IsOpen(a) == a.exists /\ ~a.locked /\ ~a.expired

NoJob == [job |-> "none", attempt |-> 0, hosts |-> <<>>, todo |-> <<>>, needsPassword |-> FALSE]
NoCleanup == [phase |-> "off", left |-> <<>>, marked |-> {}, sure |-> FALSE]

Init ==
    /\ account \in [HostSet -> Accounts]
    /\ home \in {"none", "hdfs"}
    /\ sudo \in [asks : Sudoers, ticket : {FALSE}]
    /\ worker = NoJob
    /\ cleanup = NoCleanup
    /\ mailed = [instructions |-> 0, image |-> 0]
    /\ pw = 0
    /\ leaked = FALSE /\ disturbed = FALSE
    /\ bounds = [jobs |-> 0, trouble |-> 0]

Trouble == bounds.trouble < MaxTrouble /\ bounds' = [bounds EXCEPT !.trouble = @ + 1]

-----------------------------------------------------------------------------
(* The commands *)

CreateUser  == <<"adduser", "created">>
SetPassword == <<"identity", "chpasswd">>
UnlockUser  == <<"usermod -U", "chage -E -1", "unlocked">>
LockUser    == <<"exists", "usermod -L", "chage -E 0", "locked">>
EnsureCondaKernel == <<"conda create", "ipykernel install", "kernel">>
EnsureGroups   == <<"usermod -aG", "groups">>
EnsureHdfsHome == <<"hdfs -mkdir", "hdfs -chown", "home">>

\* Mutant: the account is unlocked before its password is set.
ProvisionUser_UnlockFirst == CreateUser \o UnlockUser \o SetPassword
ProvisionUser == CreateUser \o SetPassword \o UnlockUser

HdfsHost == Last(Hosts)
Revokes == {"revoke gpu", "revoke hadoop"}

\* What is done on one host for a job.
Program(job, h) ==
    CASE job = "gpu"    -> ProvisionUser \o EnsureCondaKernel
      [] job = "hadoop" -> ProvisionUser \o EnsureGroups \o (IF h = HdfsHost THEN EnsureHdfsHome ELSE <<>>)
      [] job \in Revokes -> LockUser

Finds(c, a) ==
    CASE c \in {"created", "exists"} -> a.exists
      [] c = "identity" -> a.exists /\ a.theirs
      [] c = "unlocked" -> IsOpen(a)
      [] c = "locked"   -> a.exists /\ a.locked /\ a.expired
      [] c = "kernel"   -> a.env /\ a.kernel
      [] c = "groups"   -> a.groups
      [] c = "home"     -> home = "student"
Checks == {"created", "exists", "identity", "unlocked", "locked", "kernel", "groups", "home"}

\* Mutant: the password of an account that is open is taken to be set.
Needless_PasswordSet(c, a) ==
    \/ c = "adduser" /\ a.exists
    \/ c \in {"chpasswd", "usermod -U", "chage -E -1"} /\ IsOpen(a)
    \/ c \in {"usermod -L", "chage -E 0"} /\ a.locked /\ a.expired
    \/ c = "conda create" /\ a.env
    \/ c = "usermod -aG" /\ a.groups
    \/ c = "hdfs -mkdir" /\ home # "none"
\* A command that is left out because of what was read before it.
Needless(c, a) ==
    \/ c = "adduser" /\ a.exists
    \/ c \in {"usermod -U", "chage -E -1"} /\ IsOpen(a)
    \/ c \in {"usermod -L", "chage -E 0"} /\ a.locked /\ a.expired
    \/ c = "conda create" /\ a.env
    \/ c = "ipykernel install" /\ a.kernel
    \/ c = "usermod -aG" /\ a.groups
    \/ c = "hdfs -mkdir" /\ home # "none"

\* A new password also takes the lock off; an expired account stays expired.
After(c, a) ==
    CASE c = "adduser"           -> [NoAccount EXCEPT !.exists = TRUE]
      [] c = "chpasswd"          -> [a EXCEPT !.pw = pw, !.locked = FALSE]
      [] c = "usermod -U"        -> [a EXCEPT !.locked = FALSE]
      [] c = "usermod -L"        -> [a EXCEPT !.locked = TRUE]
      [] c = "chage -E -1"       -> [a EXCEPT !.expired = FALSE]
      [] c = "chage -E 0"        -> [a EXCEPT !.expired = TRUE]
      [] c = "conda create"      -> [a EXCEPT !.env = TRUE]
      [] c = "ipykernel install" -> [a EXCEPT !.kernel = TRUE]
      [] c = "usermod -aG"       -> [a EXCEPT !.groups = TRUE]
      [] OTHER                   -> a

HomeAfter(c) == IF c = "hdfs -mkdir" THEN "hdfs" ELSE IF c = "hdfs -chown" THEN "student" ELSE home

Works(c, a) ==
    /\ c # "adduser" => a.exists \/ c \in {"hdfs -mkdir", "hdfs -chown"}
    /\ c = "ipykernel install" => a.env
    /\ c = "hdfs -chown" => home # "none"

\* sudo -k -S: a cached ticket is not used, so the password line is read when
\* sudo asks at all.
\* Mutant: without -k.
SudoReadsALine_Ticket == sudo.asks = "password" /\ ~sudo.ticket
SudoReadsALine == sudo.asks = "password"

\* chpasswd gets the line with the sudo password when sudo did not read it.
GivesAway(c) == c = "chpasswd" /\ worker.needsPassword /\ ~SudoReadsALine

-----------------------------------------------------------------------------
(* The worker *)

Running == worker.todo # <<>>
Here == account[Head(worker.hosts)]
Services(job) == IF job \in {"hadoop", "revoke hadoop"} THEN Hosts ELSE <<GpuNode>>

StartJob(job) ==
    /\ worker.job = "none" /\ bounds.jobs < MaxJobs
    /\ worker' = [NoJob EXCEPT !.job = job]
    /\ bounds' = [bounds EXCEPT !.jobs = @ + 1]
    /\ UNCHANGED <<systems, cleanup, pw, leaked, disturbed>>

\* A new delivery of the job; a set-up generates a password.
StartAttempt ==
    /\ worker.job # "none" /\ ~Running
    /\ worker' = [worker EXCEPT !.hosts = Services(worker.job), !.todo = <<"connect">>]
    /\ pw' = IF worker.job \in Revokes THEN pw ELSE pw + 1
    /\ disturbed' = FALSE
    /\ UNCHANGED <<systems, cleanup, leaked, bounds>>

Fail ==
    worker' = IF worker.attempt + 1 = MaxAttempts THEN NoJob
              ELSE [NoJob EXCEPT !.job = worker.job, !.attempt = worker.attempt + 1]

\* The job is not tried again.
Reject == worker' = NoJob

\* After the last command of a host comes the next host, then the mails.
LeaveHost ==
    worker' = IF Len(worker.hosts) > 1 THEN [worker EXCEPT !.hosts = Tail(@), !.todo = <<"connect">>]
              ELSE IF worker.job \in Revokes \/ Head(worker.todo) = "mail 2/2" THEN NoJob
              ELSE [worker EXCEPT !.todo = <<"mail 1/2", "mail 2/2">>]

Advance == IF Len(worker.todo) > 1 THEN worker' = [worker EXCEPT !.todo = Tail(@)] ELSE LeaveHost

IsExpectedHost(h, reached) == reached = h

\* The connection: the host's IP is checked, sudo is probed once.  The network
\* leads to the host meant, or, as a trouble, to a clone of it.
Connect(reached) ==
    /\ Running /\ Head(worker.todo) = "connect"
    /\ IF reached = Head(worker.hosts) THEN UNCHANGED bounds ELSE Trouble
    /\ sudo' = [sudo EXCEPT !.ticket = FALSE]
    /\ IF IsExpectedHost(Head(worker.hosts), reached)
       THEN worker' = [worker EXCEPT !.needsPassword = sudo.asks = "password",
                                     !.hosts = <<reached>> \o Tail(@),
                                     !.todo = Program(worker.job, Head(worker.hosts))]
       ELSE Fail
    /\ UNCHANGED <<account, home, mailed, cleanup, pw, leaked, disturbed>>

\* Someone else's account rejects the job; where there is none, there is
\* nothing to lock.
CheckState ==
    /\ Running /\ Head(worker.todo) \in Checks
    /\ IF Finds(Head(worker.todo), Here) THEN Advance
       ELSE IF Head(worker.todo) = "identity" /\ Here.exists THEN Reject
       ELSE IF Head(worker.todo) = "exists" THEN LeaveHost
       ELSE Fail
    /\ UNCHANGED <<systems, cleanup, pw, leaked, disturbed, bounds>>

IsCommand(c) == c \notin Checks \cup {"connect", "mail 1/2", "mail 2/2"}

Skip ==
    /\ Running /\ IsCommand(Head(worker.todo)) /\ Needless(Head(worker.todo), Here)
    /\ Advance
    /\ UNCHANGED <<systems, cleanup, pw, leaked, disturbed, bounds>>

Effect(c) ==
    /\ account' = [account EXCEPT ![Head(worker.hosts)] = IF GivesAway(c) THEN @ ELSE After(c, @)]
    /\ home' = HomeAfter(c)
    /\ leaked' = (leaked \/ GivesAway(c))

\* exec: it succeeds, fails without an effect, or times out after it.
Execute ==
    /\ Running /\ IsCommand(Head(worker.todo)) /\ ~Needless(Head(worker.todo), Here)
    /\ LET c == Head(worker.todo) IN
       \/ Works(c, Here) /\ Effect(c) /\ (IF GivesAway(c) THEN Fail ELSE Advance) /\ UNCHANGED bounds
       \/ Works(c, Here) /\ Effect(c) /\ Fail /\ Trouble
       \/ ~Works(c, Here) /\ Fail /\ UNCHANGED <<account, home, leaked, bounds>>
    /\ UNCHANGED <<sudo, mailed, cleanup, pw, disturbed>>

ExecuteFails ==
    /\ Running /\ Trouble
    /\ Fail
    /\ UNCHANGED <<systems, cleanup, pw, leaked, disturbed>>

Mail ==
    /\ Running /\ Head(worker.todo) \in {"mail 1/2", "mail 2/2"}
    /\ mailed' = IF Head(worker.todo) = "mail 1/2" THEN [mailed EXCEPT !.instructions = pw]
                                                  ELSE [mailed EXCEPT !.image = pw]
    /\ Advance
    /\ UNCHANGED <<account, home, sudo, cleanup, pw, leaked, disturbed, bounds>>

-----------------------------------------------------------------------------
(* The cleanup script *)

\* Mutant: the full name is not compared.
MayDelete_Exists(place) == IF place = "hdfs" THEN home # "none" ELSE account[place].exists
\* The HDFS home has no full name to compare.
MayDelete(place) ==
    IF place = "hdfs" THEN home # "none" ELSE account[place].exists /\ account[place].theirs

StartCleanup ==
    /\ cleanup = NoCleanup
    /\ cleanup' = [NoCleanup EXCEPT !.phase = "check", !.left = Append(Hosts, "hdfs")]
    /\ UNCHANGED <<systems, worker, pw, leaked, disturbed, bounds>>

CheckPlace ==
    /\ cleanup.phase = "check" /\ cleanup.left # <<>>
    /\ cleanup' = [cleanup EXCEPT !.left = Tail(@),
                     !.marked = IF MayDelete(Head(cleanup.left)) THEN @ \cup {Head(cleanup.left)} ELSE @]
    /\ UNCHANGED <<systems, worker, pw, leaked, disturbed, bounds>>

\* Nothing is marked, only a check was asked for, or another name was typed.
StopHere ==
    /\ cleanup.phase \in {"check", "apply"} /\ cleanup.left = <<>>
    /\ cleanup' = [NoCleanup EXCEPT !.phase = "over"]
    /\ UNCHANGED <<systems, worker, pw, leaked, disturbed, bounds>>

Confirm ==
    /\ cleanup.phase = "check" /\ cleanup.left = <<>> /\ cleanup.marked # {}
    /\ cleanup' = [cleanup EXCEPT !.phase = "apply", !.left = Append(Hosts, "hdfs")]
    /\ UNCHANGED <<systems, worker, pw, leaked, disturbed, bounds>>

\* Everything is checked again; a place where nothing may be deleted is left.
CheckAgain ==
    /\ cleanup.phase = "apply" /\ cleanup.left # <<>> /\ ~cleanup.sure
    /\ cleanup' = IF MayDelete(Head(cleanup.left)) THEN [cleanup EXCEPT !.sure = TRUE]
                                                   ELSE [cleanup EXCEPT !.left = Tail(@)]
    /\ UNCHANGED <<systems, worker, pw, leaked, disturbed, bounds>>

\* deluser, or hdfs -rm; an error is counted and the next place comes.
Delete ==
    /\ cleanup.sure
    /\ LET place == Head(cleanup.left) IN
       /\ account' = IF place = "hdfs" THEN account ELSE [account EXCEPT ![place] = NoAccount]
       /\ home' = IF place = "hdfs" THEN "none" ELSE home
    /\ cleanup' = [cleanup EXCEPT !.left = Tail(@), !.sure = FALSE]
    /\ disturbed' = TRUE
    /\ UNCHANGED <<sudo, mailed, worker, pw, leaked, bounds>>

DeleteFails ==
    /\ cleanup.left # <<>> /\ Trouble
    /\ cleanup' = [cleanup EXCEPT !.left = Tail(@), !.sure = FALSE]
    /\ UNCHANGED <<systems, worker, pw, leaked, disturbed>>

\* Someone uses sudo from the same account.
TicketIsCached ==
    /\ sudo.asks = "password" /\ ~sudo.ticket
    /\ sudo' = [sudo EXCEPT !.ticket = TRUE]
    /\ UNCHANGED <<account, home, mailed, worker, cleanup, pw, leaked, disturbed, bounds>>

Worker ==
    \/ \E job \in {"gpu", "hadoop"} \cup Revokes : StartJob(job)
    \/ StartAttempt
    \/ \E h \in HostSet : Connect(h)
    \/ CheckState \/ Skip \/ Execute \/ ExecuteFails \/ Mail

Cleanup == StartCleanup \/ CheckPlace \/ Confirm \/ StopHere \/ CheckAgain \/ Delete \/ DeleteFails

Next == Worker \/ Cleanup \/ TicketIsCached

Spec == Init /\ [][Next]_vars

-----------------------------------------------------------------------------
\* A set-up that ends well has everything in place on each of its hosts, with
\* the password that was mailed, however many attempts broke off before it and
\* wherever they did; only the cleanup may have taken something away meanwhile.
SetUpIsComplete ==
    [][worker.job \in {"gpu", "hadoop"} /\ Running /\ Head(worker.todo) = "mail 2/2"
       /\ worker' = NoJob /\ bounds' = bounds /\ ~disturbed
       => /\ mailed'.image = mailed'.instructions
          /\ \A h \in ToSet(Services(worker.job)) :
                /\ IsOpen(account[h]) /\ account[h].pw = mailed'.image
                /\ worker.job = "gpu" => account[h].kernel
                /\ worker.job = "hadoop" => account[h].groups
          /\ worker.job = "hadoop" => home = "student"]_vars

\* A closed account is opened only with the password of the attempt that opens
\* it, never with one from an earlier period or a broken-off attempt.
OpensWithNewPassword ==
    [][\A h \in HostSet : account[h].exists /\ ~IsOpen(account[h]) /\ IsOpen(account'[h])
                          => account'[h].pw = pw]_vars

\* What is not the student's stays as it is: someone else's account under the
\* student's username is not deleted and gets no password, by the worker or by
\* the cleanup (cleanup-user.js:9, linux.js:61), and a GPU job changes nothing on
\* a clone of the node it names, wherever the network leads (ssh.js:3-5).
OthersAreKept ==
    [][\A h \in HostSet :
          /\ account[h].exists /\ ~account[h].theirs
             => account'[h].exists /\ account'[h].pw = account[h].pw
          /\ worker.job \in {"gpu", "revoke gpu"} /\ worker' # worker /\ h # GpuNode
             => account'[h] = account[h]]_vars

\* The sudo password is only ever read by sudo (ssh.js:8-9).
SudoPasswordStays == ~leaked
=============================================================================
