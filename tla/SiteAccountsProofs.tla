-------------------------- MODULE SiteAccountsProofs --------------------------
(* Theorems about the accounts on the site's systems: on the Linux hosts     *)
(* (LinuxHost), for any hosts, any accounts on them at first, any number of  *)
(* jobs, attempts and failures; and, in the second part, on the products     *)
(* with a web page (UserManager), for any lists of users.                    *)
EXTENDS LinuxHost, SequenceTheorems, TLAPS

(* What is invariant *)

Jobs   == {"none", "gpu", "hadoop"} \cup Revokes
SetUps == {"gpu", "hadoop"}
Mails  == {"mail 1/2", "mail 2/2"}

\* What is on a list of things to do.
Commands ==
    {"adduser", "created", "identity", "chpasswd", "usermod -U", "chage -E -1", "unlocked",
     "conda create", "ipykernel install", "kernel", "usermod -aG", "groups",
     "hdfs -mkdir", "hdfs -chown", "home", "exists", "usermod -L", "chage -E 0", "locked",
     "connect", "mail 1/2", "mail 2/2"}

Run == [job : Jobs, attempt : Nat, hosts : Seq(HostSet), todo : Seq(Commands),
        needsPassword : BOOLEAN]
Places == HostSet \cup {"hdfs"}
Phases == {"off", "check", "apply", "over"}
Sweep == [phase : Phases, left : Seq(Places), marked : SUBSET Places, sure : BOOLEAN]

Types ==
    /\ account \in [HostSet -> Account]
    /\ sudo \in [asks : {"password", "nothing"}, ticket : BOOLEAN]
    /\ worker \in Run /\ cleanup \in Sweep
    /\ mailed \in [instructions : Int, image : Int]
    /\ pw \in Nat /\ disturbed \in BOOLEAN
    /\ bounds \in [jobs : Nat, trouble : Nat]

\* What comes after a command on a host, or after a mail.
Follows ==
    {<<"adduser", "created">>, <<"created", "identity">>, <<"identity", "chpasswd">>,
     <<"chpasswd", "usermod -U">>, <<"usermod -U", "chage -E -1">>, <<"chage -E -1", "unlocked">>,
     <<"unlocked", "conda create">>, <<"conda create", "ipykernel install">>,
     <<"ipykernel install", "kernel">>,
     <<"unlocked", "usermod -aG">>, <<"usermod -aG", "groups">>,
     <<"groups", "hdfs -mkdir">>, <<"hdfs -mkdir", "hdfs -chown">>, <<"hdfs -chown", "home">>,
     <<"exists", "usermod -L">>, <<"usermod -L", "chage -E 0">>, <<"chage -E 0", "locked">>,
     <<"mail 1/2", "mail 2/2">>}

InOrder(s) == \A i \in 1..(Len(s) - 1) : <<s[i], s[i + 1]>> \in Follows

\* The last check of a job on a host.
LastCheck(job, h) ==
    CASE job = "gpu"    -> "kernel"
      [] job = "hadoop" -> IF h = HdfsHost THEN "home" ELSE "groups"
      [] OTHER          -> "locked"

\* The commands that are left, for the host they are for.
TodoFits ==
    Running =>
      /\ InOrder(worker.todo)
      /\ worker.todo[Len(worker.todo)]
            \in {"connect", "mail 2/2", LastCheck(worker.job, Head(worker.hosts))}
      /\ worker.todo[1] = "exists" => worker.job \in Revokes
      /\ worker.todo[1] \in Mails => worker.job \in SetUps /\ Len(worker.hosts) = 1

\* The hosts that are left: those of a Hadoop job end with the one that has the HDFS home.
HostsFit ==
    Running =>
      /\ worker.job # "none" /\ worker.hosts # <<>>
      /\ worker.job \in {"gpu", "revoke gpu"} => worker.hosts = <<GpuNode>>
      /\ worker.job = "hadoop" => worker.hosts[Len(worker.hosts)] = HdfsHost

\* Whether sudo is sent a password is what its probe on this connection said.
Probed ==
    Running /\ worker.todo[1] # "connect" =>
        worker.needsPassword = (sudo.asks = "password")

AfterOpen == {"conda create", "ipykernel install", "kernel", "usermod -aG", "groups",
              "hdfs -mkdir", "hdfs -chown", "home"}
AfterPassword == AfterOpen \cup {"usermod -U", "chage -E -1", "unlocked"}
AfterGroups == {"hdfs -mkdir", "hdfs -chown", "home"}

\* What the commands before c have made of the account a.  The first two parts hold even if
\* the cleanup script takes the account away.
Fits(c, a) ==
    /\ c = "chpasswd" => a.theirs
    /\ c \in AfterPassword /\ a.exists => a.pw = pw
    /\ ~disturbed /\ c \in AfterPassword => a.exists
    /\ ~disturbed /\ c \in AfterOpen => IsOpen(a)
    /\ ~disturbed /\ c \in AfterGroups => a.groups

AccountFits == Running => Fits(worker.todo[1], Here)

\* A host of a set-up is done.
IsSetUp(h) ==
    /\ IsOpen(account[h]) /\ account[h].pw = pw
    /\ worker.job = "gpu" => account[h].kernel
    /\ worker.job = "hadoop" => account[h].groups

\* The hosts that were left behind are set up, and all of them when the mails are sent.
HostsDone ==
    Running /\ worker.job \in SetUps /\ ~disturbed =>
      /\ \A h \in ToSet(Services(worker.job)) :
            h \notin ToSet(worker.hosts) \/ worker.todo[1] \in Mails => IsSetUp(h)
      /\ worker.todo[1] \in Mails /\ worker.job = "hadoop" => home = "student"
      /\ worker.todo[1] = "mail 2/2" => mailed.instructions = pw

\* The cleanup script is about to delete only what was found to be the student's.
DeletesTheirs ==
    cleanup.sure => /\ cleanup.phase = "apply" /\ cleanup.left # <<>>
                    /\ cleanup.left[1] # "hdfs" => account[cleanup.left[1]].theirs

LInv == /\ Types /\ TodoFits /\ HostsFit /\ Probed /\ AccountFits /\ HostsDone /\ DeletesTheirs
        /\ ~leaked
-----------------------------------------------------------------------------
(* Sequences and commands *)

LEMMA Parts ==
    ASSUME NEW S, NEW s \in Seq(S), s # <<>>
    PROVE  /\ Len(s) \in Nat \ {0} /\ Head(s) = s[1] /\ s[1] \in S
           /\ Tail(s) \in Seq(S) /\ Len(Tail(s)) = Len(s) - 1
           /\ \A i \in 1..(Len(s) - 1) : Tail(s)[i] = s[i + 1]
OBVIOUS

LEMMA Lengths ==
    ASSUME NEW S, NEW s \in Seq(S), s # <<>>
    PROVE  /\ ~(Len(s) > 1) => Len(s) = 1
           /\ Len(s) > 1 => Tail(s) # <<>>
           /\ \A x : s = <<x>> => ~(Len(s) > 1)
           /\ \A x \in ToSet(s) : x \in S /\ (x = s[1] \/ x \in ToSet(Tail(s)))
<1>1. /\ Len(s) \in Nat \ {0} /\ Tail(s) \in Seq(S) /\ Len(Tail(s)) = Len(s) - 1
      /\ \A i \in 1..(Len(s) - 1) : Tail(s)[i] = s[i + 1]
    BY Parts
<1>2. ~(Len(s) > 1) => Len(s) = 1 BY <1>1
<1>3. ASSUME Len(s) > 1 PROVE Tail(s) # <<>>
    <2>1. Len(Tail(s)) > 0 BY <1>1, <1>3
    <2>2. \A t \in Seq(S) : Len(t) > 0 => t # <<>> OBVIOUS
    <2> QED BY <1>1, <2>1, <2>2
<1>4. \A x : s = <<x>> => ~(Len(s) > 1)
    <2>1. \A x : Len(<<x>>) = 1 OBVIOUS
    <2>2. ASSUME NEW x, s = <<x>> PROVE Len(s) = 1 BY <2>1, <2>2
    <2> QED BY <2>2
<1>5. ASSUME NEW x \in ToSet(s) PROVE x \in S /\ (x = s[1] \/ x \in ToSet(Tail(s)))
    <2>1. PICK i \in 1..Len(s) : x = s[i] BY <1>1 DEF ToSet
    <2>2. x \in S BY <2>1
    <2>3. ASSUME i # 1 PROVE x \in ToSet(Tail(s))
        <3>1. i - 1 \in 1..Len(Tail(s)) /\ Tail(s)[i - 1] = x BY <1>1, <2>1, <2>3
        <3>2. i - 1 \in DOMAIN Tail(s) BY <1>1, <3>1
        <3> QED BY <3>1, <3>2 DEF ToSet
    <2> QED BY <2>1, <2>2, <2>3
<1> QED BY <1>2, <1>3, <1>4, <1>5

\* A sequence of commands in order, with its first and its last.
Chain(s, first, last) ==
    /\ s \in Seq(Commands) /\ Len(s) > 0 /\ InOrder(s)
    /\ s[1] = first /\ s[Len(s)] = last

LEMMA ChainsJoin ==
    ASSUME NEW s, NEW t, NEW a, NEW b, NEW c, NEW d,
           Chain(s, a, b), Chain(t, c, d), <<b, c>> \in Follows
    PROVE  Chain(s \o t, a, d)
<1> DEFINE u == s \o t
<1>1. s \in Seq(Commands) /\ t \in Seq(Commands) /\ Len(s) \in Nat \ {0} /\ Len(t) \in Nat \ {0}
    BY DEF Chain
<1>2. /\ u \in Seq(Commands) /\ Len(u) = Len(s) + Len(t)
      /\ \A i \in 1..Len(u) : u[i] = IF i <= Len(s) THEN s[i] ELSE t[i - Len(s)]
    <2>1. PICK x : x = s OBVIOUS
    <2>2. PICK y : y = t OBVIOUS
    <2>3. PICK v : v = x \o y OBVIOUS
    <2>4. x \in Seq(Commands) /\ y \in Seq(Commands) BY <1>1, <2>1, <2>2
    <2>5. /\ v \in Seq(Commands) /\ Len(v) = Len(x) + Len(y)
          /\ \A i \in 1..(Len(x) + Len(y)) : v[i] = IF i <= Len(x) THEN x[i] ELSE y[i - Len(x)]
        BY <2>3, <2>4, ConcatProperties
    <2> QED BY <2>1, <2>2, <2>3, <2>5
<1> HIDE DEF u
<1>3. u[1] = a /\ u[Len(u)] = d
    BY <1>1, <1>2 DEF Chain
<1>4. InOrder(u)
    <2> SUFFICES ASSUME NEW i \in 1..(Len(u) - 1) PROVE <<u[i], u[i + 1]>> \in Follows
        BY DEF InOrder
    <2>1. CASE i < Len(s)
        <3>1. i \in 1..(Len(s) - 1) /\ u[i] = s[i] /\ u[i + 1] = s[i + 1] BY <1>1, <1>2, <2>1
        <3> QED BY <3>1 DEF Chain, InOrder
    <2>2. CASE i = Len(s)
        <3>1. u[i] = b /\ u[i + 1] = c BY <1>1, <1>2, <2>2 DEF Chain
        <3> QED BY <3>1
    <2>3. CASE i > Len(s)
        <3> DEFINE j == i - Len(s)
        <3>1. j \in 1..(Len(t) - 1) /\ u[i] = t[j] /\ u[i + 1] = t[j + 1] BY <1>1, <1>2, <2>3
        <3> QED BY <3>1 DEF Chain, InOrder
    <2> QED BY <1>1, <2>1, <2>2, <2>3
<1> QED BY <1>1, <1>2, <1>3, <1>4 DEF Chain, u

LEMMA ShortSequences ==
    ASSUME NEW S, NEW a \in S, NEW b \in S, NEW c \in S, NEW d \in S
    PROVE  <<a, b>> \in Seq(S) /\ <<a, b, c>> \in Seq(S) /\ <<a, b, c, d>> \in Seq(S)
OBVIOUS

LEMMA ShortChains ==
    ASSUME NEW a \in Commands, NEW b \in Commands, <<a, b>> \in Follows
    PROVE  /\ Chain(<<a, b>>, a, b)
           /\ \A c \in Commands : <<b, c>> \in Follows =>
                 /\ Chain(<<a, b, c>>, a, c)
                 /\ \A d \in Commands : <<c, d>> \in Follows => Chain(<<a, b, c, d>>, a, d)
<1>1. Chain(<<a, b>>, a, b)
    <2> DEFINE s == <<a, b>>
    <2>1. s \in Seq(Commands) BY ShortSequences
    <2>2. Len(s) = 2 /\ s[1] = a /\ s[2] = b OBVIOUS
    <2> HIDE DEF s
    <2>3. \A i \in 1..(Len(s) - 1) : i = 1 /\ i + 1 = 2 BY <2>2
    <2>4. InOrder(s) BY <2>2, <2>3 DEF InOrder
    <2>5. Chain(s, a, b) BY <2>1, <2>2, <2>4 DEF Chain
    <2> QED BY <2>5 DEF s
<1>2. ASSUME NEW c \in Commands, <<b, c>> \in Follows PROVE Chain(<<a, b, c>>, a, c)
    <2> DEFINE s == <<a, b, c>>
    <2>1. s \in Seq(Commands) BY ShortSequences
    <2>2. Len(s) = 3 /\ s[1] = a /\ s[2] = b /\ s[3] = c OBVIOUS
    <2> HIDE DEF s
    <2>3. \A i \in 1..(Len(s) - 1) : (i = 1 /\ i + 1 = 2) \/ (i = 2 /\ i + 1 = 3) BY <2>2
    <2>4. InOrder(s) BY <1>2, <2>2, <2>3 DEF InOrder
    <2>5. Chain(s, a, c) BY <2>1, <2>2, <2>4 DEF Chain
    <2> QED BY <2>5 DEF s
<1>3. ASSUME NEW c \in Commands, <<b, c>> \in Follows, NEW d \in Commands, <<c, d>> \in Follows
      PROVE  Chain(<<a, b, c, d>>, a, d)
    <2> DEFINE s == <<a, b, c, d>>
    <2>1. s \in Seq(Commands) BY ShortSequences
    <2>2. Len(s) = 4 /\ s[1] = a /\ s[2] = b /\ s[3] = c /\ s[4] = d OBVIOUS
    <2> HIDE DEF s
    <2>3. \A i \in 1..(Len(s) - 1) :
            (i = 1 /\ i + 1 = 2) \/ (i = 2 /\ i + 1 = 3) \/ (i = 3 /\ i + 1 = 4)
        BY <2>2
    <2>4. InOrder(s) BY <1>3, <2>2, <2>3 DEF InOrder
    <2>5. Chain(s, a, d) BY <2>1, <2>2, <2>4 DEF Chain
    <2> QED BY <2>5 DEF s
<1> QED BY <1>1, <1>2, <1>3

LEMMA Pieces ==
    /\ Chain(CreateUser, "adduser", "created")
    /\ Chain(SetPassword, "identity", "chpasswd")
    /\ Chain(UnlockUser, "usermod -U", "unlocked")
    /\ Chain(EnsureCondaKernel, "conda create", "kernel")
    /\ Chain(EnsureGroups, "usermod -aG", "groups")
    /\ Chain(EnsureHdfsHome, "hdfs -mkdir", "home")
    /\ Chain(LockUser, "exists", "locked")
<1>0. /\ <<"adduser", "created">> \in Follows /\ <<"identity", "chpasswd">> \in Follows
      /\ <<"usermod -U", "chage -E -1">> \in Follows /\ <<"chage -E -1", "unlocked">> \in Follows
      /\ <<"conda create", "ipykernel install">> \in Follows
      /\ <<"ipykernel install", "kernel">> \in Follows
      /\ <<"usermod -aG", "groups">> \in Follows
      /\ <<"hdfs -mkdir", "hdfs -chown">> \in Follows /\ <<"hdfs -chown", "home">> \in Follows
      /\ <<"exists", "usermod -L">> \in Follows /\ <<"usermod -L", "chage -E 0">> \in Follows
      /\ <<"chage -E 0", "locked">> \in Follows
    BY DEF Follows
<1>10. /\ "adduser" \in Commands /\ "created" \in Commands /\ "identity" \in Commands
      /\ "chpasswd" \in Commands /\ "usermod -U" \in Commands /\ "chage -E -1" \in Commands
      /\ "unlocked" \in Commands /\ "conda create" \in Commands
      /\ "ipykernel install" \in Commands /\ "kernel" \in Commands
      /\ "usermod -aG" \in Commands /\ "groups" \in Commands
      /\ "hdfs -mkdir" \in Commands /\ "hdfs -chown" \in Commands /\ "home" \in Commands
      /\ "exists" \in Commands /\ "usermod -L" \in Commands
      /\ "chage -E 0" \in Commands /\ "locked" \in Commands
    BY DEF Commands
<1>1. Chain(<<"adduser", "created">>, "adduser", "created")
    BY <1>0, <1>10, ShortChains
<1>2. Chain(<<"identity", "chpasswd">>, "identity", "chpasswd")
    BY <1>0, <1>10, ShortChains
<1>3. Chain(<<"usermod -U", "chage -E -1", "unlocked">>, "usermod -U", "unlocked")
    BY <1>0, <1>10, ShortChains
<1>4. Chain(<<"conda create", "ipykernel install", "kernel">>, "conda create", "kernel")
    BY <1>0, <1>10, ShortChains
<1>5. Chain(<<"usermod -aG", "groups">>, "usermod -aG", "groups")
    BY <1>0, <1>10, ShortChains
<1>6. Chain(<<"hdfs -mkdir", "hdfs -chown", "home">>, "hdfs -mkdir", "home")
    BY <1>0, <1>10, ShortChains
<1>7. Chain(<<"exists", "usermod -L", "chage -E 0", "locked">>, "exists", "locked")
    BY <1>0, <1>10, ShortChains
<1> QED BY <1>1, <1>2, <1>3, <1>4, <1>5, <1>6, <1>7
    DEF CreateUser, SetPassword, UnlockUser, EnsureCondaKernel, EnsureGroups, EnsureHdfsHome, LockUser

\* The program of a job for a host.
LEMMA ProgramFits ==
    ASSUME NEW job \in Jobs \ {"none"}, NEW h
    PROVE  Chain(Program(job, h), IF job \in Revokes THEN "exists" ELSE "adduser", LastCheck(job, h))
<1>1. Chain(CreateUser \o SetPassword, "adduser", "chpasswd")
    <2>1. <<"created", "identity">> \in Follows BY DEF Follows
    <2> QED BY <2>1, Pieces, ChainsJoin
<1>2. Chain(ProvisionUser, "adduser", "unlocked")
    <2>1. <<"chpasswd", "usermod -U">> \in Follows BY DEF Follows
    <2>2. ProvisionUser = (CreateUser \o SetPassword) \o UnlockUser BY DEF ProvisionUser
    <2> QED BY <1>1, <2>1, <2>2, Pieces, ChainsJoin
<1>3. CASE job = "gpu"
    <2>1. <<"unlocked", "conda create">> \in Follows BY DEF Follows
    <2>2. Program(job, h) = ProvisionUser \o EnsureCondaKernel BY <1>3 DEF Program, Revokes
    <2>3. job \notin Revokes /\ LastCheck(job, h) = "kernel" BY <1>3 DEF Revokes, LastCheck
    <2> QED BY <1>2, <2>1, <2>2, <2>3, Pieces, ChainsJoin
<1>4. CASE job = "hadoop"
    <2>1. <<"unlocked", "usermod -aG">> \in Follows /\ <<"groups", "hdfs -mkdir">> \in Follows
        BY DEF Follows
    <2>2. Chain(ProvisionUser \o EnsureGroups, "adduser", "groups")
        BY <1>2, <2>1, Pieces, ChainsJoin
    <2>3. job \notin Revokes BY <1>4 DEF Revokes
    <2>4. CASE h = HdfsHost
        <3>1. Program(job, h) = (ProvisionUser \o EnsureGroups) \o EnsureHdfsHome
            BY <1>4, <2>4 DEF Program, Revokes
        <3>2. LastCheck(job, h) = "home" BY <1>4, <2>4 DEF LastCheck
        <3> QED BY <2>1, <2>2, <2>3, <3>1, <3>2, Pieces, ChainsJoin
    <2>5. CASE h # HdfsHost
        <3>1. Program(job, h) = (ProvisionUser \o EnsureGroups) \o <<>>
            BY <1>4, <2>5 DEF Program, Revokes
        <3>2. LastCheck(job, h) = "groups" BY <1>4, <2>5 DEF LastCheck
        <3>3. Program(job, h) = ProvisionUser \o EnsureGroups BY <2>2, <3>1 DEF Chain
        <3> QED BY <2>2, <2>3, <3>2, <3>3
    <2> QED BY <2>4, <2>5
<1>5. CASE job \in Revokes
    <2>1. Program(job, h) = LockUser /\ LastCheck(job, h) = "locked"
        BY <1>5 DEF Program, LastCheck, Revokes
    <2> QED BY <1>5, <2>1, Pieces
<1> QED BY <1>3, <1>4, <1>5 DEF Jobs

\* A command that is done, left out or found leads to the next.
LEMMA CommandFits ==
    ASSUME NEW c, NEW d, <<c, d>> \in Follows, pw \in Nat,
           NEW a \in Account, NEW b \in Account, Fits(c, a),
           \/ c \in Checks /\ Finds(c, a) /\ b = a
           \/ c \notin Checks /\ Needless(c, a) /\ b = a
           \/ c \notin Checks /\ Works(c, a) /\ b = After(c, a)
    PROVE  Fits(d, b)
<1> USE DEF Fits, AfterOpen, AfterPassword, AfterGroups, IsOpen, Account
<1>1. CASE c \in {"adduser", "created", "exists", "usermod -L", "chage -E 0", "mail 1/2"}
    BY <1>1 DEF Follows
<1>2. CASE c = "identity" BY <1>2 DEF Follows, Checks, Finds
<1>3. CASE c = "chpasswd" BY <1>3 DEF Follows, Checks, Needless, Works, After
<1>4. CASE c = "usermod -U" BY <1>4 DEF Follows, Checks, Needless, Works, After
<1>5. CASE c = "chage -E -1" BY <1>5 DEF Follows, Checks, Needless, Works, After
<1>6. CASE c = "unlocked" BY <1>6 DEF Follows, Checks, Finds
<1>7. CASE c \in {"conda create", "ipykernel install"}
    BY <1>7 DEF Follows, Checks, Needless, Works, After
<1>8. CASE c = "usermod -aG" BY <1>8 DEF Follows, Checks, Needless, Works, After
<1>9. CASE c = "groups" BY <1>9 DEF Follows, Checks, Finds
<1>10. CASE c \in {"hdfs -mkdir", "hdfs -chown"}
    BY <1>10 DEF Follows, Checks, Needless, Works, After
<1> QED BY <1>1, <1>2, <1>3, <1>4, <1>5, <1>6, <1>7, <1>8, <1>9, <1>10 DEF Follows

-----------------------------------------------------------------------------
(* Types *)

LEMMA ServicesFit ==
    ASSUME NEW job
    PROVE  /\ Services(job) \in Seq(HostSet) /\ Services(job) # <<>>
           /\ job = "hadoop" => Services(job)[Len(Services(job))] = HdfsHost
           /\ job \in {"gpu", "revoke gpu"} => Services(job) = <<GpuNode>>
<1>1. Hosts \in Seq(HostSet) /\ GpuNode \in HostSet
    BY HostAssumption
<1>2. Hosts # <<>>
    <2>1. PICK i \in DOMAIN Hosts : TRUE BY <1>1 DEF HostSet, ToSet
    <2> QED BY <1>1, <2>1
<1>3. HdfsHost = Hosts[Len(Hosts)] BY <1>1 DEF HdfsHost, Last
<1>4. CASE job \in {"hadoop", "revoke hadoop"}
    <2>1. Services(job) = Hosts BY <1>4 DEF Services
    <2> QED BY <1>1, <1>2, <1>3, <1>4, <2>1
<1>5. CASE job \notin {"hadoop", "revoke hadoop"}
    <2>1. Services(job) = <<GpuNode>> BY <1>5 DEF Services
    <2>2. <<GpuNode>> \in Seq(HostSet) /\ <<GpuNode>> # <<>> BY <1>1
    <2> QED BY <1>5, <2>1, <2>2
<1> QED BY <1>4, <1>5

LEMMA NoJobTyped == NoJob \in Run
<1>1. <<>> \in Seq(HostSet) /\ <<>> \in Seq(Commands) /\ "none" \in Jobs BY DEF Jobs
<1> QED BY <1>1 DEF NoJob, Run

LEMMA RunTyped ==
    ASSUME Types, HostsFit, Running, Fail \/ Reject \/ LeaveHost \/ Advance
    PROVE  worker' \in Run
<1>1. /\ worker \in Run /\ worker.hosts \in Seq(HostSet) /\ worker.todo \in Seq(Commands)
      /\ worker.hosts # <<>> /\ worker.todo # <<>>
    BY DEF Types, HostsFit, Running, Run
<1>2. /\ Tail(worker.hosts) \in Seq(HostSet) /\ Tail(worker.todo) \in Seq(Commands)
      /\ <<"connect">> \in Seq(Commands) /\ <<"mail 1/2", "mail 2/2">> \in Seq(Commands)
    <2>1. "connect" \in Commands /\ "mail 1/2" \in Commands /\ "mail 2/2" \in Commands
        BY DEF Commands
    <2>2. \A S, a, b : a \in S /\ b \in S => <<a>> \in Seq(S) /\ <<a, b>> \in Seq(S)
        OBVIOUS
    <2> QED BY <1>1, <2>1, <2>2, Parts
<1>3. NoJob \in Run BY NoJobTyped
<1>4. CASE Fail \/ Reject
    <2>1. worker.job \in Jobs /\ worker.attempt + 1 \in Nat BY <1>1 DEF Run
    <2>2. CASE worker' = NoJob BY <1>3, <2>2
    <2>3. CASE worker' = [NoJob EXCEPT !.job = worker.job, !.attempt = worker.attempt + 1]
        BY <1>3, <2>1, <2>3 DEF Run
    <2> QED BY <1>4, <2>2, <2>3 DEF Fail, Reject
<1>5. CASE LeaveHost
    BY <1>1, <1>2, <1>3, <1>5 DEF LeaveHost, Run
<1>6. CASE Advance /\ ~LeaveHost
    BY <1>1, <1>2, <1>6 DEF Advance, Run
<1> QED BY <1>4, <1>5, <1>6

LEMMA AfterTyped ==
    ASSUME NEW c, NEW a \in Account, pw \in Nat PROVE After(c, a) \in Account
<1>1. CASE c \in {"adduser", "chpasswd", "usermod -U", "usermod -L"}
    <2>1. NoAccount \in Account BY DEF NoAccount, NoPassword, Account
    <2>2. CASE c = "adduser" BY <2>1, <2>2 DEF After, Account
    <2>3. CASE c = "chpasswd"
        <3>1. After(c, a) = [a EXCEPT !.pw = pw, !.locked = FALSE] BY <2>3 DEF After
        <3>2. pw \in Int OBVIOUS
        <3> QED BY <3>1, <3>2 DEF Account
    <2>4. CASE c \in {"usermod -U", "usermod -L"} BY <2>4 DEF After, Account
    <2> QED BY <1>1, <2>2, <2>3, <2>4
<1>2. CASE c \in {"chage -E -1", "chage -E 0", "conda create"}
    BY <1>2 DEF After, Account
<1>3. CASE c \in {"ipykernel install", "usermod -aG"}
    BY <1>3 DEF After, Account
<1>4. CASE c \notin {"adduser", "chpasswd", "usermod -U", "usermod -L", "chage -E -1", "chage -E 0",
                     "conda create", "ipykernel install", "usermod -aG"}
    BY <1>4 DEF After
<1> QED BY <1>1, <1>2, <1>3, <1>4

LEMMA HereTyped ==
    ASSUME Types, HostsFit, Running
    PROVE  /\ Here \in Account /\ Head(worker.hosts) \in HostSet
           /\ Head(worker.hosts) = worker.hosts[1] /\ Head(worker.todo) = worker.todo[1]
           /\ worker.hosts \in Seq(HostSet) /\ worker.hosts # <<>>
           /\ worker.todo \in Seq(Commands) /\ worker.todo # <<>>
<1>1. /\ worker.hosts \in Seq(HostSet) /\ worker.todo \in Seq(Commands)
      /\ worker.hosts # <<>> /\ worker.todo # <<>> /\ account \in [HostSet -> Account]
    BY DEF Types, HostsFit, Running, Run
<1>2. Head(worker.hosts) = worker.hosts[1] /\ worker.hosts[1] \in HostSet
      /\ Head(worker.todo) = worker.todo[1]
    BY <1>1, Parts
<1> QED BY <1>1, <1>2 DEF Here

LEMMA WorkerTyped == ASSUME Types, HostsFit, Worker PROVE Types'
<1>1. ASSUME NEW job \in {"gpu", "hadoop"} \cup Revokes, StartJob(job) PROVE Types'
    <2>1. worker' \in Run
        <3>1. NoJob \in Run /\ job \in Jobs BY NoJobTyped DEF Jobs
        <3> QED BY <1>1, <3>1 DEF StartJob, Run
    <2>2. bounds' \in [jobs : Nat, trouble : Nat] BY <1>1 DEF StartJob, Types
    <2> QED BY <1>1, <2>1, <2>2 DEF StartJob, systems, Types
<1>2. CASE StartAttempt
    <2>1. <<"connect">> \in Seq(Commands)
        <3>1. "connect" \in Commands BY DEF Commands
        <3> QED BY <3>1
    <2>2. worker' \in Run BY <1>2, <2>1, ServicesFit DEF StartAttempt, Types, Run
    <2>3. pw' \in Nat /\ disturbed' \in BOOLEAN
        <3>1. pw \in Nat /\ pw' \in {pw, pw + 1} /\ disturbed' = FALSE BY <1>2 DEF StartAttempt, Types
        <3>2. pw' \in Nat BY <3>1
        <3>3. disturbed' \in BOOLEAN BY <3>1
        <3> QED BY <3>2, <3>3
    <2>4. UNCHANGED <<account, sudo, mailed, cleanup, bounds>> BY <1>2 DEF StartAttempt, systems
    <2> QED BY <2>2, <2>3, <2>4 DEF Types
<1>3. ASSUME NEW h \in HostSet, Connect(h) PROVE Types'
    <2>0. /\ Running /\ Head(worker.todo) = "connect"
          /\ UNCHANGED <<account, home, mailed, cleanup, pw, leaked, disturbed>>
        BY <1>3 DEF Connect
    <2>1. sudo' \in [asks : {"password", "nothing"}, ticket : BOOLEAN]
        BY <1>3 DEF Connect, Types
    <2>2. bounds' \in [jobs : Nat, trouble : Nat]
        BY <1>3 DEF Connect, Trouble, Types
    <2>3. worker' \in Run
        <3>1. CASE Fail BY <2>0, <3>1, RunTyped
        <3>2. CASE worker' = [worker EXCEPT !.needsPassword = sudo.asks = "password",
                                     !.hosts = <<h>> \o Tail(@),
                                     !.todo = Program(worker.job, Head(worker.hosts))]
            <4>1. worker.job \in Jobs \ {"none"} /\ worker.hosts \in Seq(HostSet) /\ worker.hosts # <<>>
                BY <2>0 DEF Types, HostsFit, Run
            <4>2. Program(worker.job, Head(worker.hosts)) \in Seq(Commands)
                BY <4>1, ProgramFits DEF Chain
            <4>3. <<h>> \o Tail(worker.hosts) \in Seq(HostSet)
                BY <4>1, Parts
            <4>4. (sudo.asks = "password") \in BOOLEAN OBVIOUS
            <4> QED BY <3>2, <4>2, <4>3, <4>4 DEF Types, Run
        <3> QED BY <1>3, <3>1, <3>2 DEF Connect
    <2> QED BY <2>0, <2>1, <2>2, <2>3 DEF Types
<1>4. CASE CheckState \/ Skip
    <2>1. Running /\ (Fail \/ Reject \/ LeaveHost \/ Advance)
          /\ UNCHANGED <<systems, cleanup, pw, disturbed, bounds>>
        BY <1>4 DEF CheckState, Skip
    <2>2. worker' \in Run BY <2>1, RunTyped
    <2> QED BY <2>1, <2>2 DEF systems, Types
<1>5. CASE Execute
    <2>1. Running /\ (Fail \/ Advance) /\ UNCHANGED <<sudo, mailed, cleanup, pw, disturbed>>
          /\ (Effect(Head(worker.todo)) \/ account' = account)
        BY <1>5 DEF Execute
    <2>2. worker' \in Run BY <2>1, RunTyped
    <2>3. bounds' \in [jobs : Nat, trouble : Nat] BY <1>5 DEF Execute, Trouble, Types
    <2>4. account' \in [HostSet -> Account]
        <3>1. CASE account' = account BY <3>1 DEF Types
        <3>2. CASE Effect(Head(worker.todo))
            <4>1. After(Head(worker.todo), Here) \in Account
                BY <2>1, HereTyped, AfterTyped DEF Types
            <4> QED BY <3>2, <4>1, <2>1, HereTyped DEF Effect, Here, Types
        <3> QED BY <2>1, <3>1, <3>2
    <2> QED BY <2>1, <2>2, <2>3, <2>4 DEF Types
<1>6. CASE ExecuteFails
    <2>1. worker' \in Run BY <1>6, RunTyped DEF ExecuteFails
    <2>2. bounds' \in [jobs : Nat, trouble : Nat] BY <1>6 DEF ExecuteFails, Trouble, Types
    <2> QED BY <1>6, <2>1, <2>2 DEF ExecuteFails, systems, Types
<1>7. CASE Mail
    <2>1. worker' \in Run BY <1>7, RunTyped DEF Mail
    <2>2. mailed' \in [instructions : Int, image : Int]
        <3>1. mailed \in [instructions : Int, image : Int] /\ pw \in Int BY DEF Types
        <3>2. \/ mailed' = [mailed EXCEPT !.instructions = pw]
              \/ mailed' = [mailed EXCEPT !.image = pw]
            BY <1>7 DEF Mail
        <3> QED BY <3>1, <3>2
    <2> QED BY <1>7, <2>1, <2>2 DEF Mail, Types
<1> QED BY <1>1, <1>2, <1>3, <1>4, <1>5, <1>6, <1>7 DEF Worker

LEMMA PlacesTyped == Append(Hosts, "hdfs") \in Seq(Places)
<1>1. Hosts \in Seq(Places) BY HostAssumption DEF Places
<1>2. "hdfs" \in Places BY DEF Places
<1> QED BY <1>1, <1>2

LEMMA NoCleanupTyped == NoCleanup \in Sweep
<1>1. <<>> \in Seq(Places) /\ "off" \in Phases BY DEF Phases
<1> QED BY <1>1 DEF NoCleanup, Sweep

LEMMA CleanupTyped == ASSUME Types, DeletesTheirs, Cleanup PROVE Types'
<1>0. cleanup \in Sweep /\ account \in [HostSet -> Account] /\ NoAccount \in Account
      /\ "check" \in Phases /\ "apply" \in Phases /\ "over" \in Phases
    BY DEF Phases, Types, NoAccount, NoPassword, Account
<1>1. cleanup.left # <<>> =>
        Tail(cleanup.left) \in Seq(Places) /\ Head(cleanup.left) \in Places
    BY <1>0, Parts DEF Sweep
<1>2. CASE StartCleanup
    <2>1. cleanup' \in Sweep BY <1>0, <1>2, PlacesTyped, NoCleanupTyped DEF StartCleanup, Sweep
    <2> QED BY <1>2, <2>1 DEF StartCleanup, systems, Types
<1>3. CASE CheckPlace
    <2>1. cleanup' \in Sweep BY <1>0, <1>1, <1>3 DEF CheckPlace, Sweep
    <2> QED BY <1>3, <2>1 DEF CheckPlace, systems, Types
<1>4. CASE Confirm
    <2>1. cleanup' \in Sweep BY <1>0, <1>4, PlacesTyped DEF Confirm, Sweep
    <2> QED BY <1>4, <2>1 DEF Confirm, systems, Types
<1>5. CASE StopHere
    <2>1. cleanup' \in Sweep BY <1>0, <1>5, NoCleanupTyped DEF StopHere, Sweep
    <2> QED BY <1>5, <2>1 DEF StopHere, systems, Types
<1>6. CASE CheckAgain
    <2>1. cleanup' \in Sweep BY <1>0, <1>1, <1>6 DEF CheckAgain, Sweep
    <2> QED BY <1>6, <2>1 DEF CheckAgain, systems, Types
<1>7. CASE Delete /\ cleanup.left # <<>>
    <2>1. cleanup' \in Sweep BY <1>0, <1>1, <1>7 DEF Delete, Sweep
    <2>2. account' \in [HostSet -> Account] BY <1>0, <1>7 DEF Delete
    <2> QED BY <1>7, <2>1, <2>2 DEF Delete, Types
<1>8. CASE DeleteFails
    <2>1. cleanup' \in Sweep BY <1>0, <1>1, <1>8 DEF DeleteFails, Sweep
    <2>2. bounds' \in [jobs : Nat, trouble : Nat] BY <1>8 DEF DeleteFails, Trouble, Types
    <2> QED BY <1>8, <2>1, <2>2 DEF DeleteFails, systems, Types
<1> QED BY <1>2, <1>3, <1>4, <1>5, <1>6, <1>7, <1>8 DEF Cleanup, Delete, DeletesTheirs

-----------------------------------------------------------------------------
(* The worker's run keeps the invariant *)

\* Nothing is claimed of a worker that runs no attempt.
LEMMA Stopped ==
    ASSUME Types', DeletesTheirs', ~leaked', worker'.todo = <<>>
    PROVE  LInv'
BY DEF LInv, TodoFits, HostsFit, Probed, AccountFits, HostsDone, Running

LEMMA FailStops == ASSUME Fail \/ Reject PROVE worker'.todo = <<>>
<1>1. NoJob.todo = <<>> /\ NoJob \in Run BY NoJobTyped DEF NoJob
<1>2. worker' = NoJob \/ worker' = [NoJob EXCEPT !.job = worker.job, !.attempt = worker.attempt + 1]
    BY DEF Fail, Reject
<1> QED BY <1>1, <1>2 DEF Run

\* What the cleanup script found stays the student's while the worker makes accounts.
LEMMA StillTheirs ==
    ASSUME LInv, cleanup' = cleanup, \A h \in HostSet : account[h].theirs => account'[h].theirs
    PROVE  DeletesTheirs'
<1>1. cleanup.left \in Seq(Places) BY DEF LInv, Types, Sweep
<1>2. cleanup.left # <<>> /\ cleanup.left[1] # "hdfs" => cleanup.left[1] \in HostSet
    BY <1>1, Parts DEF Places
<1> QED BY <1>2 DEF LInv, DeletesTheirs

LEMMA StartJobKeeps == ASSUME LInv, Types', NEW job, StartJob(job) PROVE LInv'
<1>1. worker'.todo = <<>> BY DEF StartJob, NoJob
<1>2. DeletesTheirs' BY StillTheirs DEF StartJob, systems
<1>3. ~leaked' BY DEF StartJob, LInv
<1> QED BY <1>1, <1>2, <1>3, Stopped

\* An attempt begins with the connection to its first host, with everything still to do.
LEMMA BeginsAnew ==
    ASSUME Types', DeletesTheirs', ~leaked', worker'.todo = <<"connect">>, HostsFit',
           (HostsDone)'
    PROVE  LInv'
<1>1. /\ worker'.todo[1] = "connect" /\ Len(worker'.todo) = 1
    OBVIOUS
<1>2. TodoFits' BY <1>1 DEF TodoFits, InOrder, Mails
<1>3. AccountFits' BY <1>1 DEF AccountFits, Fits, AfterOpen, AfterPassword, AfterGroups
<1>4. Probed' BY <1>1 DEF Probed
<1> QED BY <1>2, <1>3, <1>4 DEF LInv

LEMMA StartAttemptKeeps == ASSUME LInv, Types', StartAttempt PROVE LInv'
<1>1. worker' = [worker EXCEPT !.hosts = Services(worker.job), !.todo = <<"connect">>]
      /\ worker.job # "none" /\ UNCHANGED <<systems, cleanup, leaked>>
    BY DEF StartAttempt
<1>2. worker'.todo = <<"connect">> /\ worker'.hosts = Services(worker.job) /\ worker'.job = worker.job
      /\ worker'.todo[1] = "connect"
    BY <1>1 DEF LInv, Types, Run
<1>3. DeletesTheirs' /\ ~leaked'
    BY <1>1, StillTheirs DEF systems, LInv
<1>4. HostsFit' BY <1>1, <1>2, ServicesFit DEF HostsFit
<1>5. HostsDone' BY <1>2 DEF HostsDone, Mails
<1> QED BY <1>2, <1>3, <1>4, <1>5, BeginsAnew

\* The program of a job is begun.
LEMMA ConnectKeeps == ASSUME LInv, Types', NEW h, Connect(h) PROVE LInv'
<1>1. Running /\ Head(worker.todo) = "connect" /\ sudo'.asks = sudo.asks
      /\ UNCHANGED <<account, home, mailed, cleanup, pw, leaked, disturbed>>
    BY DEF Connect, LInv, Types
<1>2. DeletesTheirs' /\ ~leaked'
    BY <1>1, StillTheirs DEF LInv
<1>3. CASE Fail BY <1>2, <1>3, FailStops, Stopped
<1>4. CASE /\ h = Head(worker.hosts)
           /\ worker' = [worker EXCEPT !.needsPassword = sudo.asks = "password",
                                       !.hosts = <<h>> \o Tail(@),
                                       !.todo = Program(worker.job, Head(worker.hosts))]
    <2>1. /\ worker.hosts \in Seq(HostSet) /\ worker.hosts # <<>> /\ worker.todo[1] = "connect"
          /\ worker.job \in Jobs \ {"none"} /\ worker \in Run
        BY <1>1, HereTyped DEF LInv, Types, Run, HostsFit
    <2>2. <<h>> \o Tail(worker.hosts) = worker.hosts
        <3>1. worker.hosts[1] \in HostSet /\ h = worker.hosts[1] BY <1>4, <2>1, Parts
        <3>2. \A S, s : s \in Seq(S) /\ s # <<>> => <<s[1]>> \o Tail(s) = s
            <4> SUFFICES ASSUME NEW S, NEW s \in Seq(S), s # <<>> PROVE <<s[1]>> \o Tail(s) = s
                OBVIOUS
            <4>1. /\ s[1] \in S /\ Tail(s) \in Seq(S) /\ Len(s) \in Nat \ {0} /\ Len(Tail(s)) = Len(s) - 1
                  /\ \A i \in 1..(Len(s) - 1) : Tail(s)[i] = s[i + 1]
                BY Parts
            <4> DEFINE t == <<s[1]>> \o Tail(s)
            <4>2. t \in Seq(S) /\ Len(t) = Len(s) BY <4>1
            <4>3. \A i \in 1..Len(s) : t[i] = s[i] BY <4>1
            <4> QED BY <4>2, <4>3, SeqEqual
        <3> QED BY <2>1, <3>1, <3>2
    <2> DEFINE p == Program(worker.job, Head(worker.hosts))
    <2>3. Chain(p, IF worker.job \in Revokes THEN "exists" ELSE "adduser",
                   LastCheck(worker.job, Head(worker.hosts)))
        BY <2>1, ProgramFits
    <2> HIDE DEF p
    <2>4. /\ worker'.todo = p /\ worker'.hosts = worker.hosts /\ worker'.job = worker.job
          /\ worker'.needsPassword = (sudo.asks = "password")
        BY <1>4, <2>1, <2>2 DEF Run, p
    <2>5. p[1] = (IF worker.job \in Revokes THEN "exists" ELSE "adduser") /\ InOrder(p)
          /\ p[Len(p)] = LastCheck(worker.job, Head(worker.hosts))
        BY <2>3 DEF Chain
    <2>6. TodoFits'
        BY <2>4, <2>5 DEF TodoFits, Mails, InOrder
    <2>7. HostsFit' BY <1>1, <2>4 DEF LInv, HostsFit
    <2>8. Probed' BY <1>1, <2>4 DEF Probed
    <2>9. AccountFits'
        BY <2>4, <2>5 DEF AccountFits, Fits, AfterOpen, AfterPassword, AfterGroups
    <2>10. HostsDone'
        <3>1. p[1] \notin Mails BY <2>5 DEF Mails
        <3>2. \A x : IsSetUp(x) => IsSetUp(x)' BY <1>1, <2>4 DEF IsSetUp, IsOpen
        <3> QED BY <1>1, <2>4, <3>1, <3>2 DEF LInv, HostsDone, Mails
    <2> QED BY <1>2, <2>6, <2>7, <2>8, <2>9, <2>10 DEF LInv
<1> QED BY <1>3, <1>4 DEF Connect, IsExpectedHost

\* The last check on a host finds it set up.
LEMMA LastCheckDone ==
    ASSUME NEW h \in HostSet, worker.job \in SetUps, ~disturbed, account[h] \in Account,
           Fits(LastCheck(worker.job, h), account[h]), Finds(LastCheck(worker.job, h), account[h])
    PROVE  IsSetUp(h) /\ (worker.job = "hadoop" /\ h = HdfsHost => home = "student")
<1>1. CASE worker.job = "gpu"
    <2>1. LastCheck(worker.job, h) = "kernel" BY <1>1 DEF LastCheck
    <2> QED BY <1>1, <2>1 DEF Fits, Finds, IsSetUp, IsOpen, AfterOpen, AfterPassword
<1>2. CASE worker.job = "hadoop" /\ h # HdfsHost
    <2>1. LastCheck(worker.job, h) = "groups" BY <1>2 DEF LastCheck
    <2> QED BY <1>2, <2>1 DEF Fits, Finds, IsSetUp, IsOpen, AfterOpen, AfterPassword
<1>3. CASE worker.job = "hadoop" /\ h = HdfsHost
    <2>1. LastCheck(worker.job, h) = "home" BY <1>3 DEF LastCheck
    <2> QED BY <1>3, <2>1 DEF Fits, Finds, IsSetUp, IsOpen, AfterOpen, AfterPassword, AfterGroups
<1> QED BY <1>1, <1>2, <1>3 DEF SetUps

\* A host is left: for the next host, for the mails, or because there is nothing to lock.
LEMMA LeaveHostKeeps ==
    ASSUME LInv, Types', Running, worker.todo[1] \notin {"connect"} \cup Mails, LeaveHost,
           UNCHANGED <<account, home, pw, disturbed, mailed, cleanup>>, ~leaked', sudo'.asks = sudo.asks,
           worker.job \in SetUps /\ ~disturbed =>
             /\ IsSetUp(worker.hosts[1])
             /\ worker.job = "hadoop" /\ worker.hosts[1] = HdfsHost => home = "student"
    PROVE  LInv'
<1>1. DeletesTheirs'
    BY StillTheirs
<1>2. /\ worker \in Run /\ worker.job \in Jobs \ {"none"}
      /\ worker.hosts \in Seq(HostSet) /\ worker.hosts # <<>> /\ Len(worker.hosts) \in Nat \ {0}
      /\ Head(worker.todo) = worker.todo[1]
    BY HereTyped, Parts DEF LInv, Types, Run, HostsFit
<1>3. \A x, w : /\ worker' = [worker EXCEPT !.todo = w] \/ worker' = [worker EXCEPT !.hosts = x, !.todo = w]
                => worker'.todo = w /\ worker'.job = worker.job
                   /\ worker'.needsPassword = worker.needsPassword
    BY <1>2 DEF Run
<1>4. worker'.job = worker.job => \A x : IsSetUp(x) => IsSetUp(x)'
    BY DEF IsSetUp, IsOpen
<1>5. CASE Len(worker.hosts) > 1
    <2>1. worker' = [worker EXCEPT !.hosts = Tail(@), !.todo = <<"connect">>]
        BY <1>5 DEF LeaveHost
    <2>2. /\ worker'.hosts = Tail(worker.hosts) /\ worker'.todo = <<"connect">>
          /\ worker'.job = worker.job
        BY <1>2, <2>1 DEF Run
    <2>3. /\ Tail(worker.hosts) \in Seq(HostSet) /\ Len(Tail(worker.hosts)) = Len(worker.hosts) - 1
          /\ \A i \in 1..(Len(worker.hosts) - 1) : Tail(worker.hosts)[i] = worker.hosts[i + 1]
        BY <1>2, Parts
    <2>4. HostsFit'
        <3>1. worker.job \notin {"gpu", "revoke gpu"}
            <4>1. worker.job \in {"gpu", "revoke gpu"} => worker.hosts = <<GpuNode>>
                BY DEF LInv, HostsFit
            <4>2. worker.hosts = <<GpuNode>> => ~(Len(worker.hosts) > 1) BY <1>2, Lengths
            <4> QED BY <1>5, <4>1, <4>2
        <3>2. Tail(worker.hosts) # <<>> BY <1>2, <1>5, Lengths
        <3>3. Tail(worker.hosts)[Len(Tail(worker.hosts))] = worker.hosts[Len(worker.hosts)]
            BY <1>2, <1>5, <2>3
        <3> QED BY <1>2, <2>2, <3>1, <3>2, <3>3 DEF LInv, HostsFit
    <2>5. HostsDone'
        <3>1. \A x : x \in ToSet(worker.hosts) => x = worker.hosts[1] \/ x \in ToSet(Tail(worker.hosts))
            BY <1>2, Lengths
        <3>2. worker.job \in SetUps /\ ~disturbed =>
                \A x \in ToSet(Services(worker.job)) : x \notin ToSet(Tail(worker.hosts)) => IsSetUp(x)
            BY <3>1 DEF LInv, HostsDone
        <3>3. worker'.todo[1] \notin Mails
            <4>1. \A t, a : t = <<a>> => t[1] = a OBVIOUS
            <4>2. worker'.todo[1] = "connect" BY <2>2, <4>1, Zenon
            <4> QED BY <4>2 DEF Mails
        <3> QED BY <1>4, <2>2, <3>2, <3>3 DEF HostsDone, Mails
    <2> QED BY <1>1, <2>2, <2>4, <2>5, BeginsAnew
<1>6. CASE ~(Len(worker.hosts) > 1) /\ worker.job \in Revokes
    <2>1. worker' = NoJob BY <1>2, <1>6 DEF LeaveHost
    <2> QED BY <1>1, <2>1, FailStops, Stopped DEF Reject
<1>7. CASE ~(Len(worker.hosts) > 1) /\ worker.job \notin Revokes
    <2>1. worker' = [worker EXCEPT !.todo = <<"mail 1/2", "mail 2/2">>]
        <3>1. Head(worker.todo) # "mail 2/2" BY <1>2 DEF Mails
        <3> QED BY <1>7, <3>1 DEF LeaveHost
    <2>2. /\ worker'.todo = <<"mail 1/2", "mail 2/2">> /\ worker'.hosts = worker.hosts
          /\ worker'.job = worker.job /\ worker'.needsPassword = worker.needsPassword
        BY <1>2, <2>1 DEF Run
    <2>3. worker'.todo[1] = "mail 1/2" /\ worker'.todo[2] = "mail 2/2" /\ Len(worker'.todo) = 2
        <3>1. ASSUME NEW t, t = <<"mail 1/2", "mail 2/2">>
              PROVE  t[1] = "mail 1/2" /\ t[2] = "mail 2/2" /\ Len(t) = 2
            BY <3>1
        <3>2. PICK t : t = worker'.todo OBVIOUS
        <3>3. t[1] = "mail 1/2" /\ t[2] = "mail 2/2" /\ Len(t) = 2 BY <2>2, <3>1, <3>2
        <3> QED BY <3>2, <3>3
    <2>4. Len(worker.hosts) = 1 /\ worker.job \in SetUps
        <3>1. Len(worker.hosts) = 1 BY <1>2, <1>7, Lengths
        <3>2. worker.job \in SetUps BY <1>2, <1>7 DEF Jobs, SetUps
        <3> QED BY <3>1, <3>2
    <2>5. TodoFits'
        <3>1. <<"mail 1/2", "mail 2/2">> \in Follows BY DEF Follows
        <3>2. InOrder(worker'.todo)
            <4>1. \A i \in 1..(Len(worker'.todo) - 1) : i = 1 /\ i + 1 = 2
                <5>1. Len(worker'.todo) = 2 BY <2>3
                <5> QED BY <5>1
            <4> QED BY <2>3, <3>1, <4>1 DEF InOrder
        <3> QED BY <2>2, <2>3, <2>4, <3>2 DEF TodoFits, InOrder
    <2>6. HostsFit' BY <2>2 DEF LInv, HostsFit
    <2>7. Probed' BY <2>2 DEF LInv, Probed, Running
    <2>8. AccountFits'
        BY <2>3 DEF AccountFits, Fits, AfterOpen, AfterPassword, AfterGroups
    <2>9. HostsDone'
        <3>1. \A x \in ToSet(worker.hosts) : x = worker.hosts[1] BY <1>2, <2>4 DEF ToSet
        <3>2. worker.job \in SetUps /\ ~disturbed => \A x \in ToSet(Services(worker.job)) : IsSetUp(x)
            BY <3>1 DEF LInv, HostsDone
        <3>3. worker.job = "hadoop" => worker.hosts[1] = HdfsHost
            BY <2>4 DEF LInv, HostsFit
        <3>4. worker'.todo[1] # "mail 2/2" BY <2>3
        <3> QED BY <1>4, <2>2, <3>2, <3>3, <3>4 DEF HostsDone
    <2> QED BY <1>1, <2>5, <2>6, <2>7, <2>8, <2>9 DEF LInv
<1> QED BY <1>2, <1>5, <1>6, <1>7

\* What a command, a check or its omission does, when the next step follows.
Happens(c, a, b) ==
    \/ c \in Checks /\ Finds(c, a) /\ b = a
    \/ c \notin Checks /\ Needless(c, a) /\ b = a
    \/ c \notin Checks /\ Works(c, a) /\ b = After(c, a)

LEMMA AdvanceKeeps ==
    ASSUME LInv, Types', Running, worker.todo[1] \notin {"connect"} \cup Mails, Advance,
           NEW b \in Account, account' = [account EXCEPT ![Head(worker.hosts)] = b],
           Happens(worker.todo[1], Here, b),
           worker.todo[1] \in Checks => home' = home,
           DeletesTheirs', ~leaked',
           UNCHANGED <<pw, disturbed, mailed, cleanup>>, sudo'.asks = sudo.asks
    PROVE  LInv'
<1> DEFINE s == worker.todo
           h == worker.hosts[1]
<1>1. /\ worker \in Run /\ worker.job \in Jobs \ {"none"} /\ s \in Seq(Commands) /\ s # <<>>
      /\ Head(s) = s[1] /\ Head(worker.hosts) = h /\ h \in HostSet /\ Len(s) \in Nat \ {0}
      /\ Here = account[h] /\ Here \in Account /\ account \in [HostSet -> Account] /\ pw \in Nat
    BY HereTyped, Parts DEF LInv, Types, Run, HostsFit, Here
<1>2. account'[h] = b /\ \A x \in HostSet : x # h => account'[x] = account[x]
    BY <1>1
<1>3. CASE Len(s) > 1
    <2>1. worker' = [worker EXCEPT !.todo = Tail(s)]
        BY <1>3 DEF Advance
    <2>2. /\ worker'.todo = Tail(s) /\ worker'.hosts = worker.hosts
          /\ worker'.job = worker.job /\ worker'.needsPassword = worker.needsPassword
        BY <1>1, <2>1 DEF Run
    <2>3. /\ Tail(s) \in Seq(Commands) /\ Len(Tail(s)) = Len(s) - 1
          /\ \A i \in 1..(Len(s) - 1) : Tail(s)[i] = s[i + 1]
        BY <1>1, Parts
    <2>4. Tail(s)[1] = s[2] /\ Tail(s)[Len(Tail(s))] = s[Len(s)] /\ Tail(s) # <<>>
        <3>1. 1 \in 1..(Len(s) - 1) /\ 1 + 1 = 2 BY <1>1, <1>3
        <3>2. Len(s) - 1 \in 1..(Len(s) - 1) /\ (Len(s) - 1) + 1 = Len(s) BY <1>1, <1>3
        <3>4. Tail(s) # <<>> BY <1>1, <1>3, Lengths
        <3>5. Tail(s)[1] = s[2] BY <2>3, <3>1
        <3>6. Tail(s)[Len(Tail(s))] = s[Len(s)] BY <2>3, <3>2
        <3> QED BY <3>4, <3>5, <3>6
    <2>5. <<s[1], s[2]>> \in Follows
        <3>1. 1 \in 1..(Len(s) - 1) /\ 1 + 1 = 2 BY <1>1, <1>3
        <3> QED BY <3>1 DEF LInv, TodoFits, InOrder
    <2>6. s[2] \notin {"connect", "exists"} \cup Mails
        BY <2>5 DEF Follows, Mails
    <2>7. InOrder(Tail(s))
        <3> SUFFICES ASSUME NEW i \in 1..(Len(Tail(s)) - 1)
                     PROVE  <<Tail(s)[i], Tail(s)[i + 1]>> \in Follows
            BY DEF InOrder
        <3>1. i + 1 \in 1..(Len(s) - 1) /\ Tail(s)[i] = s[i + 1] /\ Tail(s)[i + 1] = s[(i + 1) + 1]
            BY <1>1, <2>3
        <3> QED BY <3>1 DEF LInv, TodoFits, InOrder
    <2>8. TodoFits'
        BY <2>2, <2>4, <2>6, <2>7 DEF LInv, TodoFits, InOrder
    <2>9. HostsFit' BY <2>2 DEF LInv, HostsFit
    <2>10. Probed' BY <2>2 DEF LInv, Probed
    <2>11. AccountFits'
        <3>1. Fits(s[1], Here) BY DEF LInv, AccountFits
        <3>2. Fits(s[2], b)
            BY <1>1, <2>5, <3>1, CommandFits DEF Happens
        <3>3. Here' = b BY <1>1, <1>2, <2>2 DEF Here
        <3>4. \A d : Fits(d, b) => Fits(d, b)' BY DEF Fits
        <3>5. \A d : d = s[2] => Fits(d, b)' BY <3>2, <3>4
        <3>6. worker'.todo[1] = s[2] BY <2>2, <2>4
        <3>7. Fits(worker.todo[1], Here)' BY <3>3, <3>5, <3>6 DEF Fits
        <3> QED BY <3>7 DEF AccountFits
    <2>12. HostsDone'
        <3>1. h \in ToSet(worker.hosts)
            <4>1. worker.hosts \in Seq(HostSet) /\ Len(worker.hosts) \in Nat \ {0}
                BY HereTyped, Parts DEF LInv
            <4>2. 1 \in DOMAIN worker.hosts BY <4>1
            <4> QED BY <4>2 DEF ToSet
        <3>2. \A x \in ToSet(Services(worker.job)) : x \in HostSet
            BY ServicesFit, Lengths
        <3>3. \A x \in HostSet : x # h /\ IsSetUp(x) => IsSetUp(x)'
            BY <1>2, <2>2 DEF IsSetUp, IsOpen
        <3> QED BY <2>2, <2>4, <2>6, <3>1, <3>2, <3>3 DEF LInv, HostsDone, Mails
    <2> QED BY <2>8, <2>9, <2>10, <2>11, <2>12 DEF LInv
<1>4. CASE ~(Len(s) > 1)
    <2>1. LeaveHost /\ Len(s) = 1
        <3>1. ~(Len(s) > 1) BY <1>4
        <3>2. Len(s) = 1 BY <1>1, <3>1, Lengths
        <3> QED BY <3>1, <3>2 DEF Advance
    <2>2. s[1] = LastCheck(worker.job, h)
        BY <1>1, <2>1 DEF LInv, TodoFits, Mails
    <2>3. s[1] \in Checks
        BY <2>2 DEF LastCheck, Checks
    <2>4. Finds(s[1], account[h]) /\ b = account[h] /\ home' = home
        BY <1>1, <2>3 DEF Happens
    <2>5. account' = account
        BY <1>1, <2>4
    <2>6. worker.job \in SetUps /\ ~disturbed =>
            /\ IsSetUp(h) /\ (worker.job = "hadoop" /\ h = HdfsHost => home = "student")
        BY <1>1, <2>2, <2>4, LastCheckDone DEF LInv, AccountFits
    <2> QED BY <2>1, <2>4, <2>5, <2>6, LeaveHostKeeps
<1> QED BY <1>1, <1>3, <1>4

\* A mail, with the password of the attempt.
LEMMA MailKeeps == ASSUME LInv, Types', Mail PROVE LInv'
<1> DEFINE s == worker.todo
<1>1. /\ Running /\ s[1] \in Mails /\ Advance /\ Head(s) = s[1] /\ s \in Seq(Commands) /\ s # <<>>
      /\ Len(s) \in Nat \ {0} /\ worker \in Run
      /\ UNCHANGED <<account, home, sudo, cleanup, pw, leaked, disturbed, bounds>>
    BY HereTyped, Parts DEF Mail, Mails, LInv, Types
<1>2. worker.job \in SetUps /\ Len(worker.hosts) = 1
    BY <1>1 DEF LInv, TodoFits
<1>3. DeletesTheirs' /\ ~leaked'
    BY <1>1, StillTheirs DEF LInv
<1>4. CASE Len(s) > 1
    <2>1. worker' = [worker EXCEPT !.todo = Tail(s)]
        BY <1>4, <1>1 DEF Advance
    <2>2. /\ worker'.todo = Tail(s) /\ worker'.hosts = worker.hosts
          /\ worker'.job = worker.job /\ worker'.needsPassword = worker.needsPassword
        BY <1>1, <2>1 DEF Run
    <2>3. /\ Tail(s) \in Seq(Commands) /\ Len(Tail(s)) = Len(s) - 1 /\ Tail(s) # <<>>
          /\ \A i \in 1..(Len(s) - 1) : Tail(s)[i] = s[i + 1]
        BY <1>1, <1>4, Parts, Lengths
    <2>4. Tail(s)[1] = s[2] /\ Tail(s)[Len(Tail(s))] = s[Len(s)]
        <3>1. 1 \in 1..(Len(s) - 1) /\ 1 + 1 = 2 BY <1>1, <1>4
        <3>2. Len(s) - 1 \in 1..(Len(s) - 1) /\ (Len(s) - 1) + 1 = Len(s) BY <1>1, <1>4
        <3>3. Tail(s)[1] = s[2] BY <2>3, <3>1
        <3>4. Tail(s)[Len(Tail(s))] = s[Len(s)] BY <2>3, <3>2
        <3> QED BY <3>3, <3>4
    <2>5. <<s[1], s[2]>> \in Follows
        <3>1. 1 \in 1..(Len(s) - 1) /\ 1 + 1 = 2 BY <1>1, <1>4
        <3> QED BY <1>1, <3>1 DEF LInv, TodoFits, InOrder
    <2>6. s[1] = "mail 1/2" /\ s[2] = "mail 2/2"
        BY <1>1, <2>5 DEF Follows, Mails
    <2>7. InOrder(Tail(s))
        <3> SUFFICES ASSUME NEW i \in 1..(Len(Tail(s)) - 1)
                     PROVE  <<Tail(s)[i], Tail(s)[i + 1]>> \in Follows
            BY DEF InOrder
        <3>1. i + 1 \in 1..(Len(s) - 1) /\ Tail(s)[i] = s[i + 1] /\ Tail(s)[i + 1] = s[(i + 1) + 1]
            BY <1>1, <2>3
        <3> QED BY <1>1, <3>1 DEF LInv, TodoFits, InOrder
    <2>8. worker'.todo[1] = "mail 2/2" BY <2>2, <2>4, <2>6
    <2>9. TodoFits'
        BY <1>1, <1>2, <2>2, <2>4, <2>7, <2>8 DEF LInv, TodoFits, InOrder
    <2>10. HostsFit' BY <1>1, <2>2 DEF LInv, HostsFit
    <2>11. Probed' BY <1>1, <2>2, <2>6 DEF LInv, Probed
    <2>12. AccountFits'
        BY <2>8 DEF AccountFits, Fits, AfterOpen, AfterPassword, AfterGroups
    <2>13. HostsDone'
        <3>1. \A x : IsSetUp(x) => IsSetUp(x)' BY <1>1, <2>2 DEF IsSetUp, IsOpen
        <3>2. mailed'.instructions = pw
            BY <1>1, <2>6 DEF Mail, LInv, Types
        <3> QED BY <1>1, <2>2, <3>1, <3>2 DEF LInv, HostsDone
    <2> QED BY <1>3, <2>9, <2>10, <2>11, <2>12, <2>13 DEF LInv
<1>5. CASE ~(Len(s) > 1)
    <2>1. Len(s) = 1 BY <1>1, <1>5, Lengths
    <2>2. s[1] \in {"mail 2/2", "connect", LastCheck(worker.job, Head(worker.hosts))}
        BY <1>1, <2>1 DEF LInv, TodoFits
    <2>3. s[1] = "mail 2/2"
        BY <1>1, <2>2 DEF Mails, LastCheck
    <2>4. LeaveHost BY <1>1, <1>5 DEF Advance
    <2>5. ~(Len(worker.hosts) > 1) BY <1>2
    <2>6. worker' = NoJob BY <1>1, <2>3, <2>4, <2>5 DEF LeaveHost
    <2> QED BY <1>3, <2>6, FailStops, Stopped DEF Reject
<1> QED BY <1>4, <1>5

LEMMA CheckStateKeeps == ASSUME LInv, Types', CheckState PROVE LInv'
<1>1. /\ Running /\ Head(worker.todo) = worker.todo[1] /\ worker.todo[1] \in Checks
      /\ UNCHANGED <<account, home, sudo, mailed, cleanup, pw, leaked, disturbed, bounds>>
      /\ Here \in Account /\ account \in [HostSet -> Account] /\ Head(worker.hosts) \in HostSet
    BY HereTyped DEF CheckState, systems, LInv, Types
<1>2. worker.todo[1] \notin {"connect"} \cup Mails
    BY <1>1 DEF Checks, Mails
<1>3. DeletesTheirs' /\ ~leaked'
    BY <1>1, StillTheirs DEF LInv
<1>4. CASE Fail \/ Reject BY <1>3, <1>4, FailStops, Stopped
<1>5. CASE Finds(worker.todo[1], Here) /\ Advance
    <2>1. account' = [account EXCEPT ![Head(worker.hosts)] = Here] BY <1>1 DEF Here
    <2>2. Happens(worker.todo[1], Here, Here) BY <1>1, <1>5 DEF Happens
    <2> QED BY <1>1, <1>2, <1>3, <1>5, <2>1, <2>2, AdvanceKeeps
<1>6. CASE worker.todo[1] = "exists" /\ LeaveHost
    <2>1. worker.job \notin SetUps
        BY <1>1, <1>6 DEF LInv, TodoFits, Revokes, SetUps
    <2> QED BY <1>1, <1>2, <1>3, <1>6, <2>1, LeaveHostKeeps
<1> QED BY <1>1, <1>4, <1>5, <1>6 DEF CheckState

LEMMA SkipKeeps == ASSUME LInv, Types', Skip PROVE LInv'
<1>1. /\ Running /\ Head(worker.todo) = worker.todo[1] /\ IsCommand(worker.todo[1])
      /\ Needless(worker.todo[1], Here) /\ Advance
      /\ UNCHANGED <<account, home, sudo, mailed, cleanup, pw, leaked, disturbed, bounds>>
      /\ Here \in Account /\ account \in [HostSet -> Account] /\ Head(worker.hosts) \in HostSet
    BY HereTyped DEF Skip, systems, LInv, Types
<1>2. worker.todo[1] \notin {"connect"} \cup Mails /\ worker.todo[1] \notin Checks
    BY <1>1 DEF IsCommand, Mails
<1>3. DeletesTheirs' /\ ~leaked'
    BY <1>1, StillTheirs DEF LInv
<1>4. account' = [account EXCEPT ![Head(worker.hosts)] = Here] BY <1>1 DEF Here
<1>5. Happens(worker.todo[1], Here, Here) BY <1>1, <1>2 DEF Happens
<1> QED BY <1>1, <1>2, <1>3, <1>4, <1>5, AdvanceKeeps

\* sudo reads its line exactly when it is sent one.
LEMMA NothingGivenAway ==
    ASSUME LInv, Running, worker.todo[1] # "connect" PROVE ~GivesAway(Head(worker.todo))
BY DEF LInv, Probed, GivesAway, SudoReadsALine

LEMMA StaysTheirs ==
    ASSUME NEW c, NEW a \in Account, a.theirs PROVE After(c, a).theirs
<1>1. NoAccount.theirs /\ NoAccount \in Account BY DEF NoAccount, NoPassword, Account
<1>2. CASE c = "adduser" BY <1>1, <1>2 DEF After, Account
<1>3. CASE c # "adduser" BY <1>3 DEF After, Account
<1> QED BY <1>2, <1>3

LEMMA ExecuteKeeps == ASSUME LInv, Types', Execute PROVE LInv'
<1> DEFINE c == worker.todo[1]
<1>1. /\ Running /\ Head(worker.todo) = c /\ IsCommand(c) /\ ~Needless(c, Here)
      /\ UNCHANGED <<sudo, mailed, cleanup, pw, disturbed>>
      /\ Here \in Account /\ account \in [HostSet -> Account] /\ Head(worker.hosts) \in HostSet
      /\ Here = account[Head(worker.hosts)] /\ pw \in Nat
    BY HereTyped DEF Execute, LInv, Types, Here
<1>2. c \notin {"connect"} \cup Mails /\ c \notin Checks
    BY <1>1 DEF IsCommand, Mails
<1>3. ~GivesAway(c)
    BY <1>1, <1>2, NothingGivenAway
<1>4. CASE Works(c, Here) /\ Effect(c)
    <2>1. account' = [account EXCEPT ![Head(worker.hosts)] = After(c, Here)]
        BY <1>1, <1>3, <1>4 DEF Effect
    <2>2. ~leaked' BY <1>3, <1>4 DEF Effect, LInv
    <2>3. DeletesTheirs'
        <3>1. \A h \in HostSet : account[h].theirs => account'[h].theirs
            BY <1>1, <2>1, StaysTheirs
        <3> QED BY <1>1, <3>1, StillTheirs
    <2>4. CASE Fail BY <2>2, <2>3, <2>4, FailStops, Stopped
    <2>5. CASE Advance
        <3>1. After(c, Here) \in Account BY <1>1, AfterTyped
        <3>2. Happens(c, Here, After(c, Here)) BY <1>2, <1>4 DEF Happens
        <3> QED BY <1>1, <1>2, <2>1, <2>2, <2>3, <2>5, <3>1, <3>2, AdvanceKeeps
    <2> QED BY <1>1, <1>3, <1>4, <2>4, <2>5 DEF Execute
<1>5. CASE UNCHANGED <<account, leaked>> /\ Fail
    <2>1. DeletesTheirs' /\ ~leaked' BY <1>1, <1>5, StillTheirs DEF LInv
    <2> QED BY <1>5, <2>1, FailStops, Stopped
<1> QED BY <1>1, <1>4, <1>5 DEF Execute

LEMMA ExecuteFailsKeeps == ASSUME LInv, Types', ExecuteFails PROVE LInv'
<1>1. DeletesTheirs' /\ ~leaked' /\ Fail
    BY StillTheirs DEF ExecuteFails, systems, LInv
<1> QED BY <1>1, FailStops, Stopped

LEMMA WorkerKeeps == ASSUME LInv, Worker PROVE LInv'
<1>1. Types' BY WorkerTyped DEF LInv
<1>2. CASE \E job \in {"gpu", "hadoop"} \cup Revokes : StartJob(job) BY <1>1, <1>2, StartJobKeeps
<1>3. CASE StartAttempt BY <1>1, <1>3, StartAttemptKeeps
<1>4. CASE \E h \in HostSet : Connect(h) BY <1>1, <1>4, ConnectKeeps
<1>5. CASE CheckState BY <1>1, <1>5, CheckStateKeeps
<1>6. CASE Skip BY <1>1, <1>6, SkipKeeps
<1>7. CASE Execute BY <1>1, <1>7, ExecuteKeeps
<1>8. CASE ExecuteFails BY <1>1, <1>8, ExecuteFailsKeeps
<1>9. CASE Mail BY <1>1, <1>9, MailKeeps
<1> QED BY <1>2, <1>3, <1>4, <1>5, <1>6, <1>7, <1>8, <1>9 DEF Worker

-----------------------------------------------------------------------------
(* The cleanup script and the rest *)

LEMMA WorkerStands ==
    ASSUME LInv, Types', DeletesTheirs', UNCHANGED <<worker, account, home, mailed, pw, disturbed, leaked>>,
           sudo'.asks = sudo.asks
    PROVE  LInv'
<1>1. TodoFits' /\ HostsFit' /\ ~leaked' BY DEF LInv, TodoFits, HostsFit, Running
<1>2. Probed' BY DEF LInv, Probed, Running
<1>3. AccountFits' BY DEF LInv, AccountFits, Fits, Here, Running, IsOpen
<1>4. HostsDone' BY DEF LInv, HostsDone, IsSetUp, IsOpen, Running
<1> QED BY <1>1, <1>2, <1>3, <1>4 DEF LInv

LEMMA DeleteKeeps == ASSUME LInv, Types', Delete PROVE LInv'
<1>1. /\ UNCHANGED <<sudo, mailed, worker, pw, leaked, bounds>> /\ disturbed' = TRUE
      /\ \E place : account' = [account EXCEPT ![place] = NoAccount] \/ account' = account
    BY DEF Delete
<1>2. TodoFits' /\ HostsFit' /\ ~leaked' BY <1>1 DEF LInv, TodoFits, HostsFit, Running
<1>3. Probed' BY <1>1 DEF LInv, Probed, Running
<1>4. HostsDone' BY <1>1 DEF HostsDone
<1>5. AccountFits'
    <2> SUFFICES ASSUME Running' PROVE Fits(worker.todo[1], Here)'
        BY DEF AccountFits
    <2>1. Running /\ Fits(worker.todo[1], Here) /\ Head(worker.hosts) \in HostSet
          /\ account \in [HostSet -> Account]
        BY <1>1, HereTyped DEF Running, LInv, AccountFits, Types
    <2>2. Here' = Here \/ Here' = NoAccount
        BY <1>1, <2>1 DEF Here
    <2>3. NoAccount.theirs /\ ~NoAccount.exists BY DEF NoAccount
    <2> QED BY <1>1, <2>1, <2>2, <2>3 DEF Fits
<1>6. DeletesTheirs'
    <2>1. cleanup'.sure = FALSE BY DEF Delete, LInv, Types, Sweep
    <2> QED BY <2>1 DEF DeletesTheirs
<1> QED BY <1>2, <1>3, <1>4, <1>5, <1>6 DEF LInv

LEMMA CleanupKeeps == ASSUME LInv, Cleanup PROVE LInv'
<1>0. Types' BY CleanupTyped DEF LInv
<1>1. cleanup \in Sweep /\ NoCleanup \in Sweep /\ ~NoCleanup.sure
    BY NoCleanupTyped DEF LInv, Types, NoCleanup
<1>2. CASE StartCleanup \/ StopHere
    <2>1. cleanup'.sure = FALSE BY <1>1, <1>2 DEF StartCleanup, StopHere, Sweep
    <2>2. DeletesTheirs' BY <2>1 DEF DeletesTheirs
    <2> QED BY <1>0, <1>2, <2>2, WorkerStands DEF StartCleanup, StopHere, systems
<1>3. CASE CheckPlace \/ Confirm
    <2>1. cleanup'.sure = cleanup.sure /\ cleanup.phase = "check"
        BY <1>1, <1>3 DEF CheckPlace, Confirm, Sweep
    <2>2. DeletesTheirs' BY <2>1 DEF LInv, DeletesTheirs
    <2> QED BY <1>0, <1>3, <2>2, WorkerStands DEF CheckPlace, Confirm, systems
<1>4. CASE CheckAgain
    <2>0. cleanup.left \in Seq(Places) /\ cleanup.left # <<>> /\ Head(cleanup.left) = cleanup.left[1]
          /\ cleanup.phase = "apply" /\ ~cleanup.sure
        BY <1>1, <1>4, Parts DEF CheckAgain, Sweep
    <2>1. ASSUME MayDelete(cleanup.left[1]) PROVE DeletesTheirs'
        <3>1. cleanup' = [cleanup EXCEPT !.sure = TRUE] BY <1>4, <2>0, <2>1 DEF CheckAgain
        <3>2. cleanup'.left = cleanup.left /\ cleanup'.phase = "apply" BY <1>1, <2>0, <3>1 DEF Sweep
        <3>3. cleanup.left[1] # "hdfs" => account[cleanup.left[1]].theirs BY <2>1 DEF MayDelete
        <3>4. account' = account BY <1>4 DEF CheckAgain, systems
        <3>5. cleanup'.left # <<>> /\ cleanup'.phase = "apply" BY <2>0, <3>2
        <3>6. cleanup'.left[1] # "hdfs" => account'[cleanup'.left[1]].theirs
            BY ONLY <3>2, <3>3, <3>4
        <3> QED BY ONLY <3>5, <3>6 DEF DeletesTheirs
    <2>2. ASSUME ~MayDelete(cleanup.left[1]) PROVE DeletesTheirs'
        <3>1. cleanup' = [cleanup EXCEPT !.left = Tail(@)] BY <1>4, <2>0, <2>2 DEF CheckAgain
        <3>2. cleanup'.sure = cleanup.sure BY <1>1, <3>1 DEF Sweep
        <3>3. ~cleanup'.sure BY <2>0, <3>2
        <3> QED BY ONLY <3>3 DEF DeletesTheirs
    <2>3. DeletesTheirs' BY <2>1, <2>2
    <2> QED BY <1>0, <1>4, <2>3, WorkerStands DEF CheckAgain, systems
<1>5. CASE Delete BY <1>0, <1>5, DeleteKeeps
<1>6. CASE DeleteFails
    <2>1. cleanup'.sure = FALSE BY <1>1, <1>6 DEF DeleteFails, Sweep
    <2>2. DeletesTheirs' BY <2>1 DEF DeletesTheirs
    <2> QED BY <1>0, <1>6, <2>2, WorkerStands DEF DeleteFails, systems
<1> QED BY <1>2, <1>3, <1>4, <1>5, <1>6 DEF Cleanup

LEMMA NextKeeps == ASSUME LInv, [Next]_vars PROVE LInv'
<1>1. CASE Worker BY <1>1, WorkerKeeps
<1>2. CASE Cleanup BY <1>2, CleanupKeeps
<1>3. CASE TicketIsCached
    <2>1. sudo'.asks = sudo.asks /\ sudo' \in [asks : {"password", "nothing"}, ticket : BOOLEAN]
          /\ UNCHANGED <<account, home, mailed, worker, cleanup, pw, leaked, disturbed, bounds>>
        BY <1>3 DEF TicketIsCached, LInv, Types
    <2>2. Types' BY <2>1 DEF LInv, Types
    <2>3. DeletesTheirs' BY <2>1 DEF LInv, DeletesTheirs
    <2> QED BY <2>1, <2>2, <2>3, WorkerStands
<1>4. CASE UNCHANGED vars
    <2>1. UNCHANGED <<account, home, sudo, mailed, worker, cleanup, pw, leaked, disturbed, bounds>>
        BY <1>4 DEF vars, systems
    <2>2. Types' BY <2>1 DEF LInv, Types
    <2>3. DeletesTheirs' BY <2>1 DEF LInv, DeletesTheirs
    <2> QED BY <2>1, <2>2, <2>3, WorkerStands
<1> QED BY <1>1, <1>2, <1>3, <1>4 DEF Next

LEMMA InitFits == Init => LInv
<1> SUFFICES ASSUME Init PROVE LInv
    OBVIOUS
<1>1. worker = NoJob /\ cleanup = NoCleanup /\ worker.todo = <<>> /\ ~cleanup.sure
    BY DEF Init, NoJob, NoCleanup
<1>2. account \in [HostSet -> Account]
    BY AccountsAssumption DEF Init
<1>3. sudo \in [asks : {"password", "nothing"}, ticket : BOOLEAN]
    BY HostAssumption DEF Init
<1>4. Types
    <2>1. mailed \in [instructions : Int, image : Int] /\ bounds \in [jobs : Nat, trouble : Nat]
        BY DEF Init
    <2>2. pw \in Nat BY DEF Init
    <2>3. disturbed \in BOOLEAN BY DEF Init
    <2> QED BY <1>1, <1>2, <1>3, <2>1, <2>2, <2>3, NoJobTyped, NoCleanupTyped DEF Types
<1>5. ~leaked BY DEF Init
<1> QED BY <1>1, <1>4, <1>5
    DEF LInv, TodoFits, HostsFit, Probed, AccountFits, HostsDone, DeletesTheirs, Running

LEMMA Invariant == Spec => []LInv
<1>1. LInv /\ [Next]_vars => LInv' BY NextKeeps
<1> QED BY <1>1, InitFits, PTL DEF Spec

-----------------------------------------------------------------------------
(* Theorems *)

\* The sudo password is read by sudo on every host, whatever sudo asks for and
\* whoever else uses it, and never becomes the input of a command.
THEOREM SudoPasswordIsKept == Spec => []SudoPasswordStays
<1>1. LInv => SudoPasswordStays BY DEF LInv, SudoPasswordStays
<1> QED BY <1>1, Invariant, PTL

\* How a step changes the accounts: a command on one host, or a deletion of what is theirs.
LEMMA AccountStep ==
    ASSUME LInv, [Next]_vars
    PROVE  \/ account' = account
           \/ /\ Running /\ ~Needless(worker.todo[1], Here)
              /\ account' = [account EXCEPT ![worker.hosts[1]] = After(worker.todo[1], Here)]
              /\ worker.hosts[1] \in HostSet /\ Here = account[worker.hosts[1]]
           \/ \E place \in HostSet :
                account[place].theirs /\ account' = [account EXCEPT ![place] = NoAccount]
                /\ worker' = worker
<1>1. CASE Execute
    <2>1. /\ Running /\ Head(worker.todo) = worker.todo[1] /\ Head(worker.hosts) = worker.hosts[1]
          /\ worker.hosts[1] \in HostSet /\ Here = account[worker.hosts[1]]
          /\ IsCommand(worker.todo[1]) /\ ~Needless(worker.todo[1], Here)
        BY <1>1, HereTyped DEF Execute, LInv, Here
    <2>2. ~GivesAway(worker.todo[1])
        BY <2>1, NothingGivenAway DEF IsCommand
    <2>3. account' = account
          \/ account' = [account EXCEPT ![worker.hosts[1]] = After(worker.todo[1], Here)]
        BY <1>1, <2>1, <2>2 DEF Execute, Effect
    <2> QED BY <2>1, <2>3
<1>2. CASE Delete
    <2>1. cleanup.left \in Seq(Places) /\ cleanup.left # <<>>
          /\ (cleanup.left[1] # "hdfs" => account[cleanup.left[1]].theirs)
        BY <1>2 DEF Delete, LInv, DeletesTheirs, Types, Sweep
    <2>2. Head(cleanup.left) = cleanup.left[1] /\ cleanup.left[1] \in HostSet \cup {"hdfs"}
        BY <2>1, Parts DEF Places
    <2> QED BY <1>2, <2>1, <2>2 DEF Delete
<1>3. CASE Worker /\ ~Execute
    BY <1>3 DEF Worker, StartJob, StartAttempt, Connect, CheckState, Skip, ExecuteFails, Mail, systems
<1>4. CASE Cleanup /\ ~Delete
    BY <1>4 DEF Cleanup, StartCleanup, CheckPlace, Confirm, StopHere, CheckAgain, DeleteFails, systems
<1>5. CASE TicketIsCached \/ UNCHANGED vars
    BY <1>5 DEF TicketIsCached, vars, systems
<1> QED BY <1>1, <1>2, <1>3, <1>4, <1>5 DEF Next

\* What a command does to an account that is there: it is opened only with the password of the
\* attempt, and someone else's keeps its password.
LEMMA CommandOnAccount ==
    ASSUME NEW c, NEW a \in Account, Fits(c, a), ~Needless(c, a), a.exists, pw \in Nat
    PROVE  /\ ~IsOpen(a) /\ IsOpen(After(c, a)) => After(c, a).pw = pw
           /\ ~a.theirs => After(c, a).exists /\ After(c, a).pw = a.pw
<1>1. c # "adduser" BY DEF Needless
<1>2. CASE c = "chpasswd"
    <2>1. After(c, a) = [a EXCEPT !.pw = pw, !.locked = FALSE] BY <1>2 DEF After
    <2>2. a.theirs BY <1>2 DEF Fits
    <2> QED BY <2>1, <2>2 DEF Account
<1>3. CASE c \in {"usermod -U", "chage -E -1"}
    <2>1. After(c, a).pw = a.pw /\ After(c, a).exists BY <1>3 DEF After, Account
    <2>2. a.pw = pw BY <1>3 DEF Fits, AfterPassword
    <2> QED BY <2>1, <2>2
<1>4. CASE c \in {"usermod -L", "chage -E 0"}
    BY <1>4 DEF After, Account, IsOpen
<1>5. CASE c \in {"conda create", "ipykernel install", "usermod -aG"}
    BY <1>5 DEF After, Account, IsOpen
<1>6. CASE c \notin {"adduser", "chpasswd", "usermod -U", "chage -E -1", "usermod -L", "chage -E 0",
                     "conda create", "ipykernel install", "usermod -aG"}
    BY <1>6 DEF After, IsOpen
<1> QED BY <1>1, <1>2, <1>3, <1>4, <1>5, <1>6

\* A locked or expired account is opened only with the password of the attempt that opens it.
THEOREM OpenedWithNewPassword == Spec => OpensWithNewPassword
<1>1. ASSUME LInv, [Next]_vars, NEW h \in HostSet,
             account[h].exists, ~IsOpen(account[h]), IsOpen(account'[h])
      PROVE  account'[h].pw = pw
    <2>0. account \in [HostSet -> Account] /\ pw \in Nat BY <1>1 DEF LInv, Types
    <2>1. CASE account' = account BY <1>1, <2>1
    <2>2. CASE /\ Running /\ ~Needless(worker.todo[1], Here)
               /\ account' = [account EXCEPT ![worker.hosts[1]] = After(worker.todo[1], Here)]
               /\ worker.hosts[1] \in HostSet /\ Here = account[worker.hosts[1]]
        <3>1. Fits(worker.todo[1], Here) BY <1>1, <2>2 DEF LInv, AccountFits
        <3>2. h = worker.hosts[1] BY <1>1, <2>0, <2>2
        <3>3. account'[h] = After(worker.todo[1], Here) /\ Here = account[h] /\ Here \in Account
            BY <2>0, <2>2, <3>2
        <3> QED BY <1>1, <2>0, <2>2, <3>1, <3>3, CommandOnAccount
    <2>3. CASE \E place \in HostSet : account' = [account EXCEPT ![place] = NoAccount]
        <3>1. ~IsOpen(NoAccount) BY DEF IsOpen, NoAccount
        <3> QED BY <1>1, <2>0, <2>3, <3>1
    <2> QED BY <1>1, <2>1, <2>2, <2>3, AccountStep
<1>2. LInv /\ [Next]_vars =>
        [\A h \in HostSet : account[h].exists /\ ~IsOpen(account[h]) /\ IsOpen(account'[h])
                            => account'[h].pw = pw]_vars
    BY <1>1
<1> QED BY <1>2, Invariant, PTL DEF Spec, OpensWithNewPassword

\* Someone else's account is neither deleted nor given a password, however the worker's job and
\* the cleanup script interleave, and a GPU job reaches no host but the one it names.
THEOREM OthersKept == Spec => OthersAreKept
<1>1. ASSUME LInv, [Next]_vars, NEW h \in HostSet, account[h].exists, ~account[h].theirs
      PROVE  account'[h].exists /\ account'[h].pw = account[h].pw
    <2>0. account \in [HostSet -> Account] /\ pw \in Nat BY <1>1 DEF LInv, Types
    <2>1. CASE account' = account BY <1>1, <2>1
    <2>2. CASE /\ Running /\ ~Needless(worker.todo[1], Here)
               /\ account' = [account EXCEPT ![worker.hosts[1]] = After(worker.todo[1], Here)]
               /\ worker.hosts[1] \in HostSet /\ Here = account[worker.hosts[1]]
        <3>1. Fits(worker.todo[1], Here) BY <1>1, <2>2 DEF LInv, AccountFits
        <3>2. CASE h = worker.hosts[1]
            <4>1. account'[h] = After(worker.todo[1], Here) /\ Here = account[h] /\ Here \in Account
                BY <2>0, <2>2, <3>2
            <4> QED BY <1>1, <2>0, <2>2, <3>1, <4>1, CommandOnAccount
        <3>3. CASE h # worker.hosts[1]
            <4>1. account'[h] = account[h] BY <2>0, <2>2, <3>3
            <4> QED BY <1>1, <4>1
        <3> QED BY <3>2, <3>3
    <2>3. CASE \E place \in HostSet :
                account[place].theirs /\ account' = [account EXCEPT ![place] = NoAccount]
        BY <1>1, <2>0, <2>3
    <2> QED BY <1>1, <2>1, <2>2, <2>3, AccountStep
<1>2. ASSUME LInv, [Next]_vars, NEW h \in HostSet, worker.job \in {"gpu", "revoke gpu"},
             worker' # worker, h # GpuNode
      PROVE  account'[h] = account[h]
    <2>0. account \in [HostSet -> Account] BY <1>2 DEF LInv, Types
    <2>1. Running => worker.hosts[1] = GpuNode
        <3>1. Running => worker.hosts = <<GpuNode>> BY <1>2 DEF LInv, HostsFit
        <3>2. \A q : q = <<GpuNode>> => q[1] = GpuNode OBVIOUS
        <3> QED BY <3>1, <3>2
    <2>2. \/ account' = account
          \/ /\ Running /\ worker.hosts[1] \in HostSet
             /\ account' = [account EXCEPT ![worker.hosts[1]] = After(worker.todo[1], Here)]
        BY <1>2, AccountStep
    <2> QED BY <1>2, <2>0, <2>1, <2>2
<1>3. LInv /\ [Next]_vars =>
        [\A h \in HostSet :
          /\ account[h].exists /\ ~account[h].theirs
             => account'[h].exists /\ account'[h].pw = account[h].pw
          /\ worker.job \in {"gpu", "revoke gpu"} /\ worker' # worker /\ h # GpuNode
             => account'[h] = account[h]]_vars
    BY <1>1, <1>2
<1> QED BY <1>3, Invariant, PTL DEF Spec, OthersAreKept

\* A set-up that ends well left everything in place on all of its hosts, with the password that
\* was mailed, whatever broke off before it, unless the cleanup script deleted something meanwhile.
THEOREM SetUpsAreComplete == Spec => SetUpIsComplete
<1>1. ASSUME LInv, [Next]_vars, worker.job \in {"gpu", "hadoop"}, Running,
             Head(worker.todo) = "mail 2/2", worker' = NoJob, bounds' = bounds, ~disturbed
      PROVE  /\ mailed'.image = mailed'.instructions
             /\ \A h \in ToSet(Services(worker.job)) :
                   /\ IsOpen(account[h]) /\ account[h].pw = mailed'.image
                   /\ worker.job = "gpu" => account[h].kernel
                   /\ worker.job = "hadoop" => account[h].groups
             /\ worker.job = "hadoop" => home = "student"
    <2>1. worker.todo[1] = "mail 2/2" BY <1>1, HereTyped DEF LInv
    <2>2. worker' # worker
        <3>1. NoJob.todo = <<>> BY DEF NoJob
        <3>2. worker.todo # <<>> BY <1>1 DEF Running
        <3> QED BY <1>1, <3>1, <3>2
    <2>3. ~Trouble
        <3>1. bounds.trouble \in Nat BY <1>1 DEF LInv, Types
        <3>2. bounds' = [bounds EXCEPT !.trouble = @ + 1] => bounds'.trouble = bounds.trouble + 1
            BY <1>1 DEF LInv, Types
        <3>3. bounds'.trouble = bounds.trouble BY <1>1
        <3>4. bounds.trouble # bounds.trouble + 1 BY <3>1
        <3> QED BY <3>2, <3>3, <3>4 DEF Trouble
    <2>4. Mail
        <3>1. Worker
            BY <1>1, <2>2 DEF Next, Cleanup, StartCleanup, CheckPlace, Confirm, StopHere, CheckAgain,
                Delete, DeleteFails, TicketIsCached, vars
        <3>2. ~CheckState /\ ~Skip /\ ~Execute
            BY <1>1 DEF CheckState, Skip, Execute, Checks, IsCommand
        <3>3. ~ExecuteFails BY <2>3 DEF ExecuteFails
        <3>4. \A h : ~Connect(h) BY <1>1 DEF Connect
        <3>5. ~StartAttempt /\ \A job : ~StartJob(job) BY <1>1 DEF StartAttempt, StartJob
        <3> QED BY <3>1, <3>2, <3>3, <3>4, <3>5 DEF Worker
    <2>5. mailed' = [mailed EXCEPT !.image = pw] BY <1>1, <2>4 DEF Mail
    <2>6. mailed'.image = pw /\ mailed'.instructions = mailed.instructions
        BY <1>1, <2>5 DEF LInv, Types
    <2>7. /\ \A h \in ToSet(Services(worker.job)) : IsSetUp(h)
          /\ worker.job = "hadoop" => home = "student"
          /\ mailed.instructions = pw
        BY <1>1, <2>1 DEF LInv, HostsDone, Mails, SetUps
    <2> QED BY <1>1, <2>6, <2>7 DEF IsSetUp
<1>2. LInv /\ [Next]_vars =>
        [worker.job \in {"gpu", "hadoop"} /\ Running /\ Head(worker.todo) = "mail 2/2"
         /\ worker' = NoJob /\ bounds' = bounds /\ ~disturbed
         => /\ mailed'.image = mailed'.instructions
            /\ \A h \in ToSet(Services(worker.job)) :
                  /\ IsOpen(account[h]) /\ account[h].pw = mailed'.image
                  /\ worker.job = "gpu" => account[h].kernel
                  /\ worker.job = "hadoop" => account[h].groups
            /\ worker.job = "hadoop" => home = "student"]_vars
    BY <1>1
<1> QED BY <1>2, Invariant, PTL DEF Spec, SetUpIsComplete

-----------------------------------------------------------------------------
(* The browser sessions on pfSense and HUE: module UserManager, for any lists *)
(* of users and any names.                                                    *)
CONSTANTS Student, Others, FullName, OtherName, WorkerOps, Lists
VARIABLES gui, rows, session, failed, trouble

GUI == INSTANCE UserManager

AllOps == {"create", "setPassword", "expire", "extend", "enable", "disable", "reset", "delete"}
Pages == {"absent", "add", "find", "verify", "open", "save", "trash"}
Session == [op : AllOps \cup {"closed", "none"}, left : Seq(Pages), href : Nat,
            form : {Student} \cup Others \cup {GUI!Nobody}]

RowsOK == rows \in Seq(GUI!Account) /\ GUI!NamesAreUnique(rows)

\* The rows under the student's name are the student's.
AllTheirs == \A i \in DOMAIN rows : rows[i].name = Student => rows[i].full = FullName

\* The pages left are the last ones of the operation.
Underway(s) ==
    /\ Len(s.left) <= Len(GUI!Steps(s.op))
    /\ \A i \in 1..Len(s.left) : s.left[i] = GUI!Steps(s.op)[Len(GUI!Steps(s.op)) - Len(s.left) + i]

\* At the form or the link that is clicked, and between the check of the full name and
\* what it is for.
AtForm(op, n) ==
    \/ op = "setPassword" /\ n = 1
    \/ op \in {"expire", "extend", "enable", "disable", "reset"} /\ n = 3
    \/ op = "delete" /\ n = 2
NameChecked(op, n) ==
    \/ op = "setPassword" /\ n = 1
    \/ op = "extend" /\ n = 3
    \/ op = "delete" /\ n \in {2, 3}

SessionOK(s) ==
    /\ s \in Session /\ Underway(s)
    /\ Len(s.left) > 0 => s.op \in AllOps
    /\ AtForm(s.op, Len(s.left)) => s.form = Student
    /\ NameChecked(s.op, Len(s.left)) => AllTheirs

GInv ==
    /\ gui \in {"pfsense", "hue"} /\ RowsOK
    /\ session \in [GUI!Parties -> Session]
    /\ \A p \in GUI!Parties : SessionOK(session[p])

-----------------------------------------------------------------------------
(* Lists of users *)

LEMMA Inserted ==
    ASSUME NEW S, NEW s \in Seq(S), NEW n, n = Len(s) + 1, NEW i \in 1..n, NEW e \in S,
           NEW t, t = InsertAt(s, i, e)
    PROVE  /\ t \in Seq(S) /\ Len(t) = n /\ t[i] = e
           /\ \A j \in 1..n : (j < i => t[j] = s[j]) /\ (j > i => t[j] = s[j - 1])
<1>1. PICK a : a = SubSeq(s, 1, i - 1) OBVIOUS
<1>2. PICK b : b = SubSeq(s, i, Len(s)) OBVIOUS
<1>3. PICK m : m = <<e>> OBVIOUS
<1>0. Len(s) \in Nat /\ \A j \in 1..Len(s) : s[j] \in S BY ElementOfSeq
<1>4. a \in Seq(S) /\ Len(a) = i - 1 /\ \A j \in 1..(i - 1) : a[j] = s[j]
    <2>1. /\ a \in Seq(S) /\ Len(a) = IF 1 <= i - 1 THEN i - 1 - 1 + 1 ELSE 0
          /\ \A j \in 1..(i - 1 - 1 + 1) : a[j] = s[1 + j - 1]
        BY <1>0, <1>1, SubSeqProperties
    <2> QED BY <1>0, <2>1
<1>5. b \in Seq(S) /\ Len(b) = Len(s) - i + 1 /\ \A j \in 1..(Len(s) - i + 1) : b[j] = s[i + j - 1]
    <2>1. /\ b \in Seq(S) /\ Len(b) = IF i <= Len(s) THEN Len(s) - i + 1 ELSE 0
          /\ \A j \in 1..(Len(s) - i + 1) : b[j] = s[i + j - 1]
        BY <1>0, <1>2, SubSeqProperties
    <2> QED BY <1>0, <2>1
<1>6. m \in Seq(S) /\ Len(m) = 1 /\ m[1] = e BY <1>3
<1>7. PICK am : am = a \o m OBVIOUS
<1>8. am \in Seq(S) /\ Len(am) = i /\ \A j \in 1..i : am[j] = IF j < i THEN s[j] ELSE e
    <2>1. /\ am \in Seq(S) /\ Len(am) = Len(a) + Len(m)
          /\ \A j \in 1..(Len(a) + Len(m)) : am[j] = IF j <= Len(a) THEN a[j] ELSE m[j - Len(a)]
        BY <1>4, <1>6, <1>7, ConcatProperties
    <2> QED BY <1>0, <1>4, <1>6, <2>1
<1>9. t = am \o b BY <1>1, <1>2, <1>3, <1>7 DEF InsertAt
<1>10. /\ t \in Seq(S) /\ Len(t) = Len(am) + Len(b)
       /\ \A j \in 1..(Len(am) + Len(b)) : t[j] = IF j <= Len(am) THEN am[j] ELSE b[j - Len(am)]
    BY <1>5, <1>8, <1>9, ConcatProperties
<1>11. Len(t) = n BY <1>0, <1>5, <1>8, <1>10
<1>12. ASSUME NEW j \in 1..n, j <= i PROVE t[j] = am[j] BY <1>0, <1>8, <1>10, <1>11, <1>12
<1>13. ASSUME NEW j \in 1..n, j > i PROVE t[j] = s[j - 1]
    <2>1. t[j] = b[j - i] BY <1>0, <1>8, <1>10, <1>11, <1>13
    <2>2. j - i \in 1..(Len(s) - i + 1) /\ i + (j - i) - 1 = j - 1 BY <1>0, <1>13
    <2> QED BY <1>5, <2>1, <2>2
<1>14. t[i] = e /\ \A j \in 1..n : j < i => t[j] = s[j] BY <1>0, <1>8, <1>12
<1> QED BY <1>10, <1>11, <1>13, <1>14

LEMMA Removed ==
    ASSUME NEW S, NEW s \in Seq(S), NEW i \in 1..Len(s), NEW t, t = RemoveAt(s, i)
    PROVE  /\ t \in Seq(S) /\ Len(t) = Len(s) - 1
           /\ \A j \in 1..Len(t) : t[j] = IF j < i THEN s[j] ELSE s[j + 1]
<1>1. PICK a : a = SubSeq(s, 1, i - 1) OBVIOUS
<1>2. PICK b : b = SubSeq(s, i + 1, Len(s)) OBVIOUS
<1>0. Len(s) \in Nat /\ \A j \in 1..Len(s) : s[j] \in S BY ElementOfSeq
<1>4. a \in Seq(S) /\ Len(a) = i - 1 /\ \A j \in 1..(i - 1) : a[j] = s[j]
    <2>1. /\ a \in Seq(S) /\ Len(a) = IF 1 <= i - 1 THEN i - 1 - 1 + 1 ELSE 0
          /\ \A j \in 1..(i - 1 - 1 + 1) : a[j] = s[1 + j - 1]
        BY <1>0, <1>1, SubSeqProperties
    <2>2. Len(a) = i - 1 BY <1>0, <2>1
    <2>3. \A j \in 1..(i - 1) : j \in 1..(i - 1 - 1 + 1) /\ 1 + j - 1 = j BY <1>0
    <2> QED BY <2>1, <2>2, <2>3
<1>5. b \in Seq(S) /\ Len(b) = Len(s) - i /\ \A j \in 1..(Len(s) - i) : b[j] = s[i + j]
    <2>1. /\ b \in Seq(S) /\ Len(b) = IF i + 1 <= Len(s) THEN Len(s) - (i + 1) + 1 ELSE 0
          /\ \A j \in 1..(Len(s) - (i + 1) + 1) : b[j] = s[(i + 1) + j - 1]
        BY <1>0, <1>2, SubSeqProperties
    <2>2. \A j \in 1..(Len(s) - i) : j \in 1..(Len(s) - (i + 1) + 1) /\ (i + 1) + j - 1 = i + j BY <1>0
    <2> QED BY <1>0, <2>1, <2>2
<1>9. t = a \o b BY <1>1, <1>2 DEF RemoveAt
<1>10. /\ t \in Seq(S) /\ Len(t) = Len(a) + Len(b)
       /\ \A j \in 1..(Len(a) + Len(b)) : t[j] = IF j <= Len(a) THEN a[j] ELSE b[j - Len(a)]
    <2>1. a \in Seq(S) /\ b \in Seq(S) BY <1>4, <1>5
    <2> QED BY <1>9, <2>1, ConcatProperties
<1>11. Len(t) = Len(s) - 1 BY <1>0, <1>4, <1>5, <1>10
<1>12. ASSUME NEW j \in 1..Len(t) PROVE t[j] = IF j < i THEN s[j] ELSE s[j + 1]
    <2>1. CASE j < i BY <1>0, <1>4, <1>5, <1>10, <2>1
    <2>2. CASE j >= i
        <3>1. t[j] = b[j - (i - 1)] BY <1>0, <1>4, <1>5, <1>10, <2>2
        <3>2. j - (i - 1) \in 1..(Len(s) - i) /\ i + (j - (i - 1)) = j + 1 BY <1>0, <1>11, <2>2
        <3> QED BY <1>5, <2>2, <3>1, <3>2
    <2> QED BY <1>0, <2>1, <2>2
<1> QED BY <1>10, <1>11, <1>12

LEMMA AccountParts ==
    ASSUME NEW a \in GUI!Account PROVE a.name \in {Student} \cup Others /\ a.full \in {FullName, OtherName}
BY DEF GUI!Account

LEMMA NewTyped ==
    GUI!NewAccount \in GUI!Account /\ GUI!NewAccount.name = Student /\ GUI!NewAccount.full = FullName
BY DEF GUI!NewAccount, GUI!Account

LEMMA RowFound ==
    ASSUME NEW name, GUI!Has(name)
    PROVE  GUI!RowOf(name) \in DOMAIN rows /\ rows[GUI!RowOf(name)].name = name
BY DEF GUI!Has, GUI!RowOf

\* How the list may change: an account under the student's name stays theirs, or is.
RowsMove == RowsOK' /\ (AllTheirs => AllTheirs')

LEMMA SameRows == ASSUME RowsOK, rows' = rows PROVE RowsMove
BY DEF RowsMove, RowsOK, AllTheirs, GUI!NamesAreUnique

LEMMA AddMoves ==
    ASSUME RowsOK, ~GUI!Has(Student), NEW i \in 1..(Len(rows) + 1),
           rows' = InsertAt(rows, i, GUI!NewAccount)
    PROVE  RowsMove /\ \A k \in DOMAIN rows : rows[k] \in ToSet(rows')
<1>1. PICK t : t = rows' OBVIOUS
<1>2. PICK new : new = GUI!NewAccount OBVIOUS
<1>3. /\ t \in Seq(GUI!Account) /\ Len(t) = Len(rows) + 1 /\ Len(rows) \in Nat
      /\ \A j \in 1..Len(t) : (j < i => t[j] = rows[j]) /\ (j > i => t[j] = rows[j - 1])
      /\ t[i] = new
    <2>1. rows \in Seq(GUI!Account) /\ new \in GUI!Account BY <1>2, NewTyped DEF RowsOK
    <2>2. Len(rows) \in Nat BY <2>1, LenProperties
    <2>3. t = InsertAt(rows, i, new) BY <1>1, <1>2
    <2>4. PICK n : n = Len(rows) + 1 OBVIOUS
    <2>5. i \in 1..n BY <2>4
    <2>6. /\ t \in Seq(GUI!Account) /\ Len(t) = n /\ t[i] = new
          /\ \A j \in 1..n : (j < i => t[j] = rows[j]) /\ (j > i => t[j] = rows[j - 1])
        BY <2>1, <2>3, <2>4, <2>5, Inserted
    <2> QED BY <2>2, <2>4, <2>6
<1>4. DOMAIN t = 1..Len(t) /\ DOMAIN rows = 1..Len(rows) BY <1>3, LenProperties DEF RowsOK
<1>5. new.name = Student /\ new.full = FullName BY <1>2, NewTyped
<1>6. \A k \in DOMAIN rows : rows[k].name # Student BY DEF GUI!Has
<1>7. GUI!NamesAreUnique(t)
    <2> SUFFICES ASSUME NEW j \in 1..Len(t), NEW k \in 1..Len(t), t[j].name = t[k].name PROVE j = k
        BY <1>4 DEF GUI!NamesAreUnique
    <2>1. CASE j = i \/ k = i
        <3>1. \A x \in 1..Len(t) : x # i => \E y \in DOMAIN rows : t[x] = rows[y]
            <4> SUFFICES ASSUME NEW x \in 1..Len(t), x # i PROVE \E y \in DOMAIN rows : t[x] = rows[y]
                OBVIOUS
            <4>1. CASE x < i BY <1>3, <1>4, <4>1
            <4>2. CASE x > i
                <5>1. t[x] = rows[x - 1] /\ x - 1 \in DOMAIN rows BY <1>3, <1>4, <4>2
                <5> QED BY <5>1
            <4> QED BY <1>3, <4>1, <4>2
        <3>2. t[i] = new BY <1>3, <2>1
        <3> QED BY <1>5, <1>6, <2>1, <3>1, <3>2
    <2>2. CASE j # i /\ k # i
        <3>1. PICK x : x = IF j < i THEN j ELSE j - 1 OBVIOUS
        <3>2. PICK y : y = IF k < i THEN k ELSE k - 1 OBVIOUS
        <3>3. x \in DOMAIN rows /\ t[j] = rows[x] /\ y \in DOMAIN rows /\ t[k] = rows[y]
            BY <1>3, <1>4, <2>2, <3>1, <3>2
        <3>4. x = y BY <3>3 DEF RowsOK, GUI!NamesAreUnique
        <3> QED BY <1>3, <2>2, <3>1, <3>2, <3>4
    <2> QED BY <2>1, <2>2
<1>8. AllTheirs => \A j \in DOMAIN t : t[j].name = Student => t[j].full = FullName
    <2> SUFFICES ASSUME AllTheirs, NEW j \in 1..Len(t), t[j].name = Student PROVE t[j].full = FullName
        BY <1>4
    <2>1. CASE j = i BY <1>3, <1>5, <2>1
    <2>2. CASE j < i BY <1>3, <1>4, <2>2 DEF AllTheirs
    <2>3. CASE j > i
        <3>1. t[j] = rows[j - 1] /\ j - 1 \in DOMAIN rows BY <1>3, <1>4, <2>3
        <3> QED BY <3>1 DEF AllTheirs
    <2> QED BY <2>1, <2>2, <2>3
<1>9. ASSUME NEW k \in DOMAIN rows PROVE rows[k] \in ToSet(t)
    <2>1. CASE k < i BY <1>3, <1>4, <2>1 DEF ToSet
    <2>2. CASE k >= i
        <3>1. k + 1 \in DOMAIN t /\ t[k + 1] = rows[k] BY <1>3, <1>4, <2>2
        <3> QED BY <3>1 DEF ToSet
    <2> QED BY <1>4, <2>1, <2>2
<1> QED BY <1>1, <1>3, <1>7, <1>8, <1>9 DEF RowsMove, RowsOK, AllTheirs

LEMMA RemoveMoves ==
    ASSUME RowsOK, NEW i \in DOMAIN rows, rows' = RemoveAt(rows, i)
    PROVE  RowsMove /\ \A k \in DOMAIN rows \ {i} : rows[k] \in ToSet(rows')
<1>1. PICK t : t = rows' OBVIOUS
<1>0. DOMAIN rows = 1..Len(rows) /\ Len(rows) \in Nat BY LenProperties DEF RowsOK
<1>3. /\ t \in Seq(GUI!Account) /\ Len(t) = Len(rows) - 1
      /\ \A j \in 1..Len(t) : t[j] = IF j < i THEN rows[j] ELSE rows[j + 1]
    <2>1. PICK s : s = rows OBVIOUS
    <2>2. s \in Seq(GUI!Account) /\ i \in 1..Len(s) BY <1>0, <2>1 DEF RowsOK
    <2>3. t = RemoveAt(s, i) BY <1>1, <2>1
    <2>4. /\ t \in Seq(GUI!Account) /\ Len(t) = Len(s) - 1
          /\ \A j \in 1..Len(t) : t[j] = IF j < i THEN s[j] ELSE s[j + 1]
        BY <2>2, <2>3, Removed
    <2> QED BY <2>1, <2>4
<1>4. DOMAIN t = 1..Len(t) BY <1>3, LenProperties
<1>5. \A j \in 1..Len(t) : j \in DOMAIN rows /\ j + 1 \in DOMAIN rows BY <1>0, <1>3
<1>7. GUI!NamesAreUnique(t)
    <2> SUFFICES ASSUME NEW j \in 1..Len(t), NEW k \in 1..Len(t), t[j].name = t[k].name PROVE j = k
        BY <1>4 DEF GUI!NamesAreUnique
    <2>1. PICK x : x = IF j < i THEN j ELSE j + 1 OBVIOUS
    <2>2. PICK y : y = IF k < i THEN k ELSE k + 1 OBVIOUS
    <2>3. x \in DOMAIN rows /\ t[j] = rows[x] /\ y \in DOMAIN rows /\ t[k] = rows[y]
        BY <1>3, <1>5, <2>1, <2>2
    <2>4. x = y BY <2>3 DEF RowsOK, GUI!NamesAreUnique
    <2> QED BY <1>0, <1>3, <2>1, <2>2, <2>4
<1>8. AllTheirs => \A j \in DOMAIN t : t[j].name = Student => t[j].full = FullName
    BY <1>3, <1>4, <1>5 DEF AllTheirs
<1>9. ASSUME NEW k \in DOMAIN rows, k # i PROVE rows[k] \in ToSet(t)
    <2>1. CASE k < i
        <3>1. k \in DOMAIN t /\ t[k] = rows[k] BY <1>0, <1>3, <1>4, <2>1
        <3> QED BY <3>1 DEF ToSet
    <2>2. CASE k > i
        <3>1. k - 1 \in 1..Len(t) BY <1>0, <1>3, <2>2
        <3>2. t[k - 1] = rows[k] BY <1>0, <1>3, <2>2, <3>1
        <3> QED BY <1>4, <3>1, <3>2 DEF ToSet
    <2> QED BY <1>0, <1>9, <2>1, <2>2
<1> QED BY <1>1, <1>3, <1>7, <1>8, <1>9 DEF RowsMove, RowsOK, AllTheirs

\* A row is changed, but not whose it is.
LEMMA ChangeMoves ==
    ASSUME RowsOK, NEW i \in DOMAIN rows, NEW a \in GUI!Account, a.name = rows[i].name,
           a.full = rows[i].full, rows' = [rows EXCEPT ![i] = a]
    PROVE  RowsMove /\ \A k \in DOMAIN rows \ {i} : rows[k] \in ToSet(rows')
<1>1. PICK t : t = rows' OBVIOUS
<1>2. DOMAIN rows = 1..Len(rows) BY LenProperties DEF RowsOK
<1>3. t \in Seq(GUI!Account) BY <1>1, <1>2, ExceptSeq DEF RowsOK
<1>4. DOMAIN t = DOMAIN rows /\ \A k \in DOMAIN rows : t[k] = IF k = i THEN a ELSE rows[k] BY <1>1
<1>5. \A k \in DOMAIN rows : t[k].name = rows[k].name /\ t[k].full = rows[k].full BY <1>4
<1>6. GUI!NamesAreUnique(t) BY <1>4, <1>5 DEF RowsOK, GUI!NamesAreUnique
<1>7. AllTheirs => \A k \in DOMAIN t : t[k].name = Student => t[k].full = FullName
    BY <1>4, <1>5 DEF AllTheirs
<1>8. \A k \in DOMAIN rows \ {i} : rows[k] \in ToSet(t) BY <1>4 DEF ToSet
<1> QED BY <1>1, <1>3, <1>6, <1>7, <1>8 DEF RowsMove, RowsOK, AllTheirs

-----------------------------------------------------------------------------
(* The browser sessions *)

LEMMA OpsTyped ==
    ASSUME GUI!Parameters, GInv, NEW p \in GUI!Parties, NEW op \in GUI!Ops(p)
    PROVE  op \in AllOps
BY DEF GUI!Parameters, GUI!Ops, AllOps

LEMMA ThreePages ==
    ASSUME NEW a \in Pages, NEW b \in Pages, NEW c \in Pages, NEW s, s = <<a, b, c>>
    PROVE  s \in Seq(Pages) /\ Len(s) = 3 /\ s[1] = a /\ s[2] = b /\ s[3] = c
OBVIOUS

LEMMA FourPages ==
    ASSUME NEW a \in Pages, NEW b \in Pages, NEW c \in Pages, NEW d \in Pages, NEW s, s = <<a, b, c, d>>
    PROVE  s \in Seq(Pages) /\ Len(s) = 4 /\ s[1] = a /\ s[2] = b /\ s[3] = c /\ s[4] = d
OBVIOUS

LEMMA FivePages ==
    ASSUME NEW a \in Pages, NEW b \in Pages, NEW c \in Pages, NEW d \in Pages, NEW e \in Pages,
           NEW s, s = <<a, b, c, d, e>>
    PROVE  /\ s \in Seq(Pages) /\ Len(s) = 5
           /\ s[1] = a /\ s[2] = b /\ s[3] = c /\ s[4] = d /\ s[5] = e
OBVIOUS

\* What an operation goes through, page by page.
LEMMA LongSteps ==
    ASSUME NEW op, op \notin {"create", "setPassword", "delete"}, NEW s, s = GUI!Steps(op)
    PROVE  /\ s \in Seq(Pages) /\ Len(s) = 5
           /\ s[1] = "find" /\ s[2] = "open" /\ s[3] = "save" /\ s[4] = "find" /\ s[5] = "verify"
<1>1. "find" \in Pages /\ "open" \in Pages /\ "save" \in Pages /\ "verify" \in Pages BY DEF Pages
<1>2. s = <<"find", "open", "save", "find", "verify">> BY DEF GUI!Steps
<1> QED BY <1>1, <1>2, FivePages

LEMMA StepsAre ==
    ASSUME NEW op, NEW s, s = GUI!Steps(op)
    PROVE  /\ s \in Seq(Pages)
           /\ op = "create" => /\ Len(s) = 4
                               /\ s[1] = "absent" /\ s[2] = "add" /\ s[3] = "find" /\ s[4] = "verify"
           /\ op = "setPassword" => Len(s) = 3 /\ s[1] = "find" /\ s[2] = "open" /\ s[3] = "save"
           /\ op = "delete" => /\ Len(s) = 5 /\ s[1] = "find" /\ s[2] = "open" /\ s[3] = "find"
                               /\ s[4] = "trash" /\ s[5] = "absent"
           /\ op \notin {"create", "setPassword", "delete"} =>
                 /\ Len(s) = 5 /\ s[1] = "find" /\ s[2] = "open" /\ s[3] = "save"
                 /\ s[4] = "find" /\ s[5] = "verify"
<1>0. /\ "absent" \in Pages /\ "add" \in Pages /\ "find" \in Pages /\ "verify" \in Pages
      /\ "open" \in Pages /\ "save" \in Pages /\ "trash" \in Pages
    BY DEF Pages
<1>1. CASE op = "create"
    <2>1. s = <<"absent", "add", "find", "verify">> BY <1>1 DEF GUI!Steps
    <2> QED BY <1>0, <1>1, <2>1, FourPages
<1>2. CASE op = "setPassword"
    <2>1. s = <<"find", "open", "save">> BY <1>2 DEF GUI!Steps
    <2>2. s \in Seq(Pages) /\ Len(s) = 3 /\ s[1] = "find" /\ s[2] = "open" /\ s[3] = "save"
        BY <1>0, <2>1, ThreePages
    <2> QED BY <1>2, <2>2
<1>3. CASE op = "delete"
    <2>1. s = <<"find", "open", "find", "trash", "absent">> BY <1>3 DEF GUI!Steps
    <2> QED BY <1>0, <1>3, <2>1, FivePages
<1>4. CASE op \notin {"create", "setPassword", "delete"} BY <1>4, LongSteps
<1> QED BY <1>1, <1>2, <1>3, <1>4

LEMMA StepsTyped ==
    ASSUME NEW op
    PROVE  GUI!Steps(op) \in Seq(Pages) /\ Len(GUI!Steps(op)) \in Nat
<1>1. GUI!Steps(op) \in Seq(Pages) BY StepsAre
<1> QED BY <1>1, LenProperties

LEMMA SessionParts ==
    ASSUME NEW s \in Session
    PROVE  /\ s.op \in AllOps \cup {"closed", "none"} /\ s.left \in Seq(Pages) /\ s.href \in Nat
           /\ s.form \in {Student} \cup Others \cup {GUI!Nobody}
BY DEF Session

LEMMA PartiesSessions ==
    ASSUME GInv, NEW p \in GUI!Parties
    PROVE  session[p] \in Session /\ SessionOK(session[p])
BY DEF GInv

LEMMA ClosedTyped ==
    /\ GUI!Closed \in Session /\ GUI!Ready \in Session
    /\ Len(GUI!Closed.left) = 0 /\ Len(GUI!Ready.left) = 0
    /\ GUI!Closed.op = "closed" /\ GUI!Ready.op = "none"
<1>1. << >> \in Seq(Pages) /\ Len(<< >>) = 0 OBVIOUS
<1>2. GUI!Closed = [op |-> "closed", left |-> << >>, href |-> 0, form |-> GUI!Nobody]
    BY DEF GUI!Closed
<1>3. GUI!Ready = [op |-> "none", left |-> << >>, href |-> 0, form |-> GUI!Nobody]
    BY <1>2 DEF GUI!Ready
<1> QED BY <1>1, <1>2, <1>3 DEF Session

\* A session that does nothing is as it should be, before and after any step.
LEMMA Idle ==
    ASSUME NEW s \in Session, Len(s.left) = 0
    PROVE  Underway(s) /\ ~AtForm(s.op, Len(s.left)) /\ ~NameChecked(s.op, Len(s.left))
<1>1. Len(GUI!Steps(s.op)) \in Nat BY StepsTyped
<1>2. Underway(s) BY <1>1 DEF Underway
<1> QED BY <1>2 DEF AtForm, NameChecked

LEMMA IdleOK ==
    /\ SessionOK(GUI!Closed) /\ SessionOK(GUI!Ready)
    /\ SessionOK(GUI!Closed)' /\ SessionOK(GUI!Ready)'
<1>1. ASSUME NEW s \in {GUI!Closed, GUI!Ready} PROVE SessionOK(s) /\ SessionOK(s)'
    <2>1. s \in Session /\ Len(s.left) = 0 BY ClosedTyped
    <2>2. Underway(s) /\ ~AtForm(s.op, Len(s.left)) /\ ~NameChecked(s.op, Len(s.left))
        BY <2>1, Idle
    <2> QED BY <2>1, <2>2 DEF SessionOK
<1> QED BY <1>1

\* Where an operation can be when it has pages left: its name and how many.
LEMMA PageOf ==
    ASSUME GInv, NEW p \in GUI!Parties, session[p].left # << >>,
           NEW s, s = session[p], NEW n, n = Len(s.left)
    PROVE  /\ s \in Session /\ s.left # << >> /\ n \in 1..Len(GUI!Steps(s.op))
           /\ s.op \in AllOps
           /\ Head(s.left) = GUI!Steps(s.op)[Len(GUI!Steps(s.op)) - n + 1]
<1>1. s \in Session /\ Underway(s) BY PartiesSessions DEF SessionOK
<1>2. s.left \in Seq(Pages) /\ s.left # << >> BY <1>1, SessionParts
<1>3. n \in Nat \ {0} /\ s.left[1] = Head(s.left) BY <1>2, EmptySeq
<1>4. n <= Len(GUI!Steps(s.op)) /\ Len(GUI!Steps(s.op)) \in Nat BY <1>1, StepsTyped DEF Underway
<1>5. s.left[1] = GUI!Steps(s.op)[Len(GUI!Steps(s.op)) - n + 1]
    <2>1. \A i \in 1..n : s.left[i] = GUI!Steps(s.op)[Len(GUI!Steps(s.op)) - n + i]
        BY <1>1 DEF Underway
    <2>2. 1 \in 1..n BY <1>3
    <2> QED BY <2>1, <2>2
<1>6. n \in 1..Len(GUI!Steps(s.op)) BY <1>3, <1>4
<1>7. s.op \in AllOps BY <1>3, PartiesSessions DEF SessionOK
<1>8. Head(s.left) = GUI!Steps(s.op)[Len(GUI!Steps(s.op)) - n + 1] BY <1>3, <1>5
<1> QED BY <1>1, <1>2, <1>6, <1>7, <1>8

LEMMA PagesOf ==
    ASSUME GInv, NEW p \in GUI!Parties, session[p].left # << >>,
           NEW op, op = session[p].op, NEW n, n = Len(session[p].left)
    PROVE  /\ GUI!At(p, "open") <=> \/ op = "setPassword" /\ n = 2
                                    \/ op \notin {"create", "setPassword"} /\ n = 4
           /\ GUI!At(p, "save") <=> \/ op = "setPassword" /\ n = 1
                                    \/ op \notin {"create", "setPassword", "delete"} /\ n = 3
           /\ GUI!At(p, "trash") <=> op = "delete" /\ n = 2
           /\ op = "delete" /\ n = 3 => GUI!At(p, "find")
           /\ GUI!At(p, "add") <=> op = "create" /\ n = 3
           /\ op \in AllOps /\ n \in 1..5
<1>1. PICK s : s = GUI!Steps(op) OBVIOUS
<1>0. PICK step : step = Head(session[p].left) OBVIOUS
<1>9. \A x : GUI!At(p, x) <=> step = x BY <1>0 DEF GUI!At
<1>2. n \in 1..Len(s) /\ step = s[Len(s) - n + 1] /\ Len(s) \in Nat
    <2>1. PICK x : x = session[p] OBVIOUS
    <2>2. n = Len(x.left) BY <2>1
    <2>3. n \in 1..Len(GUI!Steps(x.op)) BY <2>1, <2>2, PageOf
    <2>4. Head(x.left) = GUI!Steps(x.op)[Len(GUI!Steps(x.op)) - n + 1] BY <2>1, <2>2, PageOf
    <2> QED BY <1>0, <1>1, <2>1, <2>3, <2>4, StepsTyped
<1>8. op \in AllOps
    <2>1. PICK x : x = session[p] OBVIOUS
    <2>2. n = Len(x.left) /\ op = x.op BY <2>1
    <2> QED BY <2>1, <2>2, PageOf
<1>a. PICK k : k = Len(s) - n + 1 OBVIOUS
<1>b. k \in 1..Len(s) /\ n = Len(s) - k + 1 /\ step = s[k] BY <1>2, <1>a
<1>3. CASE op = "create"
    <2>1. /\ Len(s) = 4 /\ s[1] = "absent" /\ s[2] = "add" /\ s[3] = "find"
          /\ s[4] = "verify"
        BY <1>1, <1>3, StepsAre
    <2>2. k = 1 \/ k = 2 \/ k = 3 \/ k = 4 BY <1>b, <2>1
    <2>3. n = 5 - k BY <1>b, <2>1
    <2> QED BY <1>8, <1>9, <1>b, <1>3, <2>1, <2>2, <2>3
<1>4. CASE op = "setPassword"
    <2>1. /\ Len(s) = 3 /\ s[1] = "find" /\ s[2] = "open" /\ s[3] = "save"
        BY <1>1, <1>4, StepsAre
    <2>2. k = 1 \/ k = 2 \/ k = 3 BY <1>b, <2>1
    <2>3. n = 4 - k BY <1>b, <2>1
    <2> QED BY <1>8, <1>9, <1>b, <1>4, <2>1, <2>2, <2>3
<1>5. CASE op = "delete"
    <2>1. /\ Len(s) = 5 /\ s[1] = "find" /\ s[2] = "open" /\ s[3] = "find"
          /\ s[4] = "trash" /\ s[5] = "absent"
        BY <1>1, <1>5, StepsAre
    <2>2. k = 1 \/ k = 2 \/ k = 3 \/ k = 4 \/ k = 5 BY <1>b, <2>1
    <2>3. n = 6 - k BY <1>b, <2>1
    <2>4. /\ (step = "open" <=> k = 2) /\ (step = "trash" <=> k = 4) /\ step # "save" /\ step # "add"
          /\ k = 3 => step = "find"
        BY <1>b, <2>1, <2>2
    <2> QED BY <1>8, <1>9, <1>5, <2>2, <2>3, <2>4
<1>6. CASE op \notin {"create", "setPassword", "delete"}
    <2>1. /\ Len(s) = 5 /\ s[1] = "find" /\ s[2] = "open" /\ s[3] = "save"
          /\ s[4] = "find" /\ s[5] = "verify"
        BY <1>1, <1>6, LongSteps
    <2>2. k = 1 \/ k = 2 \/ k = 3 \/ k = 4 \/ k = 5 BY <1>b, <2>1
    <2>3. n = 6 - k BY <1>b, <2>1
    <2>4. (step = "open" <=> k = 2) /\ (step = "save" <=> k = 3) /\ step # "trash" /\ step # "add"
        BY <1>b, <2>1, <2>2
    <2> QED BY <1>8, <1>9, <1>6, <2>2, <2>3, <2>4
<1> QED BY <1>3, <1>4, <1>5, <1>6

\* A party's session changes as it should, and the other's is what it was.
LEMMA OneSession ==
    ASSUME GInv, RowsMove, gui' = gui, NEW p \in GUI!Parties, NEW s, SessionOK(s)',
           session' = [session EXCEPT ![p] = s]
    PROVE  GInv'
<1>1. s \in Session BY DEF SessionOK
<1>2. session' \in [GUI!Parties -> Session] BY <1>1 DEF GInv
<1>3. ASSUME NEW q \in GUI!Parties PROVE SessionOK(session[q])'
    <2>1. CASE q = p
        <3>1. session'[q] = s BY <2>1 DEF GInv
        <3> QED BY <3>1
    <2>2. CASE q # p
        <3>1. session'[q] = session[q] BY <2>2 DEF GInv
        <3>2. SessionOK(session[q]) BY DEF GInv
        <3>3. AllTheirs => AllTheirs' BY DEF RowsMove
        <3>4. PICK x : x = session[q] OBVIOUS
        <3>5. SessionOK(x)' BY <3>2, <3>3, <3>4 DEF SessionOK
        <3> QED BY <3>1, <3>4, <3>5
    <2> QED BY <2>1, <2>2
<1> QED BY <1>2, <1>3 DEF GInv, RowsMove

LEMMA NoSession ==
    ASSUME GInv, RowsMove, gui' = gui, session' = session PROVE GInv'
<1>1. ASSUME NEW q \in GUI!Parties PROVE SessionOK(session[q])'
    <2>1. SessionOK(session[q]) BY DEF GInv
    <2>2. AllTheirs => AllTheirs' BY DEF RowsMove
    <2>3. PICK x : x = session[q] OBVIOUS
    <2>4. SessionOK(x)' BY <2>1, <2>2, <2>3 DEF SessionOK
    <2> QED BY <2>3, <2>4
<1> QED BY <1>1 DEF GInv, RowsMove

LEMMA ThrowsKeeps ==
    ASSUME GInv, RowsMove, gui' = gui, NEW p \in GUI!Parties, GUI!Throws(p) PROVE GInv'
<1>1. session' = [session EXCEPT ![p] = GUI!Closed] BY DEF GUI!Throws
<1> QED BY <1>1, IdleOK, OneSession

LEMMA DoneKeeps ==
    ASSUME GInv, RowsMove, gui' = gui, NEW p \in GUI!Parties, GUI!Done(p) PROVE GInv'
<1>1. session' = [session EXCEPT ![p] = GUI!Ready] BY DEF GUI!Done, GUI!Moves
<1> QED BY <1>1, IdleOK, OneSession

\* The search before a row is deleted is the third last page.
LEMMA FindOfDelete ==
    ASSUME GInv, NEW p \in GUI!Parties, session[p].left # << >>,
           session[p].op = "delete", Len(session[p].left) = 3
    PROVE  GUI!At(p, "find")
<1>1. PICK op : op = session[p].op OBVIOUS
<1>2. PICK n : n = Len(session[p].left) OBVIOUS
<1>3. op = "delete" /\ n = 3 => GUI!At(p, "find") BY <1>1, <1>2, PagesOf
<1> QED BY <1>1, <1>2, <1>3

\* The operation goes on to its next page.
LEMMA OnwardsKeeps ==
    ASSUME GInv, RowsMove, gui' = gui, NEW p \in GUI!Parties, session[p].left # << >>,
           NEW href \in Nat, NEW form \in {Student} \cup Others \cup {GUI!Nobody},
           GUI!Onwards(p, href, form),
           GUI!At(p, "open") \/ GUI!At(p, "find") => form = Student,
           GUI!At(p, "open") /\ session[p].op \in {"setPassword", "extend", "delete"} => AllTheirs
    PROVE  GInv'
<1>1. PICK s : s = session[p] OBVIOUS
<1>2. PICK n : n = Len(s.left) OBVIOUS
<1>3. /\ s \in Session /\ s.left # << >> /\ n \in 1..Len(GUI!Steps(s.op)) /\ s.op \in AllOps
    BY <1>1, <1>2, PageOf
<1>4. s.left \in Seq(Pages) /\ n \in Nat BY <1>2, <1>3, SessionParts
<1>5. CASE n = 1
    <2>1. session' = [session EXCEPT ![p] = GUI!Ready] BY <1>1, <1>2, <1>5 DEF GUI!Onwards, GUI!Moves
    <2> QED BY <2>1, IdleOK, OneSession
<1>6. CASE n # 1
    <2>1. PICK left : left = Tail(s.left) OBVIOUS
    <2>2. /\ left \in Seq(Pages) /\ Len(left) = n - 1
          /\ \A i \in 1..(n - 1) : left[i] = s.left[i + 1]
        BY <1>2, <1>3, <1>4, <2>1, HeadTailProperties
    <2>3. PICK new : new = [s EXCEPT !.left = left, !.href = href, !.form = form] OBVIOUS
    <2>4. /\ new \in Session /\ new.op = s.op /\ new.left = left /\ new.form = form
        BY <1>3, <2>2, <2>3 DEF Session
    <2>5. session' = [session EXCEPT ![p] = new]
        <3>1. new = [session[p] EXCEPT !.left = Tail(session[p].left), !.href = href, !.form = form]
            BY <1>1, <2>1, <2>3
        <3>2. GUI!Moves(p, new) BY <1>1, <1>2, <1>6, <3>1 DEF GUI!Onwards
        <3> QED BY <3>2 DEF GUI!Moves
    <2>6. Underway(new)
        <3>1. PICK all : all = GUI!Steps(s.op) OBVIOUS
        <3>2. /\ Len(all) \in Nat /\ n <= Len(all)
              /\ \A i \in 1..n : s.left[i] = all[Len(all) - n + i]
            BY <1>1, <1>2, <3>1, StepsTyped, PartiesSessions DEF SessionOK, Underway
        <3>3. ASSUME NEW i \in 1..(n - 1) PROVE left[i] = all[Len(all) - (n - 1) + i]
            <4>1. i + 1 \in 1..n /\ Len(all) - n + (i + 1) = Len(all) - (n - 1) + i BY <1>4, <3>2
            <4> QED BY <2>2, <3>2, <4>1
        <3>4. GUI!Steps(new.op) = all /\ Len(new.left) = n - 1 /\ n - 1 <= Len(all)
            BY <1>4, <2>2, <2>4, <3>1, <3>2
        <3>5. \A i \in 1..(n - 1) : (new.left)[i] = all[Len(all) - (n - 1) + i] BY <2>4, <3>3
        <3> QED BY <3>4, <3>5 DEF Underway
    <2>0. ASSUME s.op = "delete", n = 3 PROVE GUI!At(p, "find")
        <3>1. session[p].op = "delete" /\ Len(session[p].left) = 3 BY <1>1, <1>2, <2>0
        <3> QED BY <3>1, FindOfDelete
    <2>7. GUI!At(p, "open") <=> (s.op = "setPassword" /\ n = 2) \/ (s.op \notin {"create", "setPassword"} /\ n = 4)
        <3>1. PICK op : op = session[p].op OBVIOUS
        <3>2. n = Len(session[p].left) BY <1>1, <1>2
        <3>3. GUI!At(p, "open") <=> (op = "setPassword" /\ n = 2) \/ (op \notin {"create", "setPassword"} /\ n = 4)
            BY <3>1, <3>2, PagesOf
        <3> QED BY <1>1, <3>1, <3>3
    <2>8. AtForm(new.op, n - 1) => new.form = Student
        BY <1>4, <2>0, <2>4, <2>7 DEF AtForm
    <2>9. NameChecked(new.op, n - 1) => AllTheirs'
        <3>1. SUFFICES ASSUME NameChecked(new.op, n - 1) PROVE AllTheirs BY DEF RowsMove
        <3>2. CASE GUI!At(p, "open") BY <1>1, <2>4, <3>1, <3>2 DEF NameChecked
        <3>3. CASE ~GUI!At(p, "open")
            <4>1. s.op = "delete" /\ n = 3 BY <1>4, <2>4, <2>7, <3>1, <3>3 DEF NameChecked
            <4> QED BY <1>1, <1>2, <4>1, PartiesSessions DEF SessionOK, NameChecked
        <3> QED BY <3>2, <3>3
    <2>10. SessionOK(new)' BY <1>3, <2>2, <2>4, <2>6, <2>8, <2>9 DEF SessionOK
    <2> QED BY <2>5, <2>10, OneSession
<1> QED BY <1>5, <1>6

-----------------------------------------------------------------------------
(* The pages *)

\* What a step of a session keeps in the list: the accounts of others.
Kept(p) ==
    \A i \in DOMAIN rows :
        /\ rows[i].name # Student \/ (GUI!ChecksFullName(session[p].op) /\ rows[i].full # FullName)
        /\ ~GUI!TookPlace(p, i)
        => rows[i] \in ToSet(rows')

LEMMA SameKept == ASSUME rows' = rows, NEW p PROVE Kept(p)
BY DEF Kept, ToSet

LEMMA RowNumber ==
    ASSUME RowsOK, NEW i \in DOMAIN rows PROVE i \in Nat /\ rows[i] \in GUI!Account
<1>1. DOMAIN rows = 1..Len(rows) /\ Len(rows) \in Nat BY LenProperties DEF RowsOK
<1>2. i \in 1..Len(rows) BY <1>1
<1> QED BY <1>1, <1>2, ElementOfSeq DEF RowsOK

LEMMA NoForm == GUI!Nobody \in {Student} \cup Others \cup {GUI!Nobody} /\ 0 \in Nat
OBVIOUS

LEMMA FindKeeps ==
    ASSUME GInv, NEW p \in GUI!Parties, GUI!Find(p) PROVE GInv' /\ Kept(p)
<1>1. gui' = gui /\ rows' = rows /\ session[p].left # << >> /\ ~GUI!At(p, "open")
    BY DEF GUI!Find, GUI!At
<1>2. RowsMove BY <1>1, SameRows DEF GInv
<1>3. CASE GUI!Has(Student)
    <2>1. GUI!Onwards(p, GUI!RowOf(Student), Student) BY <1>3 DEF GUI!Find
    <2>2. GUI!RowOf(Student) \in Nat BY <1>3, RowFound, RowNumber DEF GInv
    <2>3. GInv' BY <1>1, <1>2, <2>1, <2>2, NoForm, OnwardsKeeps
    <2> QED BY <1>1, <2>3, SameKept
<1>4. CASE ~GUI!Has(Student)
    <2>1. GUI!Throws(p) BY <1>4 DEF GUI!Find
    <2> QED BY <1>1, <1>2, <2>1, ThrowsKeeps, SameKept
<1> QED BY <1>3, <1>4

LEMMA AbsentKeeps ==
    ASSUME GInv, NEW p \in GUI!Parties, GUI!Absent(p) PROVE GInv' /\ Kept(p)
<1>1. gui' = gui /\ rows' = rows /\ session[p].left # << >> /\ ~GUI!At(p, "open") /\ ~GUI!At(p, "find")
    BY DEF GUI!Absent, GUI!At
<1>2. RowsMove BY <1>1, SameRows DEF GInv
<1>3. CASE GUI!Has(Student)
    <2>1. GUI!Throws(p) BY <1>3 DEF GUI!Absent
    <2> QED BY <1>1, <1>2, <2>1, ThrowsKeeps, SameKept
<1>4. CASE ~GUI!Has(Student)
    <2>1. GUI!Onwards(p, 0, GUI!Nobody) BY <1>4 DEF GUI!Absent
    <2>2. GInv' BY <1>1, <1>2, <2>1, NoForm, OnwardsKeeps
    <2> QED BY <1>1, <2>2, SameKept
<1> QED BY <1>3, <1>4

\* The page that is opened is the student's; where the full name is checked, so is
\* every row under the username, because there is one.
LEMMA OpenKeeps ==
    ASSUME GInv, NEW p \in GUI!Parties, GUI!Open(p) PROVE GInv' /\ Kept(p)
<1>1. gui' = gui /\ rows' = rows /\ session[p].left # << >> BY DEF GUI!Open, GUI!At
<1>2. RowsMove BY <1>1, SameRows DEF GInv
<1>3. PICK i : i = GUI!Shown(p) OBVIOUS
<1>4. \/ GUI!Throws(p) \/ GUI!Done(p)
      \/ /\ i \in DOMAIN rows /\ GUI!IsTheirs(p, rows[i]) /\ GUI!Onwards(p, i, rows[i].name)
    BY <1>3 DEF GUI!Open
<1>5. ASSUME i \in DOMAIN rows, GUI!IsTheirs(p, rows[i]), GUI!Onwards(p, i, rows[i].name) PROVE GInv'
    <2>1. rows[i].name = Student BY <1>5 DEF GUI!IsTheirs
    <2>2. i \in Nat BY <1>5, RowNumber DEF GInv
    <2>3. ASSUME session[p].op \in {"setPassword", "extend", "delete"} PROVE AllTheirs
        <3>1. rows[i].full = FullName BY <1>5, <2>3 DEF GUI!IsTheirs, GUI!ChecksFullName
        <3>2. \A j \in DOMAIN rows : rows[j].name = Student => j = i
            BY <1>5, <2>1 DEF GInv, RowsOK, GUI!NamesAreUnique
        <3> QED BY <3>1, <3>2 DEF AllTheirs
    <2>4. GUI!Onwards(p, i, Student) BY <1>5, <2>1
    <2> QED BY <1>1, <1>2, <2>2, <2>3, <2>4, OnwardsKeeps
<1>6. GInv' BY <1>1, <1>2, <1>4, <1>5, ThrowsKeeps, DoneKeeps
<1> QED BY <1>1, <1>6, SameKept

LEMMA ChangedRow ==
    ASSUME NEW a \in GUI!Account, NEW op \in {"setPassword", "expire", "extend", "enable", "disable", "reset"},
           NEW b, b = GUI!Changed(op, a)
    PROVE  b \in GUI!Account /\ b.name = a.name /\ b.full = a.full
<1>1. CASE op = "setPassword" BY <1>1 DEF GUI!Changed, GUI!Account
<1>2. CASE op \in {"expire", "extend"} BY <1>2 DEF GUI!Changed, GUI!Account
<1>3. CASE op = "enable" BY <1>3 DEF GUI!Changed, GUI!Account
<1>4. CASE op = "disable" BY <1>4 DEF GUI!Changed, GUI!Account
<1>5. CASE op = "reset" BY <1>5 DEF GUI!Changed, GUI!Account
<1> QED BY <1>1, <1>2, <1>3, <1>4, <1>5

\* A form or a link about the student reaches the student's row, or the one that took
\* its place on pfSense.
LEMMA ReachedRow ==
    ASSUME GInv, NEW p \in GUI!Parties, session[p].form = Student, GUI!At(p, "save") \/ GUI!At(p, "trash"),
           NEW k \in GUI!Reached(p)
    PROVE  k \in DOMAIN rows /\ (rows[k].name = Student \/ GUI!TookPlace(p, k))
<1>1. k \in DOMAIN rows /\ (k = GUI!Shown(p) \/ rows[k].name = Student) BY DEF GUI!Reached
<1>2. ASSUME k = GUI!Shown(p), rows[k].name # Student PROVE GUI!TookPlace(p, k)
    <2>1. gui = "pfsense"
        <3>1. SUFFICES ASSUME gui # "pfsense" PROVE FALSE OBVIOUS
        <3>2. 0 \notin DOMAIN rows
            <4>1. DOMAIN rows = 1..Len(rows) BY LenProperties DEF GInv, RowsOK
            <4> QED BY <4>1
        <3> QED BY <1>1, <1>2, <3>1, <3>2, RowFound DEF GUI!Shown
    <2>2. k = session[p].href BY <1>2, <2>1 DEF GUI!Shown
    <2>3. ~GUI!SameRow(p) BY <1>2 DEF GUI!SameRow
    <2> QED BY <2>1, <2>2, <2>3 DEF GUI!TookPlace
<1> QED BY <1>1, <1>2

\* Where a row is saved, it is the student's; where the full name is checked, under it.
LEMMA SaveKeeps ==
    ASSUME GInv, NEW p \in GUI!Parties, GUI!Save(p) PROVE GInv' /\ Kept(p)
<1>1. /\ gui' = gui /\ session[p].left # << >> /\ GUI!At(p, "save")
      /\ ~GUI!At(p, "open") /\ ~GUI!At(p, "find")
    BY DEF GUI!Save, GUI!At
<1>2. PICK op : op = session[p].op OBVIOUS
<1>3. PICK n : n = Len(session[p].left) OBVIOUS
<1>4. /\ op \in AllOps
      /\ \/ op = "setPassword" /\ n = 1
         \/ op \notin {"create", "setPassword", "delete"} /\ n = 3
    BY <1>1, <1>2, <1>3, PagesOf
<1>5. op \in {"setPassword", "expire", "extend", "enable", "disable", "reset"} BY <1>4 DEF AllOps
<1>6. session[p].form = Student BY <1>2, <1>3, <1>4, <1>5, PartiesSessions DEF SessionOK, AtForm
<1>7. GUI!ChecksFullName(op) => AllTheirs
    BY <1>2, <1>3, <1>4, <1>5, PartiesSessions DEF SessionOK, NameChecked, GUI!ChecksFullName
<1>8. ASSUME NEW k \in GUI!Reached(p), rows' = [rows EXCEPT ![k] = GUI!Changed(session[p].op, @)],
             GUI!Onwards(p, 0, GUI!Nobody)
      PROVE  GInv' /\ Kept(p)
    <2>1. k \in DOMAIN rows /\ (rows[k].name = Student \/ GUI!TookPlace(p, k)) BY <1>1, <1>6, ReachedRow
    <2>3. PICK b : b = GUI!Changed(op, rows[k]) OBVIOUS
    <2>4. b \in GUI!Account /\ b.name = rows[k].name /\ b.full = rows[k].full
        BY <1>5, <2>1, <2>3, RowNumber, ChangedRow DEF GInv
    <2>5. rows' = [rows EXCEPT ![k] = b] BY <1>2, <1>8, <2>3
    <2>6. RowsMove /\ \A i \in DOMAIN rows \ {k} : rows[i] \in ToSet(rows')
        BY <2>1, <2>4, <2>5, ChangeMoves DEF GInv
    <2>7. GInv' BY <1>1, <1>8, <2>6, NoForm, OnwardsKeeps
    <2>8. Kept(p) BY <1>2, <1>7, <2>1, <2>6 DEF Kept, AllTheirs
    <2> QED BY <2>7, <2>8
<1>9. ASSUME GUI!Throws(p), rows' = rows PROVE GInv' /\ Kept(p)
    <2>1. RowsMove BY <1>9, SameRows DEF GInv
    <2> QED BY <1>1, <1>9, <2>1, ThrowsKeeps, SameKept
<1> QED BY <1>8, <1>9 DEF GUI!Save

LEMMA AddKeeps ==
    ASSUME GInv, NEW p \in GUI!Parties, GUI!Add(p) PROVE GInv' /\ Kept(p)
<1>1. gui' = gui /\ session[p].left # << >> /\ ~GUI!At(p, "open") /\ ~GUI!At(p, "find") BY DEF GUI!Add, GUI!At
<1>2. CASE ~GUI!Has(Student)
    <2>1. PICK i \in 1..(Len(rows) + 1) : rows' = InsertAt(rows, i, GUI!NewAccount)
        BY <1>2 DEF GUI!Add, GUI!InsertAt, InsertAt
    <2>2. RowsMove /\ \A k \in DOMAIN rows : rows[k] \in ToSet(rows')
        BY <1>2, <2>1, AddMoves DEF GInv
    <2>3. GUI!Onwards(p, 0, GUI!Nobody) BY <1>2 DEF GUI!Add
    <2>4. GInv' BY <1>1, <2>2, <2>3, NoForm, OnwardsKeeps
    <2> QED BY <2>2, <2>4 DEF Kept
<1>3. CASE GUI!Has(Student)
    <2>1. GUI!Throws(p) /\ rows' = rows BY <1>3 DEF GUI!Add
    <2>2. RowsMove BY <2>1, SameRows DEF GInv
    <2> QED BY <1>1, <2>1, <2>2, ThrowsKeeps, SameKept
<1> QED BY <1>2, <1>3

\* The row in the trash is under the username, and under the full name that was checked.
LEMMA TrashKeeps ==
    ASSUME GInv, NEW p \in GUI!Parties, GUI!Trash(p) PROVE GInv' /\ Kept(p)
<1>1. /\ gui' = gui /\ session[p].left # << >> /\ GUI!At(p, "trash")
      /\ ~GUI!At(p, "open") /\ ~GUI!At(p, "find")
    BY DEF GUI!Trash, GUI!At
<1>2. PICK op : op = session[p].op OBVIOUS
<1>3. PICK n : n = Len(session[p].left) OBVIOUS
<1>4. op = "delete" /\ n = 2 BY <1>1, <1>2, <1>3, PagesOf
<1>5. AllTheirs /\ session[p].form = Student
    BY <1>2, <1>3, <1>4, PartiesSessions DEF SessionOK, NameChecked, AtForm
<1>6. ASSUME NEW k \in GUI!Reached(p), rows' = RemoveAt(rows, k),
             GUI!Onwards(p, 0, GUI!Nobody) \/ GUI!Throws(p)
      PROVE  GInv' /\ Kept(p)
    <2>1. k \in DOMAIN rows /\ (rows[k].name = Student \/ GUI!TookPlace(p, k)) BY <1>1, <1>5, ReachedRow
    <2>2. RowsMove /\ \A i \in DOMAIN rows \ {k} : rows[i] \in ToSet(rows')
        BY <1>6, <2>1, RemoveMoves DEF GInv
    <2>3. GInv'
        <3>1. ASSUME GUI!Onwards(p, 0, GUI!Nobody) PROVE GInv' BY <1>1, <2>2, <3>1, NoForm, OnwardsKeeps
        <3>2. ASSUME GUI!Throws(p) PROVE GInv' BY <1>1, <2>2, <3>2, ThrowsKeeps
        <3> QED BY <1>6, <3>1, <3>2
    <2>4. Kept(p) BY <1>5, <2>1, <2>2 DEF Kept, AllTheirs
    <2> QED BY <2>3, <2>4
<1>7. ASSUME GUI!Throws(p), rows' = rows PROVE GInv' /\ Kept(p)
    <2>1. RowsMove BY <1>7, SameRows DEF GInv
    <2> QED BY <1>1, <1>7, <2>1, ThrowsKeeps, SameKept
<1>8. \/ \E k \in GUI!Reached(p) :
            /\ rows' = RemoveAt(rows, k)
            /\ GUI!Onwards(p, 0, GUI!Nobody) \/ GUI!Throws(p)
      \/ GUI!Throws(p) /\ rows' = rows
    BY DEF GUI!Trash, GUI!RemoveAt, RemoveAt
<1> QED BY <1>6, <1>7, <1>8

LEMMA VerifyKeeps ==
    ASSUME GInv, NEW p \in GUI!Parties, GUI!Verify(p) PROVE GInv' /\ Kept(p)
<1>1. gui' = gui /\ rows' = rows /\ (GUI!Throws(p) \/ GUI!Done(p)) BY DEF GUI!Verify
<1>2. RowsMove BY <1>1, SameRows DEF GInv
<1> QED BY <1>1, <1>2, ThrowsKeeps, DoneKeeps, SameKept

-----------------------------------------------------------------------------
(* A session's other steps, and what else happens *)

\* An operation begins on its first page, with nothing checked.
LEMMA StartKeeps ==
    ASSUME GUI!Parameters, GInv, NEW p \in GUI!Parties, NEW op \in GUI!Ops(p), GUI!Start(p, op)
    PROVE  GInv' /\ Kept(p)
<1>1. gui' = gui /\ rows' = rows BY DEF GUI!Start
<1>2. RowsMove BY <1>1, SameRows DEF GInv
<1>3. op \in AllOps BY OpsTyped
<1>4. PICK left : left = GUI!Steps(op) OBVIOUS
<1>5. left \in Seq(Pages) /\ Len(left) \in Nat BY <1>4, StepsTyped
<1>6. PICK new : new = [GUI!Ready EXCEPT !.op = op, !.left = left] OBVIOUS
<1>7. new \in Session /\ new.op = op /\ new.left = left
    BY <1>3, <1>5, <1>6, ClosedTyped DEF Session
<1>8. Underway(new)
    <2>1. GUI!Steps(new.op) = left BY <1>4, <1>7
    <2>2. Len(left) <= Len(left) BY <1>5
    <2>3. \A i \in 1..Len(left) : left[i] = left[Len(left) - Len(left) + i]
        <3> SUFFICES ASSUME NEW i \in 1..Len(left) PROVE left[i] = left[Len(left) - Len(left) + i]
            OBVIOUS
        <3>1. Len(left) - Len(left) + i = i BY <1>5
        <3> QED BY <3>1
    <2> QED BY <1>7, <2>1, <2>2, <2>3 DEF Underway
<1>9. ~AtForm(op, Len(left)) /\ ~NameChecked(op, Len(left))
    <2>1. op = "setPassword" => Len(left) = 3 BY <1>4, StepsAre
    <2>2. op = "delete" => Len(left) = 5 BY <1>4, StepsAre
    <2>3. op \notin {"create", "setPassword", "delete"} => Len(left) = 5 BY <1>4, StepsAre
    <2> QED BY <2>1, <2>2, <2>3 DEF AtForm, NameChecked
<1>10. SessionOK(new)' BY <1>3, <1>7, <1>8, <1>9 DEF SessionOK
<1>11. session' = [session EXCEPT ![p] = new] BY <1>4, <1>6 DEF GUI!Start
<1> QED BY <1>1, <1>2, <1>10, <1>11, OneSession, SameKept

LEMMA PartyKeeps ==
    ASSUME GUI!Parameters, GInv, NEW p \in GUI!Parties, GUI!Party(p) PROVE GInv' /\ Kept(p)
<1>1. ASSUME GUI!Login(p) PROVE GInv' /\ Kept(p)
    <2>1. gui' = gui /\ rows' = rows /\ session' = [session EXCEPT ![p] = GUI!Ready]
        BY <1>1 DEF GUI!Login
    <2>2. RowsMove BY <2>1, SameRows DEF GInv
    <2> QED BY <2>1, <2>2, IdleOK, OneSession, SameKept
<1>2. ASSUME GUI!Close(p) PROVE GInv' /\ Kept(p)
    <2>1. gui' = gui /\ rows' = rows /\ session' = [session EXCEPT ![p] = GUI!Closed]
        BY <1>2 DEF GUI!Close
    <2>2. RowsMove BY <2>1, SameRows DEF GInv
    <2> QED BY <2>1, <2>2, IdleOK, OneSession, SameKept
<1>3. ASSUME NEW op \in GUI!Ops(p), GUI!Start(p, op) PROVE GInv' /\ Kept(p) BY <1>3, StartKeeps
<1>4. ASSUME GUI!Page(p) PROVE GInv' /\ Kept(p)
    BY <1>4, FindKeeps, AbsentKeeps, OpenKeeps, SaveKeeps, AddKeeps, TrashKeeps, VerifyKeeps
       DEF GUI!Page
<1>5. ASSUME GUI!StepFails(p) PROVE GInv' /\ Kept(p)
    <2>1. gui' = gui /\ rows' = rows /\ GUI!Throws(p) BY <1>5 DEF GUI!StepFails
    <2>2. RowsMove BY <2>1, SameRows DEF GInv
    <2> QED BY <2>1, <2>2, ThrowsKeeps, SameKept
<1>6. ASSUME GUI!SaveIsLost(p) PROVE GInv' /\ Kept(p)
    <2>1. /\ gui' = gui /\ rows' = rows /\ GUI!Onwards(p, 0, GUI!Nobody)
          /\ session[p].left # << >> /\ ~GUI!At(p, "open") /\ ~GUI!At(p, "find")
        BY <1>6 DEF GUI!SaveIsLost, GUI!At
    <2>2. RowsMove BY <2>1, SameRows DEF GInv
    <2>3. GInv' BY <2>1, <2>2, NoForm, OnwardsKeeps
    <2> QED BY <2>1, <2>3, SameKept
<1> QED BY <1>1, <1>2, <1>3, <1>4, <1>5, <1>6 DEF GUI!Party

\* A session's step leaves the other party's session alone.
LEMMA PartyAlone ==
    ASSUME GInv, NEW p \in GUI!Parties, GUI!Party(p), NEW q \in GUI!Parties, q # p
    PROVE  session'[q] = session[q]
<1>1. \E s : session' = [session EXCEPT ![p] = s]
    BY DEF GUI!Party, GUI!Login, GUI!Close, GUI!Start, GUI!Page, GUI!Find, GUI!Absent, GUI!Open,
           GUI!Save, GUI!Add, GUI!Trash, GUI!Verify, GUI!StepFails, GUI!SaveIsLost, GUI!Onwards,
           GUI!Done, GUI!Moves, GUI!Throws
<1> QED BY <1>1 DEF GInv

LEMMA OfficeKeeps ==
    ASSUME GInv, GUI!OfficeDeletes \/ GUI!OfficeDisables PROVE GInv' /\ session' = session
<1>1. gui' = gui /\ session' = session BY DEF GUI!OfficeDeletes, GUI!OfficeDisables
<1>2. ASSUME GUI!OfficeDeletes PROVE RowsMove
    <2>1. PICK i \in DOMAIN rows : rows' = RemoveAt(rows, i)
        BY <1>2 DEF GUI!OfficeDeletes, GUI!RemoveAt, RemoveAt
    <2> QED BY <2>1, RemoveMoves DEF GInv
<1>3. ASSUME GUI!OfficeDisables PROVE RowsMove
    <2>1. PICK i \in DOMAIN rows : rows' = [rows EXCEPT ![i].disabled = TRUE]
        BY <1>3 DEF GUI!OfficeDisables
    <2>2. PICK b : b = [rows[i] EXCEPT !.disabled = TRUE] OBVIOUS
    <2>3. rows[i] \in GUI!Account BY RowNumber DEF GInv
    <2>4. b \in GUI!Account /\ b.name = rows[i].name /\ b.full = rows[i].full
        BY <2>2, <2>3 DEF GUI!Account
    <2>5. rows' = [rows EXCEPT ![i] = b] BY <2>1, <2>2
    <2> QED BY <2>4, <2>5, ChangeMoves DEF GInv
<1> QED BY <1>1, <1>2, <1>3, NoSession

LEMMA GInit == ASSUME GUI!Parameters, GUI!Init PROVE GInv
<1>1. RowsOK BY DEF GUI!Parameters, GUI!Init, RowsOK
<1>2. \A p \in GUI!Parties : session[p] = GUI!Closed BY DEF GUI!Init
<1>3. session \in [GUI!Parties -> Session] BY ClosedTyped DEF GUI!Init
<1> QED BY <1>1, <1>2, <1>3, IdleOK DEF GInv, GUI!Init

LEMMA GStep ==
    ASSUME GUI!Parameters, GInv, [GUI!Next]_(GUI!vars)
    PROVE  /\ GInv'
           /\ \A p \in GUI!Parties : session'[p] # session[p] => Kept(p)
<1>1. ASSUME NEW p \in GUI!Parties, GUI!Party(p)
      PROVE  GInv' /\ \A q \in GUI!Parties : session'[q] # session[q] => Kept(q)
    BY <1>1, PartyKeeps, PartyAlone
<1>2. ASSUME GUI!LoginRefused \/ GUI!GiveUp \/ UNCHANGED GUI!vars
      PROVE  GInv' /\ session' = session
    <2>1. gui' = gui /\ rows' = rows /\ session' = session
        BY <1>2 DEF GUI!LoginRefused, GUI!GiveUp, GUI!vars
    <2>2. RowsMove BY <2>1, SameRows DEF GInv
    <2> QED BY <2>1, <2>2, NoSession
<1> QED BY <1>1, <1>2, OfficeKeeps DEF GUI!Next

\* A session on a product's pages changes no other person's account: whatever the
\* list, whoever else deletes or disables rows meanwhile, and however the pages fail,
\* a row that is not the student's, and a namesake's where the full name is checked
\* (pfsense.js:213, 225, 262-263), is in the list after the step as it was before it;
\* but for the row that took the student's place on pfSense after its page was checked.
THEOREM SessionsKeepOthers == ASSUME GUI!Parameters PROVE GUI!Spec => GUI!OthersAreKept
<1>1. GUI!Init => GInv BY GInit
<1>2. GInv /\ [GUI!Next]_(GUI!vars) => GInv' BY GStep
<1>3. GInv /\ [GUI!Next]_(GUI!vars) =>
         [\A p \in GUI!Parties : session'[p] # session[p] =>
             \A i \in DOMAIN rows :
                /\ \/ rows[i].name # Student
                   \/ GUI!ChecksFullName(session[p].op) /\ rows[i].full # FullName
                /\ ~GUI!TookPlace(p, i)
                => rows[i] \in GUI!ToSet(rows')]_(GUI!vars)
    BY GStep DEF Kept, ToSet, GUI!ToSet
<1> QED BY <1>1, <1>2, <1>3, PTL DEF GUI!Spec, GUI!OthersAreKept

=============================================================================
