------------------------------- MODULE Sessions -------------------------------
(***************************************************************************)
(* The sign-in of one browser: the signed token in its cookie, which ends  *)
(* after a time without activity and at the latest some time after the     *)
(* sign-in; its renewal by the calls of the page; the page, which learns   *)
(* from a refused call that the sign-in is over; and the notification      *)
(* bell, whose calls overlap and whose timed poll is no activity.          *)
(*                                                                         *)
(* A call carries the cookie of the moment it was sent, and its answer     *)
(* may set or clear the cookie when it arrives.  Signing, Google, the      *)
(* profile and the role are left out.                                      *)
(***************************************************************************)
EXTENDS Integers, FiniteSets

CONSTANTS
    Idle,          \* SESSION_IDLE_MINUTES
    Longest,       \* SESSION_MAX_HOURS
    RefreshAfter,  \* REFRESH_AFTER_SECONDS
    Latency,       \* a call is answered, or given up, within this time
    Horizon,       \* bound: the clock stops here
    MaxCalls,      \* bound: calls under way
    MaxNews,       \* bound: changes the bell has to show
    MaxSignIns,    \* bound: sign-ins
    MaxTrouble     \* bound: calls lost

ASSUME TimesAssumption ==
    /\ Idle \in Nat \ {0} /\ Longest \in Nat \ {0}
    /\ RefreshAfter \in Nat \ {0} /\ Latency \in Nat \ {0} /\ Horizon \in Nat
ASSUME BoundsAssumption ==
    /\ MaxCalls \in Nat /\ MaxNews \in Nat /\ MaxSignIns \in Nat /\ MaxTrouble \in Nat

VARIABLES
    now,      \* the time
    cookie,   \* the token the browser holds
    page,     \* what the page knows of the sign-in
    news,     \* changes of the requests so far
    bell,     \* how many of them the bell shows
    calls,    \* calls under way, and answers on their way back
    signIns,  \* history: when Google signed the person in
    active,   \* history: when the backend last took a call that counts as activity
    told,     \* history: the same, of the calls whose answer has arrived
    lost      \* calls lost so far

vars == <<now, cookie, page, news, bell, calls, signIns, active, told, lost>>

NoToken == [iat |-> -1, exp |-> -1, auth_time |-> -1]
Tokens == {NoToken} \cup [iat : 0..Horizon, exp : 1..(Horizon + Idle), auth_time : 0..Horizon]

Pages == {"anon", "loading", "ready", "expired"}
Kinds == {"me", "user", "bell", "poll", "logout"}
BellKinds == {"bell", "poll"}

Init ==
    /\ now = 0
    /\ cookie = NoToken
    /\ page = "anon"
    /\ news = 0 /\ bell = 0
    /\ calls = {}
    /\ signIns = {} /\ active = 0 /\ told = 0
    /\ lost = 0

Smaller(a, b) == IF a <= b THEN a ELSE b

------------------------------------------------------------------------------
\* The backend

issueSession_Sliding(auth_time) ==
    [iat |-> now, exp |-> Smaller(now + Idle, now + Longest), auth_time |-> auth_time]

issueSession(auth_time) ==
    [iat |-> now, exp |-> Smaller(now + Idle, auth_time + Longest), auth_time |-> auth_time]

Valid(token) == token # NoToken /\ token.exp > now

shouldRefresh_AfterIdle(token) == now - token.iat >= Idle
shouldRefresh(token) == now - token.iat >= RefreshAfter

\* The bell's timed poll says that it is in the background.
CountsAsActivity(kind) == kind # "poll"

\* The cookie an answer sets: a new token, none, or the one that was sent (no change).
SetCookie(c) ==
    IF c.kind = "logout" THEN NoToken
    ELSE IF Valid(c.token) /\ CountsAsActivity(c.kind) /\ shouldRefresh(c.token)
      THEN issueSession(c.token.auth_time)
    ELSE c.token

Status(c) ==
    IF c.kind = "logout" THEN "ok"
    ELSE IF ~Valid(c.token) THEN "401"
    ELSE "ok"

Accepts(c) == c.kind # "logout" /\ Valid(c.token)

\* What is left of a call on its way back.
Done(c, answer) == [c EXCEPT !.answer = answer, !.token = NoToken, !.seen = 0]

Handle(c) ==
    LET counts == Accepts(c) /\ CountsAsActivity(c.kind) IN
    /\ c.answer = "none"
    /\ calls' = (calls \ {c}) \cup
         {[Done(c, Status(c)) EXCEPT
             !.set = IF SetCookie(c) = c.token THEN {} ELSE {SetCookie(c)},
             !.news = IF c.kind \in BellKinds THEN news ELSE 0,
             !.handled = IF counts THEN now ELSE 0]}
    /\ active' = IF Accepts(c) /\ c.kind # "poll" THEN now ELSE active
    /\ UNCHANGED <<now, cookie, page, news, bell, signIns, told, lost>>

\* Someone else changes a request.
NewsComes ==
    /\ news < MaxNews
    /\ news' = news + 1
    /\ UNCHANGED <<now, cookie, page, bell, calls, signIns, active, told, lost>>

------------------------------------------------------------------------------
\* The page

\* Only the newest call of the bell may change it.
Older(all) == {[c EXCEPT !.newest = FALSE] : c \in all}

Call(kind, token) ==
    [kind |-> kind, at |-> now, token |-> token, seen |-> told, newest |-> kind \in BellKinds,
     answer |-> "none", set |-> {}, news |-> 0, handled |-> 0]

\* The callback of a sign-in sets the cookie and loads the page.
SignIn ==
    LET token == issueSession(now) IN
    /\ page \in {"anon", "expired"} /\ calls = {}
    /\ Cardinality(signIns) < MaxSignIns
    /\ cookie' = token
    /\ page' = "loading"
    /\ calls' = {[Call("me", token) EXCEPT !.seen = now]}
    /\ signIns' = signIns \cup {now} /\ active' = now /\ told' = now
    /\ UNCHANGED <<now, news, bell, lost>>

\* The page is opened or loaded again; the model does it only with no call under way.
LoadPage ==
    /\ calls = {} /\ page # "loading"
    /\ page' = "loading"
    /\ bell' = 0
    /\ calls' = {Call("me", cookie)}
    /\ UNCHANGED <<now, cookie, news, signIns, active, told, lost>>

Send(kind) ==
    /\ page = "ready" /\ kind # "me"
    /\ Cardinality(calls) < MaxCalls
    /\ calls' = (IF kind \in BellKinds THEN Older(calls) ELSE calls) \cup {Call(kind, cookie)}
    /\ UNCHANGED <<now, cookie, page, news, bell, signIns, active, told, lost>>

\* The timer of the bell, while the page is visible.
Poll == Send("poll")

\* The call, or its answer, does not arrive.
Lose(c) ==
    /\ c.answer # "lost" /\ lost < MaxTrouble
    /\ calls' = (calls \ {c}) \cup
         {[Done(c, "lost") EXCEPT !.set = {}, !.news = 0, !.handled = 0]}
    /\ lost' = lost + 1
    /\ UNCHANGED <<now, cookie, page, news, bell, signIns, active, told>>

EndsSession_ByTheUser(c) == c.answer = "401" /\ c.kind = "user"

\* A 401 to anything but the question who is signed in tells the page.
EndsSession(c) == c.answer = "401" /\ c.kind # "me"

PageAfter(c) ==
    CASE c.kind = "me" -> IF c.answer = "ok" THEN "ready" ELSE "anon"
      [] c.kind = "logout" -> "anon"
      [] EndsSession(c) /\ page = "ready" -> "expired"
      [] OTHER -> page

Newest_Any(c) == TRUE
Newest(c) == c.newest

\* The bell is taken down with the page it is on.
BellAfter(c) ==
    IF PageAfter(c) # "ready" THEN 0
    ELSE IF c.kind \in BellKinds /\ Newest(c)
      THEN IF c.answer = "ok" THEN c.news ELSE 0
    ELSE bell

Receive(c) ==
    /\ c.answer # "none"
    /\ cookie' = IF c.set = {} THEN cookie ELSE CHOOSE token \in c.set : TRUE
    /\ page' = PageAfter(c)
    /\ bell' = BellAfter(c)
    /\ calls' = IF page' = "ready" THEN calls \ {c} ELSE Older(calls \ {c})
    /\ told' = IF c.handled > told THEN c.handled ELSE told
    /\ UNCHANGED <<now, news, signIns, active, lost>>

Tick ==
    /\ now < Horizon
    /\ \A c \in calls : now < c.at + Latency
    /\ now' = now + 1
    /\ UNCHANGED <<cookie, page, news, bell, calls, signIns, active, told, lost>>

------------------------------------------------------------------------------
Next ==
    \/ SignIn \/ LoadPage \/ Poll \/ NewsComes \/ Tick
    \/ \E kind \in Kinds : Send(kind)
    \/ \E c \in calls : Handle(c) \/ Lose(c) \/ Receive(c)

\* The bell's timer fires, the backend answers and the browser hands the answer on.
Fairness ==
    /\ WF_vars(Poll)
    /\ WF_vars(\E c \in calls : Handle(c))
    /\ WF_vars(\E c \in calls : Receive(c))

Spec == Init /\ [][Next]_vars /\ Fairness

------------------------------------------------------------------------------
\* Properties

\* A call is taken only within the idle time of the last one that counts as activity, and
\* however busy the page is no longer after a sign-in with Google than a sign-in may last:
\* polls do not prolong it, and a renewal never moves its end (session.js, issueSession).
EndsInTime ==
    [][\A c \in calls : Handle(c) /\ Accepts(c) =>
          /\ now < active + Idle
          /\ \E t \in signIns : now < t + Longest]_vars

\* Who uses the page is not signed out: a call is refused only when the sign-in itself has
\* reached its end, or when, as it was sent, no activity had been answered for the idle time
\* less the time a token goes without being renewed and the time an answer may take: a slow
\* answer puts back a token that was renewed earlier (session.js, shouldRefresh).
ActivityKeepsSignedIn ==
    [][\A c \in calls : Handle(c) /\ Status(c) = "401" /\ c.token # NoToken =>
          \/ now >= c.token.auth_time + Longest
          \/ now > c.seen + Idle - RefreshAfter - Latency]_vars

\* The bell never goes back to an older state of the requests: it may be emptied by an
\* error, but a slow answer does not overwrite a newer one.
BellNeverGoesBack == [][bell' >= bell \/ bell' = 0]_vars

\* A page whose sign-in has ended finds out, through the bell if nobody touches it.
EndIsNoticed ==
    page = "ready" /\ ~Valid(cookie) ~> page # "ready" \/ Valid(cookie)
==============================================================================
