--------------------------- MODULE SessionsProofs ---------------------------
(* Theorems about Sessions, for any idle time and limit, any number of calls *)
(* under way, and answers that are lost or arrive in any order.             *)
EXTENDS Sessions, TLAPS

\* A token ends within the limit of a sign-in there was, and within the idle
\* time of the last activity, which is no earlier than when it was issued.
InTime(token) ==
    \/ token = NoToken
    \/ /\ token.iat \in Nat /\ token.exp \in Int /\ token.auth_time \in signIns
       /\ token.iat <= active /\ token.exp <= token.iat + Idle
       /\ token.exp <= token.auth_time + Longest

Clocks == now \in Nat /\ active \in Nat /\ active <= now /\ signIns \subseteq Nat

\* The cookie, the tokens calls carry, and those their answers bring.
Held == {cookie} \cup {c.token : c \in calls} \cup UNION {c.set : c \in calls}

IInv == Clocks /\ \A token \in Held : InTime(token)

-----------------------------------------------------------------------------
LEMMA CookieInTime == ASSUME IInv PROVE InTime(cookie)
BY DEF IInv, Held

LEMMA CallInTime ==
    ASSUME IInv, NEW c \in calls
    PROVE InTime(c.token) /\ \A token \in c.set : InTime(token)
BY DEF IInv, Held

\* What is in time stays so while sign-ins and activity only grow.
LEMMA StaysInTime ==
    ASSUME Clocks, Clocks', signIns \subseteq signIns', active <= active',
           NEW token, InTime(token)
    PROVE InTime(token)'
<1>1. CASE token = NoToken BY <1>1 DEF InTime
<1>2. CASE token # NoToken
    <2>1. /\ token.iat \in Nat /\ token.exp \in Int /\ token.auth_time \in signIns
          /\ token.iat <= active /\ token.exp <= token.iat + Idle
          /\ token.exp <= token.auth_time + Longest
        BY <1>2 DEF InTime
    <2>2. token.iat <= active' BY <2>1 DEF Clocks
    <2>3. token.auth_time \in signIns' BY <2>1
    <2> QED BY <2>1, <2>2, <2>3 DEF InTime
<1> QED BY <1>1, <1>2

\* A step keeps the invariant when the tokens it adds are in time.
LEMMA OnlyInTimeAdded ==
    ASSUME IInv, Clocks', signIns \subseteq signIns', active <= active',
           \A token \in Held' : token \in Held \/ InTime(token)'
    PROVE IInv'
<1>1. ASSUME NEW token \in Held' PROVE InTime(token)'
    <2>1. CASE token \in Held BY <2>1, StaysInTime DEF IInv
    <2>2. CASE InTime(token)' BY <2>2
    <2> QED BY <2>1, <2>2
<1> QED BY <1>1 DEF IInv

\* A token that is issued now, for a sign-in there was, is in time.
LEMMA IssuedInTime ==
    ASSUME Clocks, NEW t \in Nat, t \in signIns', active' = now,
           NEW token, token = issueSession(t)
    PROVE InTime(token)'
BY TimesAssumption DEF InTime, issueSession, Smaller, Clocks

-----------------------------------------------------------------------------
LEMMA InitInTime == Init => IInv
BY DEF Init, IInv, Clocks, Held, InTime

LEMMA SignInKeeps == ASSUME IInv, SignIn PROVE IInv'
<1> DEFINE new == issueSession(now)
<1>1. Clocks' /\ signIns \subseteq signIns' /\ active <= active'
    BY DEF IInv, Clocks, SignIn
<1>2. \A token \in Held' : token = new
    BY DEF Held, SignIn, Call
<1>3. \A token \in Held' : InTime(token)'
    <2>1. now \in Nat /\ now \in signIns' /\ active' = now BY DEF IInv, Clocks, SignIn
    <2>2. \A token : token = new => InTime(token)' BY <2>1, IssuedInTime DEF IInv
    <2> QED BY <1>2, <2>2
<1> QED BY <1>1, <1>3 DEF IInv

LEMMA HandleKeeps == ASSUME IInv, NEW c \in calls, Handle(c) PROVE IInv'
<1>1. Clocks' /\ signIns \subseteq signIns' /\ active <= active'
    BY DEF IInv, Clocks, Handle
<1>2. \A token : token = SetCookie(c) => token = c.token \/ InTime(token)'
    <2> SUFFICES ASSUME NEW token, token = SetCookie(c), token # c.token PROVE InTime(token)'
        OBVIOUS
    <2>1. CASE token = NoToken BY <2>1 DEF InTime
    <2>2. CASE token # NoToken
        <3>1. /\ token = issueSession(c.token.auth_time)
              /\ Valid(c.token) /\ CountsAsActivity(c.kind) /\ c.kind # "logout"
            BY <2>2 DEF SetCookie
        <3>2. active' = now
            BY <3>1 DEF Handle, Accepts, CountsAsActivity
        <3>3. c.token.auth_time \in signIns /\ signIns' = signIns
            BY <3>1, CallInTime DEF InTime, Valid, Handle
        <3>4. c.token.auth_time \in Nat /\ c.token.auth_time \in signIns'
            BY <3>3 DEF IInv, Clocks
        <3> QED BY <3>1, <3>2, <3>4, IssuedInTime DEF IInv
    <2> QED BY <2>1, <2>2
<1>3. \A token \in Held' : token \in Held \/ InTime(token)'
    <2> DEFINE answered == [Done(c, Status(c)) EXCEPT
                  !.set = IF SetCookie(c) = c.token THEN {} ELSE {SetCookie(c)},
                  !.news = IF c.kind \in BellKinds THEN news ELSE 0,
                  !.handled = IF Accepts(c) /\ CountsAsActivity(c.kind) THEN now ELSE 0]
    <2> SUFFICES ASSUME NEW token \in Held' PROVE token \in Held \/ InTime(token)'
        OBVIOUS
    <2>1. calls' = (calls \ {c}) \cup {answered} /\ cookie' = cookie
        BY DEF Handle
    <2>2. CASE token \in {cookie'} BY <2>1, <2>2 DEF Held
    <2>3. ASSUME NEW d \in calls', token = d.token \/ token \in d.set
          PROVE token \in Held \/ InTime(token)'
        <3>1. CASE d \in calls BY <3>1, <2>3 DEF Held
        <3>2. CASE d = answered
            <4>1. CASE token = d.token
                BY <3>2, <4>1 DEF Done, InTime
            <4>2. CASE token \in d.set
                BY <3>2, <4>2, <1>2 DEF Done, Held
            <4> QED BY <2>3, <4>1, <4>2
        <3> QED BY <2>1, <3>1, <3>2
    <2> QED BY <2>2, <2>3 DEF Held
<1> QED BY <1>1, <1>3, OnlyInTimeAdded

LEMMA CallHeld == ASSUME NEW c \in calls PROVE c.token \in Held /\ c.set \subseteq Held
BY DEF Held

\* Which call of the bell is the newest has nothing to do with the tokens.
LEMMA OlderHeld ==
    ASSUME NEW all, all \subseteq calls, NEW d \in Older(all)
    PROVE d.token \in Held /\ d.set \subseteq Held
<1>1. PICK c \in all : d = [c EXCEPT !.newest = FALSE]
    BY DEF Older
<1>2. d.token = c.token /\ d.set = c.set
    BY <1>1
<1> QED BY <1>2, CallHeld

\* The other steps only hand tokens on.
LEMMA PageKeeps ==
    ASSUME IInv, NEW kind, LoadPage \/ Send(kind) \/ NewsComes PROVE IInv'
<1>1. Clocks' /\ signIns' = signIns /\ active' = active /\ cookie' = cookie
    BY DEF IInv, Clocks, LoadPage, Send, NewsComes
<1>2. \A d \in calls' : d.token \in Held /\ d.set \subseteq Held
    <2>1. CASE LoadPage BY <2>1 DEF LoadPage, Call, Held
    <2>2. CASE Send(kind)
        <3>1. \A d \in Older(calls) : d.token \in Held /\ d.set \subseteq Held
            BY OlderHeld
        <3>2. \A d \in calls : d.token \in Held /\ d.set \subseteq Held
            BY CallHeld
        <3>3. Call(kind, cookie).token \in Held /\ Call(kind, cookie).set \subseteq Held
            BY DEF Call, Held
        <3> QED BY <2>2, <3>1, <3>2, <3>3 DEF Send
    <2>3. CASE NewsComes BY <2>3 DEF NewsComes, Held
    <2> QED BY <2>1, <2>2, <2>3
<1>3. \A token \in Held' : token \in Held
    BY <1>1, <1>2 DEF Held
<1>4. active <= active' BY <1>1 DEF IInv, Clocks
<1> QED BY <1>1, <1>3, <1>4, OnlyInTimeAdded

LEMMA LoseKeeps == ASSUME IInv, NEW c \in calls, Lose(c) PROVE IInv'
<1>1. Clocks' /\ signIns' = signIns /\ active' = active /\ active <= active'
    BY DEF IInv, Clocks, Lose
<1>2. \A token \in Held' : token \in Held \/ token = NoToken
    <2> DEFINE gone == [Done(c, "lost") EXCEPT !.set = {}, !.news = 0, !.handled = 0]
    <2>1. calls' = (calls \ {c}) \cup {gone} /\ cookie' = cookie BY DEF Lose
    <2>2. gone.token = NoToken /\ gone.set = {} BY DEF Done
    <2>3. \A d \in calls' : (d.token \in Held \/ d.token = NoToken) /\ d.set \subseteq Held
        BY <2>1, <2>2, CallHeld
    <2> QED BY <2>1, <2>3 DEF Held
<1>3. \A token \in Held' : token \in Held \/ InTime(token)'
    BY <1>2 DEF InTime
<1> QED BY <1>1, <1>3, OnlyInTimeAdded

LEMMA ReceiveKeeps == ASSUME IInv, NEW c \in calls, Receive(c) PROVE IInv'
<1>1. Clocks' /\ signIns' = signIns /\ active' = active /\ active <= active'
    BY DEF IInv, Clocks, Receive
<1>2. cookie' \in Held
    BY DEF Receive, Held
<1>3. \A d \in calls' : d.token \in Held /\ d.set \subseteq Held
    <2>1. calls' = calls \ {c} \/ calls' = Older(calls \ {c}) BY DEF Receive
    <2> QED BY <2>1, CallHeld, OlderHeld
<1>4. \A token \in Held' : token \in Held
    BY <1>2, <1>3 DEF Held
<1> QED BY <1>1, <1>4, OnlyInTimeAdded

LEMMA TickKeeps == ASSUME IInv, Tick PROVE IInv'
<1>1. Clocks' /\ signIns' = signIns /\ active' = active /\ active <= active'
    BY DEF IInv, Clocks, Tick
<1>2. Held' = Held
    BY DEF Tick, Held
<1> QED BY <1>1, <1>2, OnlyInTimeAdded

LEMMA NextKeeps == ASSUME IInv, [Next]_vars PROVE IInv'
<1>1. CASE SignIn BY <1>1, SignInKeeps
<1>2. CASE LoadPage \/ NewsComes BY <1>2, PageKeeps
<1>3. CASE Poll \/ \E kind \in Kinds : Send(kind) BY <1>3, PageKeeps DEF Poll
<1>4. CASE Tick BY <1>4, TickKeeps
<1>5. CASE \E c \in calls : Handle(c) \/ Lose(c) \/ Receive(c)
    BY <1>5, HandleKeeps, LoseKeeps, ReceiveKeeps
<1>6. CASE UNCHANGED vars
    BY <1>6 DEF vars, IInv, Clocks, Held, InTime
<1> QED BY <1>1, <1>2, <1>3, <1>4, <1>5, <1>6 DEF Next

-----------------------------------------------------------------------------
\* A call the backend takes carries a token that is in time and has not ended.
LEMMA TakenInTime ==
    ASSUME IInv, NEW c \in calls, Accepts(c)
    PROVE now < active + Idle /\ \E t \in signIns : now < t + Longest
<1>1. c.token # NoToken /\ c.token.exp > now
    BY DEF Accepts, Valid
<1>2. /\ c.token.iat \in Nat /\ c.token.exp \in Int /\ c.token.auth_time \in signIns
      /\ c.token.iat <= active /\ c.token.exp <= c.token.iat + Idle
      /\ c.token.exp <= c.token.auth_time + Longest
    BY <1>1, CallInTime DEF InTime
<1>3. now \in Nat /\ active \in Nat /\ c.token.auth_time \in Nat
    BY <1>2 DEF IInv, Clocks
<1>4. now < active + Idle
    BY <1>1, <1>2, <1>3, TimesAssumption
<1>5. now < c.token.auth_time + Longest
    BY <1>1, <1>2, <1>3, TimesAssumption
<1> QED BY <1>2, <1>4, <1>5

\* Every token, in the cookie or on its way, ends within the idle time of the last
\* activity and within the limit of a sign-in (session.js, issueSession).
THEOREM TokensEnd == Spec => []IInv
<1>1. Init => IInv BY InitInTime
<1>2. IInv /\ [Next]_vars => IInv' BY NextKeeps
<1> QED BY <1>1, <1>2, PTL DEF Spec

\* No call is taken after the idle time or the limit, whatever calls and polls are
\* under way and in whatever order their answers set the cookie.
THEOREM SignInsEnd == Spec => EndsInTime
<1>1. IInv /\ [Next]_vars =>
        [\A c \in calls : Handle(c) /\ Accepts(c) =>
            /\ now < active + Idle
            /\ \E t \in signIns : now < t + Longest]_vars
    BY TakenInTime
<1> QED BY <1>1, TokensEnd, PTL DEF Spec, EndsInTime
-----------------------------------------------------------------------------
(* Activity *)

\* The cookie's token is not much older than a moment h: an active token is renewed after
\* RefreshAfter, and a slow answer puts back one that was renewed up to Latency earlier.
Recent(h) == cookie = NoToken \/ h < cookie.iat + RefreshAfter + Latency

\* A token lasts for the idle time, or until its sign-in ends.
Lasts(token) ==
    token = NoToken \/ token.exp >= token.iat + Idle \/ token.exp >= token.auth_time + Longest

\* What a call under way carries and brings back.
OnTime(c) ==
    /\ c.at \in Nat /\ c.at <= now /\ now <= c.at + Latency
    /\ c.handled \in Nat /\ c.handled <= now
    /\ \A token \in c.set : token # NoToken => c.at <= token.iat
    /\ c.set = {} => Recent(c.handled)
    /\ c.token # NoToken => /\ cookie = NoToken \/ c.token.iat <= cookie.iat + Latency
                            /\ c.seen \in Nat /\ c.seen < c.token.iat + RefreshAfter + Latency

ActivityInv ==
    /\ told \in Nat /\ told <= now /\ Recent(told)
    /\ \A token \in Held : Lasts(token)
    /\ \A c \in calls : OnTime(c)

LEMMA HeldNumbers ==
    ASSUME IInv, NEW token \in Held, token # NoToken
    PROVE  /\ token.iat \in Nat /\ token.exp \in Int /\ token.auth_time \in Nat
           /\ token.iat <= now /\ now \in Nat
<1>1. InTime(token) /\ Clocks BY DEF IInv
<1>2. /\ token.iat \in Nat /\ token.exp \in Int /\ token.auth_time \in signIns
      /\ token.iat <= active
    BY <1>1 DEF InTime
<1>3. now \in Nat /\ active \in Nat /\ active <= now /\ signIns \subseteq Nat
    BY <1>1 DEF Clocks
<1>4. token.iat <= now BY <1>2, <1>3
<1> QED BY <1>2, <1>3, <1>4

LEMMA IssuedLasts ==
    ASSUME IInv, NEW t \in Nat
    PROVE  issueSession(t) # NoToken /\ issueSession(t).iat = now /\ Lasts(issueSession(t))
<1>1. now \in Nat BY DEF IInv, Clocks
<1>2. issueSession(t).iat = now /\ issueSession(t).auth_time = t
      /\ issueSession(t).exp = Smaller(now + Idle, t + Longest)
    BY DEF issueSession
<1>3. issueSession(t) # NoToken BY <1>1, <1>2 DEF NoToken
<1>4. Smaller(now + Idle, t + Longest) >= now + Idle \/ Smaller(now + Idle, t + Longest) >= t + Longest
    BY <1>1, TimesAssumption DEF Smaller
<1> QED BY <1>2, <1>3, <1>4 DEF Lasts

\* The cookie an answer sets: one that is no older than the answer may be slow.
CookieMoves ==
    \/ cookie' = cookie
    \/ cookie' = NoToken
    \/ cookie' # NoToken /\ cookie'.iat \in Nat /\ now <= cookie'.iat + Latency

LEMMA OnTimeStays ==
    ASSUME IInv, NEW c \in calls, OnTime(c), now' = now, CookieMoves
    PROVE  OnTime(c)'
<1>1. now \in Nat /\ Latency \in Nat /\ RefreshAfter \in Nat \ {0}
    BY TimesAssumption DEF IInv, Clocks
<1>2. CASE cookie' = cookie BY <1>2 DEF OnTime, Recent
<1>3. CASE cookie' = NoToken BY <1>3 DEF OnTime, Recent
<1>4. CASE cookie' # NoToken /\ cookie'.iat \in Nat /\ now <= cookie'.iat + Latency
    <2>1. \A h \in Nat : h <= now => Recent(h)'
        BY <1>1, <1>4 DEF Recent
    <2>2. c.token # NoToken => c.token.iat <= cookie'.iat + Latency
        BY <1>1, <1>4, CallHeld, HeldNumbers
    <2> QED BY <2>1, <2>2 DEF OnTime
<1> QED BY <1>2, <1>3, <1>4 DEF CookieMoves

LEMMA OnTimeLater ==
    ASSUME IInv, NEW c \in calls, OnTime(c), now' = now + 1, now < c.at + Latency, cookie' = cookie
    PROVE  OnTime(c)'
<1>1. now \in Nat /\ Latency \in Nat BY TimesAssumption DEF IInv, Clocks
<1> QED BY <1>1 DEF OnTime, Recent

\* Whether a call is the bell's newest does not matter.
LEMMA OlderOnTime ==
    ASSUME NEW all, \A c \in all : OnTime(c)', NEW d \in Older(all)
    PROVE  OnTime(d)'
<1>1. PICK c \in all : d = [c EXCEPT !.newest = FALSE]
    BY DEF Older
<1>2. d.at = c.at /\ d.handled = c.handled /\ d.set = c.set /\ d.token = c.token /\ d.seen = c.seen
    BY <1>1
<1> QED BY <1>2 DEF OnTime

\* A call that is sent with the cookie.
LEMMA SentOnTime ==
    ASSUME IInv, ActivityInv, now' = now, cookie' = cookie, NEW kind,
           NEW c, c = Call(kind, cookie)
    PROVE  OnTime(c)'
<1>1. /\ c.at = now /\ c.handled = 0 /\ c.set = {} /\ c.token = cookie /\ c.seen = told
    BY DEF Call
<1>2. now \in Nat /\ Latency \in Nat /\ RefreshAfter \in Nat \ {0}
    BY TimesAssumption DEF IInv, Clocks
<1>3. told \in Nat /\ Recent(told)
    BY DEF ActivityInv
<1>4. cookie # NoToken => cookie.iat \in Nat
    BY HeldNumbers DEF Held
<1>5. Recent(0)'
    BY <1>2, <1>4 DEF Recent
<1>6. cookie # NoToken => cookie.iat <= cookie.iat + Latency /\ told < cookie.iat + RefreshAfter + Latency
    BY <1>2, <1>3, <1>4 DEF Recent
<1>7. now <= now + Latency BY <1>2
<1> QED BY <1>1, <1>2, <1>3, <1>5, <1>6, <1>7 DEF OnTime

-----------------------------------------------------------------------------
LEMMA SignInActive == ASSUME IInv, SignIn PROVE ActivityInv'
<1>0. PICK token : token = issueSession(now) OBVIOUS
<1>a. PICK c : c = [Call("me", token) EXCEPT !.seen = now] OBVIOUS
<1>1. now \in Nat /\ Latency \in Nat \ {0} /\ RefreshAfter \in Nat \ {0}
    BY TimesAssumption DEF IInv, Clocks
<1>2. token # NoToken /\ token.iat = now /\ Lasts(token)
    BY <1>0, <1>1, IssuedLasts
<1>3. cookie' = token /\ calls' = {c} /\ told' = now /\ now' = now
    BY <1>0, <1>a DEF SignIn
<1>4. c.at = now /\ c.handled = 0 /\ c.set = {} /\ c.token = token /\ c.seen = now
    BY <1>a DEF Call
<1>5. OnTime(c)'
    BY <1>1, <1>2, <1>3, <1>4 DEF OnTime, Recent
<1>6. Recent(told)'
    BY <1>1, <1>2, <1>3 DEF Recent
<1>7. \A t \in Held' : Lasts(t)'
    <2>1. \A t \in Held' : t = token BY <1>3, <1>4 DEF Held
    <2> QED BY <1>2, <2>1 DEF Lasts
<1> QED BY <1>1, <1>3, <1>5, <1>6, <1>7 DEF ActivityInv

\* The tokens a step hands on last as they did.
LEMMA HeldLasts ==
    ASSUME ActivityInv, \A token \in Held' : token \in Held \/ Lasts(token)
    PROVE  \A token \in Held' : Lasts(token)'
BY DEF ActivityInv, Lasts

LEMMA HandleActive == ASSUME IInv, ActivityInv, NEW c \in calls, Handle(c) PROVE ActivityInv'
<1> DEFINE counts == Accepts(c) /\ CountsAsActivity(c.kind)
<1>0. PICK d : d = [Done(c, Status(c)) EXCEPT
                  !.set = IF SetCookie(c) = c.token THEN {} ELSE {SetCookie(c)},
                  !.news = IF c.kind \in BellKinds THEN news ELSE 0,
                  !.handled = IF counts THEN now ELSE 0]
    OBVIOUS
<1>1. now \in Nat /\ Latency \in Nat /\ RefreshAfter \in Nat \ {0}
    BY TimesAssumption DEF IInv, Clocks
<1>2. calls' = (calls \ {c}) \cup {d} /\ UNCHANGED <<now, cookie, told>>
    BY <1>0 DEF Handle
<1>3. /\ d.at = c.at /\ d.handled = (IF counts THEN now ELSE 0)
      /\ d.set = (IF SetCookie(c) = c.token THEN {} ELSE {SetCookie(c)})
      /\ d.token = NoToken
    BY <1>0 DEF Done
<1>4. OnTime(c) /\ c.at <= now /\ (cookie # NoToken => cookie.iat \in Nat)
    BY HeldNumbers DEF ActivityInv, OnTime, Held
<1>5. SetCookie(c) \in {NoToken, c.token} \/ SetCookie(c).iat = now
    BY DEF SetCookie, issueSession
<1>6. Lasts(SetCookie(c))
    <2>1. CASE SetCookie(c) \in {NoToken, c.token}
        BY <2>1, CallHeld DEF ActivityInv, Lasts
    <2>2. CASE SetCookie(c) \notin {NoToken, c.token}
        <3>1. SetCookie(c) = issueSession(c.token.auth_time) /\ Valid(c.token)
            BY <2>2 DEF SetCookie
        <3>2. c.token.auth_time \in Nat
            BY <3>1, CallHeld, HeldNumbers DEF Valid
        <3> QED BY <3>1, <3>2, IssuedLasts
    <2> QED BY <2>1, <2>2
<1>7. SetCookie(c) = c.token => Recent(d.handled)
    <2>1. CASE ~counts
        BY <1>1, <1>3, <1>4, <2>1 DEF Recent
    <2>2. CASE counts /\ SetCookie(c) = c.token /\ cookie # NoToken
        <3>1. c.token # NoToken /\ c.kind # "logout" /\ Valid(c.token) /\ CountsAsActivity(c.kind)
            BY <2>2 DEF Accepts, Valid
        <3>2. c.token.iat \in Nat /\ c.token.iat <= cookie.iat + Latency
            BY <1>4, <2>2, <3>1, CallHeld, HeldNumbers DEF OnTime
        <3>3. now < c.token.iat + RefreshAfter
            <4>1. CASE shouldRefresh(c.token)
                BY <1>1, <2>2, <3>1, <4>1 DEF SetCookie, issueSession
            <4>2. CASE ~shouldRefresh(c.token)
                BY <1>1, <3>2, <4>2 DEF shouldRefresh
            <4> QED BY <4>1, <4>2
        <3> QED BY <1>1, <1>3, <1>4, <2>2, <3>2, <3>3 DEF Recent
    <2> QED BY <2>1, <2>2 DEF Recent
<1>8. OnTime(d)'
    <2>1. d.handled \in Nat /\ d.handled <= now BY <1>1, <1>3
    <2>2. \A token \in d.set : token # NoToken => c.at <= token.iat
        BY <1>3, <1>4, <1>5
    <2>3. d.set = {} => Recent(d.handled)' BY <1>2, <1>3, <1>7 DEF Recent
    <2> QED BY <1>2, <1>3, <1>4, <2>1, <2>2, <2>3 DEF OnTime
<1>9. \A e \in calls : OnTime(e)'
    BY <1>2, OnTimeStays DEF ActivityInv, CookieMoves
<1>10. \A token \in Held' : token \in Held \/ Lasts(token)
    <2>1. \A e \in calls' : (e.token \in Held \/ e.token = NoToken) /\ (e.set \subseteq Held \/ e.set = {SetCookie(c)})
        BY <1>2, <1>3, CallHeld
    <2>2. Lasts(NoToken) BY DEF Lasts
    <2> QED BY <1>2, <1>6, <2>1, <2>2 DEF Held
<1>11. told' \in Nat /\ told' <= now' /\ Recent(told)'
    BY <1>2 DEF ActivityInv, Recent
<1> QED BY <1>2, <1>8, <1>9, <1>10, <1>11, HeldLasts DEF ActivityInv

LEMMA PageActive ==
    ASSUME IInv, ActivityInv, NEW kind, LoadPage \/ Send(kind) \/ NewsComes PROVE ActivityInv'
<1>1. UNCHANGED <<now, cookie, told>>
    BY DEF LoadPage, Send, NewsComes
<1>2. \A c \in calls : OnTime(c)'
    BY <1>1, OnTimeStays DEF ActivityInv, CookieMoves
<1>3. \A k, c : c = Call(k, cookie) => OnTime(c)'
    BY <1>1, SentOnTime
<1>4. \A c \in calls' : OnTime(c)'
    <2>1. CASE LoadPage BY <1>3, <2>1 DEF LoadPage
    <2>2. CASE Send(kind)
        <3>1. \A c \in Older(calls) : OnTime(c)' BY <1>2, OlderOnTime
        <3>2. \A c \in calls' : c \in calls \/ c \in Older(calls) \/ c = Call(kind, cookie)
            BY <2>2 DEF Send
        <3> QED BY <1>2, <1>3, <3>1, <3>2
    <2>3. CASE NewsComes BY <1>2, <2>3 DEF NewsComes
    <2> QED BY <2>1, <2>2, <2>3
<1>5. \A d \in calls' : d.token \in Held /\ d.set \subseteq Held
    <2>1. \A k : Call(k, cookie).token \in Held /\ Call(k, cookie).set \subseteq Held
        BY DEF Call, Held
    <2>2. CASE LoadPage BY <2>1, <2>2 DEF LoadPage
    <2>3. CASE Send(kind)
        <3>1. \A d \in Older(calls) : d.token \in Held /\ d.set \subseteq Held
            BY OlderHeld
        <3>2. \A d \in calls' : d \in calls \/ d \in Older(calls) \/ d = Call(kind, cookie)
            BY <2>3 DEF Send
        <3> QED BY <2>1, <3>1, <3>2, CallHeld
    <2>4. CASE NewsComes BY <2>4, CallHeld DEF NewsComes
    <2> QED BY <2>2, <2>3, <2>4
<1>6. \A token \in Held' : token \in Held
    BY <1>1, <1>5 DEF Held
<1>7. told' \in Nat /\ told' <= now' /\ Recent(told)'
    BY <1>1 DEF ActivityInv, Recent
<1> QED BY <1>4, <1>6, <1>7, HeldLasts DEF ActivityInv

LEMMA LoseActive == ASSUME IInv, ActivityInv, NEW c \in calls, Lose(c) PROVE ActivityInv'
<1>0. PICK d : d = [Done(c, "lost") EXCEPT !.set = {}, !.news = 0, !.handled = 0]
    OBVIOUS
<1>1. now \in Nat /\ Latency \in Nat /\ RefreshAfter \in Nat \ {0}
    BY TimesAssumption DEF IInv, Clocks
<1>2. calls' = (calls \ {c}) \cup {d} /\ UNCHANGED <<now, cookie, told>>
    BY <1>0 DEF Lose
<1>3. d.at = c.at /\ d.handled = 0 /\ d.set = {} /\ d.token = NoToken
    BY <1>0 DEF Done
<1>4. OnTime(c) /\ (cookie # NoToken => cookie.iat \in Nat)
    BY HeldNumbers DEF ActivityInv, Held
<1>5. Recent(0)' BY <1>1, <1>2, <1>4 DEF Recent
<1>6. OnTime(d)' BY <1>1, <1>2, <1>3, <1>4, <1>5 DEF OnTime
<1>7. \A e \in calls : OnTime(e)'
    BY <1>2, OnTimeStays DEF ActivityInv, CookieMoves
<1>8. \A token \in Held' : token \in Held \/ Lasts(token)
    <2>1. \A e \in calls' : (e.token \in Held \/ e.token = NoToken) /\ e.set \subseteq Held
        BY <1>2, <1>3, CallHeld
    <2> QED BY <1>2, <2>1 DEF Held, Lasts
<1>9. told' \in Nat /\ told' <= now' /\ Recent(told)'
    BY <1>2 DEF ActivityInv, Recent
<1> QED BY <1>2, <1>6, <1>7, <1>8, <1>9, HeldLasts DEF ActivityInv

LEMMA ReceiveActive == ASSUME IInv, ActivityInv, NEW c \in calls, Receive(c) PROVE ActivityInv'
<1>1. now \in Nat /\ Latency \in Nat /\ RefreshAfter \in Nat \ {0}
    BY TimesAssumption DEF IInv, Clocks
<1>2. now' = now /\ calls' \in {calls \ {c}, Older(calls \ {c})}
    BY DEF Receive
<1>3. OnTime(c) /\ told \in Nat /\ told <= now /\ Recent(told)
    BY DEF ActivityInv
<1>4. (cookie' = cookie /\ c.set = {}) \/ cookie' \in c.set
    BY DEF Receive
<1>5. cookie' \in c.set => cookie' = NoToken \/ (cookie'.iat \in Nat /\ now <= cookie'.iat + Latency)
    <2> SUFFICES ASSUME cookie' \in c.set, cookie' # NoToken
                 PROVE  cookie'.iat \in Nat /\ now <= cookie'.iat + Latency
        OBVIOUS
    <2>1. cookie' \in Held BY CallHeld
    <2>2. cookie'.iat \in Nat BY <2>1, HeldNumbers
    <2>3. c.at <= cookie'.iat /\ c.at \in Nat /\ now <= c.at + Latency
        BY <1>3 DEF OnTime
    <2> QED BY <1>1, <2>2, <2>3
<1>6. CookieMoves BY <1>4, <1>5 DEF CookieMoves
<1>7. \A e \in calls : OnTime(e)'
    BY <1>2, <1>6, OnTimeStays DEF ActivityInv
<1>8. \A e \in calls' : OnTime(e)'
    BY <1>2, <1>7, OlderOnTime
<1>9. told' \in {told, c.handled}
    BY DEF Receive
<1>10. told' \in Nat /\ told' <= now'
    BY <1>2, <1>3, <1>9 DEF OnTime
<1>11. Recent(told)'
    <2>1. CASE cookie' = cookie /\ c.set = {}
        BY <1>3, <1>9, <2>1 DEF OnTime, Recent
    <2>2. CASE cookie' \in c.set
        BY <1>1, <1>2, <1>5, <1>10, <2>2 DEF Recent
    <2> QED BY <1>4, <2>1, <2>2
<1>12. \A token \in Held' : token \in Held
    <2>1. \A d \in calls' : d.token \in Held /\ d.set \subseteq Held
        BY <1>2, CallHeld, OlderHeld
    <2>2. cookie' \in Held BY <1>4, CallHeld DEF Held
    <2> QED BY <2>1, <2>2 DEF Held
<1> QED BY <1>8, <1>10, <1>11, <1>12, HeldLasts DEF ActivityInv

LEMMA TickActive == ASSUME IInv, ActivityInv, Tick PROVE ActivityInv'
<1>1. now \in Nat /\ now' = now + 1 /\ UNCHANGED <<cookie, calls, told>>
    BY DEF IInv, Clocks, Tick
<1>2. \A c \in calls : OnTime(c)'
    BY <1>1, OnTimeLater DEF ActivityInv, Tick
<1>3. \A token \in Held' : token \in Held
    BY <1>1 DEF Held
<1>4. told' \in Nat /\ told' <= now' /\ Recent(told)'
    BY <1>1 DEF ActivityInv, Recent
<1> QED BY <1>1, <1>2, <1>3, <1>4, HeldLasts DEF ActivityInv

LEMMA NextActive == ASSUME IInv, ActivityInv, [Next]_vars PROVE ActivityInv'
<1>1. CASE SignIn BY <1>1, SignInActive
<1>2. CASE LoadPage \/ NewsComes BY <1>2, PageActive
<1>3. CASE Poll \/ \E kind \in Kinds : Send(kind) BY <1>3, PageActive DEF Poll
<1>4. CASE Tick BY <1>4, TickActive
<1>5. CASE \E c \in calls : Handle(c) \/ Lose(c) \/ Receive(c)
    BY <1>5, HandleActive, LoseActive, ReceiveActive
<1>6. CASE UNCHANGED vars
    BY <1>6 DEF vars, ActivityInv, Held, OnTime, Recent, Lasts
<1> QED BY <1>1, <1>2, <1>3, <1>4, <1>5, <1>6 DEF Next

LEMMA InitActive == Init => ActivityInv
BY DEF Init, ActivityInv, Held, Recent, Lasts

LEMMA Activity == Spec => []ActivityInv
<1>1. IInv /\ ActivityInv /\ [Next]_vars => ActivityInv' BY NextActive
<1> QED BY <1>1, InitActive, TokensEnd, PTL DEF Spec

\* No one is refused before the sign-in ends, or the idle time has nearly passed since the
\* activity the page knew of, whatever the times and however slow answers set the cookie.
THEOREM ActivityCounts == Spec => ActivityKeepsSignedIn
<1>1. ASSUME IInv, ActivityInv, NEW c \in calls, Status(c) = "401", c.token # NoToken
      PROVE  \/ now >= c.token.auth_time + Longest
             \/ now > c.seen + Idle - RefreshAfter - Latency
    <2>1. /\ c.token.iat \in Nat /\ c.token.exp \in Int /\ c.token.auth_time \in Nat /\ now \in Nat
        BY <1>1, CallHeld, HeldNumbers
    <2>2. c.token.exp <= now
        BY <1>1, <2>1 DEF Status, Valid
    <2>3. c.seen \in Nat /\ c.seen < c.token.iat + RefreshAfter + Latency
        BY <1>1 DEF ActivityInv, OnTime
    <2>4. c.token.exp >= c.token.iat + Idle \/ c.token.exp >= c.token.auth_time + Longest
        BY <1>1, CallHeld DEF ActivityInv, Lasts
    <2> QED BY <2>1, <2>2, <2>3, <2>4, TimesAssumption
<1>2. IInv /\ ActivityInv =>
        [\A c \in calls : Handle(c) /\ Status(c) = "401" /\ c.token # NoToken =>
            \/ now >= c.token.auth_time + Longest
            \/ now > c.seen + Idle - RefreshAfter - Latency]_vars
    BY <1>1
<1> QED BY <1>2, TokensEnd, Activity, PTL DEF ActivityKeepsSignedIn

-----------------------------------------------------------------------------
(* The bell *)

\* At most one call may change the bell, and what its answer shows is no older
\* than what the bell shows, nor newer than the requests.
BellInv ==
    /\ news \in Nat /\ bell \in 0..news
    /\ \A c \in calls : c.newest =>
          /\ c.kind \in BellKinds
          /\ \A d \in calls : d.newest => d = c
          /\ c.answer = "ok" => c.news \in bell..news

LEMMA InitBell == Init => BellInv
BY DEF Init, BellInv

\* No call of a set is the bell's newest any more.
LEMMA NoneNewest == ASSUME NEW all, NEW d \in Older(all) PROVE ~d.newest
<1>1. PICK c \in all : d = [c EXCEPT !.newest = FALSE] BY DEF Older
<1> QED BY <1>1

LEMMA CallsBell ==
    ASSUME BellInv, SignIn \/ LoadPage \/ NewsComes \/ \E kind : Send(kind)
    PROVE  BellInv' /\ (bell' = bell \/ bell' = 0)
<1>1. CASE SignIn
    <2>1. \A c \in calls' : ~c.newest
        BY <1>1 DEF SignIn, Call, BellKinds
    <2> QED BY <1>1, <2>1 DEF SignIn, BellInv
<1>2. CASE LoadPage
    <2>1. \A c \in calls' : ~c.newest
        <3>1. calls' = {Call("me", cookie)} BY <1>2 DEF LoadPage
        <3>2. ~Call("me", cookie).newest BY DEF Call, BellKinds
        <3> QED BY <3>1, <3>2
    <2> QED BY <1>2, <2>1 DEF LoadPage, BellInv
<1>3. CASE NewsComes
    BY <1>3 DEF NewsComes, BellInv
<1>4. ASSUME NEW kind, Send(kind) PROVE BellInv' /\ (bell' = bell \/ bell' = 0)
    <2> DEFINE c == Call(kind, cookie)
    <2>1. /\ c.newest = (kind \in BellKinds) /\ c.kind = kind /\ c.answer = "none"
        BY DEF Call
    <2>2. UNCHANGED <<news, bell>> /\ calls' = (IF kind \in BellKinds THEN Older(calls) ELSE calls) \cup {c}
        BY <1>4 DEF Send
    <2> HIDE DEF c
    <2>3. CASE kind \in BellKinds
        BY <2>1, <2>2, <2>3, NoneNewest DEF BellInv
    <2>4. CASE kind \notin BellKinds
        BY <2>1, <2>2, <2>4 DEF BellInv
    <2> QED BY <2>3, <2>4
<1> QED BY <1>1, <1>2, <1>3, <1>4

\* A call that is answered or lost is the newest if it was, and shows the requests as they are.
LEMMA AnswersBell ==
    ASSUME BellInv, NEW c \in calls, NEW d, calls' = (calls \ {c}) \cup {d}, UNCHANGED <<news, bell>>,
           d.newest = c.newest, d.kind = c.kind,
           d.newest /\ d.answer = "ok" => d.news = news
    PROVE  BellInv'
BY DEF BellInv

LEMMA HandleBell ==
    ASSUME BellInv, NEW c \in calls, Handle(c) \/ Lose(c)
    PROVE  BellInv' /\ bell' = bell
<1>1. CASE Handle(c)
    <2> DEFINE counts == Accepts(c) /\ CountsAsActivity(c.kind)
               d == [Done(c, Status(c)) EXCEPT
                      !.set = IF SetCookie(c) = c.token THEN {} ELSE {SetCookie(c)},
                      !.news = IF c.kind \in BellKinds THEN news ELSE 0,
                      !.handled = IF counts THEN now ELSE 0]
    <2>1. calls' = (calls \ {c}) \cup {d} /\ UNCHANGED <<news, bell>>
        BY <1>1 DEF Handle
    <2>2. d.newest = c.newest /\ d.kind = c.kind /\ (c.kind \in BellKinds => d.news = news)
        BY DEF Done
    <2> HIDE DEF d
    <2>3. c.newest => c.kind \in BellKinds BY DEF BellInv
    <2> QED BY <2>1, <2>2, <2>3, AnswersBell
<1>2. CASE Lose(c)
    <2> DEFINE d == [Done(c, "lost") EXCEPT !.set = {}, !.news = 0, !.handled = 0]
    <2>1. calls' = (calls \ {c}) \cup {d} /\ UNCHANGED <<news, bell>>
        BY <1>2 DEF Lose
    <2>2. d.newest = c.newest /\ d.kind = c.kind /\ d.answer = "lost"
        BY DEF Done
    <2> HIDE DEF d
    <2> QED BY <2>1, <2>2, AnswersBell
<1> QED BY <1>1, <1>2

LEMMA ReceiveBell ==
    ASSUME BellInv, NEW c \in calls, Receive(c)
    PROVE  BellInv' /\ (bell' >= bell \/ bell' = 0)
<1>1. /\ news' = news /\ page' = PageAfter(c) /\ bell' = BellAfter(c)
      /\ calls' = IF page' = "ready" THEN calls \ {c} ELSE Older(calls \ {c})
    BY DEF Receive
<1>2. news \in Nat /\ bell \in 0..news
    BY DEF BellInv
<1>3. CASE page' # "ready"
    <2>1. bell' = 0 BY <1>1, <1>3 DEF BellAfter
    <2>2. \A d \in calls' : ~d.newest BY <1>1, <1>3, NoneNewest
    <2>3. news' \in Nat /\ bell' \in 0..news' BY <1>1, <1>2, <2>1
    <2>4. BellInv' BY <2>2, <2>3 DEF BellInv
    <2> QED BY <2>1, <2>4
<1>4. CASE page' = "ready" /\ ~c.newest
    <2>1. bell' = bell BY <1>1, <1>4 DEF BellAfter, Newest
    <2>2. bell' >= bell BY <1>2, <2>1
    <2>3. calls' \subseteq calls BY <1>1, <1>4
    <2> QED BY <1>1, <2>1, <2>2, <2>3 DEF BellInv
<1>5. CASE page' = "ready" /\ c.newest
    <2>1. \A d \in calls' : ~d.newest BY <1>1, <1>5 DEF BellInv
    <2>2. bell' = 0 \/ (bell' \in bell..news)
        BY <1>1, <1>5 DEF BellAfter, Newest, BellInv
    <2> QED BY <1>1, <1>2, <2>1, <2>2 DEF BellInv
<1> QED BY <1>3, <1>4, <1>5

LEMMA NextBell == ASSUME BellInv, [Next]_vars PROVE BellInv' /\ (bell' >= bell \/ bell' = 0)
<1>0. bell \in Nat BY DEF BellInv
<1>1. ASSUME BellInv', bell' = bell \/ bell' = 0 PROVE BellInv' /\ (bell' >= bell \/ bell' = 0)
    BY <1>0, <1>1
<1>2. CASE SignIn \/ LoadPage \/ NewsComes BY <1>1, <1>2, CallsBell
<1>3. CASE Poll \/ \E kind \in Kinds : Send(kind) BY <1>1, <1>3, CallsBell DEF Poll
<1>4. CASE \E c \in calls : Handle(c) \/ Lose(c) BY <1>1, <1>4, HandleBell
<1>5. CASE \E c \in calls : Receive(c) BY <1>5, ReceiveBell
<1>6. CASE Tick \/ UNCHANGED vars BY <1>1, <1>6 DEF Tick, vars, BellInv
<1> QED BY <1>2, <1>3, <1>4, <1>5, <1>6 DEF Next

\* The bell is emptied or moves on, however many of its calls overlap and in whatever order
\* they are answered (NotificationBell.jsx).
THEOREM BellMovesOn == Spec => BellNeverGoesBack
<1>1. BellInv /\ [Next]_vars => BellInv' /\ [bell' >= bell \/ bell' = 0]_vars
    BY NextBell
<1> QED BY <1>1, InitBell, PTL DEF Spec, BellNeverGoesBack
=============================================================================
