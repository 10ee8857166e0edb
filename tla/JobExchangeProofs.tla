------------------------- MODULE JobExchangeProofs -------------------------
(* Theorems about JobExchange, for any jobs, lifetimes, limits and clocks   *)
(* within the tolerance.                                                    *)
EXTENDS JobExchange, TLAPS

Mail == mail \cup Held

Rows == [status : {"Queued", "Sent", "Succeeded", "Failed"}, attempts : Nat, sentAt : Nat,
         error : {"none", "reported", "unanswered", "expired", "refused", "unreadable"}]

Shape ==
    /\ now \in Nat /\ skew \in Skews
    /\ keys \in [backend : Kids, listed : {Kids}, first : Kids]
    /\ job \in [Jobs -> Rows]
    /\ hand = Free \/ hand.phase \in {"run", "done", "fail"}
    /\ store \in [Jobs -> {"none", "ok", "failed"}]
    /\ runs \in [Jobs -> {"never", "begun", "succeeded"}]
    /\ \A m \in Mail : m.env.jti \in Jobs

\* What is stored, or on its way, as a success was one.
SuccessIsKnown ==
    /\ \A j \in Jobs : store[j] = "ok" => runs[j] = "succeeded"
    /\ \A m \in Mail : m.env.ok => runs[m.env.jti] = "succeeded"

\* A job on its way is as the backend sealed it, at an earlier time.
Sealed(e) ==
    /\ e.typ = "job" /\ e.kid \in Kids /\ e.rkid = SiteKid
    /\ e.iat \in Nat /\ e.iat <= now /\ e.exp = e.iat + JobTtl

JobsAreSealed ==
    \A m \in Mail : /\ m.env.typ = "job" => Sealed(m.env)
                    /\ m.queue = "request" => m.env.typ = "job"

\* The worker runs only what it has begun.
RunIsBegun == hand # Free /\ hand.phase = "run" => runs[hand.msg.env.jti] # "never"

\* No copy of a job outlives the send the backend counts from.
Covered(j) == \A m \in Mail : m.env.typ = "job" /\ m.env.jti = j => m.env.exp <= job[j].sentAt + JobTtl

Deadlines ==
    \A j \in Jobs :
        /\ job[j].status = "Sent" => Covered(j)
        /\ job[j].error = "unanswered" =>
              /\ Covered(j) /\ job[j].status = "Failed"
              /\ job[j].sentAt + JobTtl + Grace < now

-----------------------------------------------------------------------------
(* Where messages come from, and where they go *)

Same(m, n) == n.env = m.env /\ n.queue \in {m.queue, "dead"}

\* A message after a step was there before, or is a new job or a stored answer.
Comes(n) ==
    \/ \E m \in Mail : Same(m, n)
    \/ \E j \in Jobs : n.queue = "request" /\ n.env = SealJob(j) /\ job[j].status = "Queued"
    \/ \E j \in Jobs : n.queue = "result" /\ n.env = SealResult(j, store[j] = "ok")

\* A message is there after a step, if perhaps as its answer, or its job is settled.
Goes(m) ==
    \/ \E n \in Mail' : n.env.jti = m.env.jti
    \/ job'[m.env.jti].status # "Sent"

LEMMA ReturnedIsSame == \A m : Same(m, Returned(m))
BY DEF Same, Returned

LEMMA RefusedIsSame == \A m : \A n \in AfterRefusal(m) : Same(m, n)
<1> TAKE m
<1>1. Same(m, [m EXCEPT !.queue = "dead"]) BY DEF Same
<1> QED BY <1>1, ReturnedIsSame DEF AfterRefusal

LEMMA HandIsMail == hand # Free => hand.msg \in Mail
BY DEF Mail, Held

LEMMA OthersAreSame == \A m : Same(m, m)
BY DEF Same

\* Swapping a message for itself, with the hand as it is.
LEMMA SwapHandsOn ==
    ASSUME NEW m \in mail, NEW n, Same(m, n), Swap(m, n), hand' = hand
    PROVE (\A x \in Mail' : Comes(x)) /\ (\A x \in Mail : Goes(x))
<1>1. mail' = (mail \ {m}) \cup {n} /\ Held' = Held
    BY DEF Swap, Held, Free
<1>2. \A x \in Mail' : x \in Mail \/ x = n
    BY <1>1 DEF Mail
<1>3. \A x \in Mail : x \in Mail' \/ x = m
    BY <1>1 DEF Mail
<1>4. m \in Mail /\ n \in Mail' BY <1>1 DEF Mail
<1>5. n.env.jti = m.env.jti BY DEF Same
<1> QED BY <1>2, <1>3, <1>4, <1>5, OthersAreSame DEF Comes, Goes

\* Nothing happens to the messages.
LEMMA NothingHandsOn ==
    ASSUME mail' = mail, Held' = Held
    PROVE (\A x \in Mail' : Comes(x)) /\ (\A x \in Mail : Goes(x))
<1>1. Mail' = Mail BY DEF Mail
<1> QED BY <1>1, OthersAreSame DEF Comes, Goes

LEMMA PutOnHandsOn ==
    ASSUME NEW n, Comes(n), mail' \subseteq mail \cup {n}, mail \subseteq mail', Held' = Held
    PROVE (\A x \in Mail' : Comes(x)) /\ (\A x \in Mail : Goes(x))
<1>1. \A x \in Mail' : x \in Mail \/ x = n BY DEF Mail
<1>2. \A x \in Mail : x \in Mail' BY DEF Mail
<1> QED BY <1>1, <1>2, OthersAreSame DEF Comes, Goes

\* The worker lets go of its message, which comes back unless its answer is there.
LEMMA LetGo ==
    ASSUME hand # Free, hand' = Free, NEW sent, \A n \in sent : Comes(n) /\ n.env.jti = hand.msg.env.jti,
           NEW rest, rest \subseteq {Returned(hand.msg)}, mail' = mail \cup sent \cup rest,
           sent # {} \/ rest # {}
    PROVE (\A x \in Mail' : Comes(x)) /\ (\A x \in Mail : Goes(x))
<1>1. Held' = {} /\ Held = {hand.msg}
    BY DEF Held, Free
<1>2. Returned(hand.msg).env.jti = hand.msg.env.jti /\ Comes(Returned(hand.msg))
    BY ReturnedIsSame, HandIsMail DEF Same, Comes
<1>3. \A x \in Mail' : x \in Mail \/ x \in sent \/ x = Returned(hand.msg)
    BY <1>1 DEF Mail
<1>4. \A x \in Mail' : Comes(x)
    BY <1>2, <1>3, OthersAreSame DEF Comes
<1>5. \E n \in Mail' : n.env.jti = hand.msg.env.jti
    BY <1>2 DEF Mail
<1>6. \A x \in Mail : x \in Mail' \/ x = hand.msg
    BY <1>1 DEF Mail
<1> QED BY <1>4, <1>5, <1>6 DEF Goes

\* Every step hands messages on.
Handed == (\A x \in Mail' : Comes(x)) /\ (\A x \in Mail : Goes(x))

LEMMA SettledIsNotSent ==
    ASSUME Shape, NEW j \in Jobs, NEW status \in {"Succeeded", "Failed"}, NEW error, Settle(j, status, error)
    PROVE job'[j].status # "Sent"
BY DEF Shape, Rows, Settle, Active

LEMMA BackendHandsOn ==
    ASSUME Shape, Backend
    PROVE Handed
<1> USE DEF Handed
<1>1. ASSUME NEW j \in Jobs, SendJob(j) \/ SendUnconfirmed(j) PROVE Handed
    <2> DEFINE new == Message("request", SealJob(j))
    <2>1. mail' = mail \cup {new} /\ Held' = Held
        BY <1>1 DEF SendJob, SendUnconfirmed, SealAndSend, PutOn, Held, Free
    <2>2. Comes(new) BY <1>1 DEF SendJob, SendUnconfirmed, SealAndSend, Comes, Message
    <2> QED BY <2>1, <2>2, PutOnHandsOn
<1>2. ASSUME NEW j \in Jobs, FailUnanswered(j) PROVE Handed
    BY <1>2, NothingHandsOn DEF FailUnanswered, Held, Free
<1>3. ASSUME NEW m \in mail, ApplyResult(m) PROVE Handed
    <2>1. hand' = hand BY <1>3 DEF ApplyResult
    <2>2. CASE Swap(m, Returned(m)) BY <2>1, <2>2, ReturnedIsSame, SwapHandsOn
    <2>3. CASE TakeOff(m)
        <3>1. m.env.jti \in Jobs BY DEF Shape, Mail
        <3>2. job'[m.env.jti].status # "Sent"
            BY <1>3, <3>1, SettledIsNotSent DEF ApplyResult
        <3>3. mail' = mail \ {m} /\ Held' = Held BY <2>1, <2>3 DEF TakeOff, Held, Free
        <3> QED BY <3>2, <3>3, OthersAreSame DEF Mail, Comes, Goes
    <2> QED BY <1>3, <2>2, <2>3 DEF ApplyResult
<1>4. ASSUME NEW m \in mail, ResultNotApplied(m) PROVE Handed
    BY <1>4, ReturnedIsSame, SwapHandsOn DEF ResultNotApplied
<1>5. ASSUME NEW m \in mail, RefuseResult(m) PROVE Handed
    <2>1. PICK n \in AfterRefusal(m) : Swap(m, n) BY <1>5 DEF RefuseResult
    <2>2. hand' = hand BY <1>5 DEF RefuseResult
    <2> QED BY <2>1, <2>2, RefusedIsSame, SwapHandsOn
<1>6. ASSUME NEW m \in mail, DrainDeadLetter(m) PROVE Handed
    <2>1. m.env.jti \in Jobs BY DEF Shape, Mail
    <2>2. job'[m.env.jti].status # "Sent"
        BY <1>6, <2>1, SettledIsNotSent DEF DrainDeadLetter
    <2>3. mail' = mail \ {m} /\ Held' = Held BY <1>6 DEF DrainDeadLetter, TakeOff, Held, Free
    <2> QED BY <2>2, <2>3, OthersAreSame DEF Mail, Comes, Goes
<1> QED BY <1>1, <1>2, <1>3, <1>4, <1>5, <1>6 DEF Backend

\* The worker takes a message from the queue into its hand.
LEMMA TakenHandsOn ==
    ASSUME NEW m \in mail, hand = Free, NEW phase \in {"run", "fail"},
           hand' = [phase |-> phase, msg |-> m], mail' = mail \ {m}
    PROVE Handed
<1>1. Held' = {m} /\ Held = {} BY DEF Held, Free
<1>2. Mail' = Mail BY <1>1 DEF Mail
<1> QED BY <1>2, OthersAreSame DEF Handed, Comes, Goes

LEMMA AnswerComes ==
    ASSUME Shape, hand # Free
    PROVE Comes(StoredAnswer) /\ StoredAnswer.env.jti = hand.msg.env.jti
<1>1. hand.msg.env.jti \in Jobs BY HandIsMail DEF Shape
<1> QED BY <1>1 DEF StoredAnswer, Answer, Message, Comes, SealResult, Envelope

LEMMA SiteHandsOn ==
    ASSUME Shape, Site
    PROVE Handed
<1>1. ASSUME NEW m \in mail, RefuseJob(m) PROVE Handed
    <2>1. PICK n \in AfterRefusal(m) : Swap(m, n) BY <1>1 DEF RefuseJob
    <2>2. hand' = hand BY <1>1 DEF RefuseJob
    <2> QED BY <2>1, <2>2, RefusedIsSame, SwapHandsOn DEF Handed
<1>2. ASSUME NEW m \in mail, StartJob(m) \/ AnswerAgain(m) PROVE Handed
    BY <1>2, TakenHandsOn DEF StartJob, AnswerAgain, Take, TakeOff
<1>3. CASE JobSucceeds \/ JobFails
    <2>1. hand.phase = "run" /\ mail' = mail /\ hand'.msg = hand.msg
          /\ hand'.phase \in {"done", "fail"}
        <3>1. CASE JobSucceeds BY <3>1 DEF JobSucceeds, Finish
        <3>2. CASE JobFails BY <3>2 DEF JobFails, Finish
        <3> QED BY <1>3, <3>1, <3>2
    <2>2. hand # Free /\ hand' # Free BY <2>1 DEF Free
    <2>3. Held' = Held BY <2>1, <2>2 DEF Held, Free
    <2> QED BY <2>1, <2>3, NothingHandsOn DEF Handed
<1>4. ASSUME NEW sent, ReleaseWith(sent), hand # Free, sent \subseteq {StoredAnswer} PROVE Handed
    <2>1. mail' = mail \cup sent \cup {Returned(hand.msg)} /\ hand' = Free
        BY <1>4 DEF ReleaseWith
    <2>2. \A n \in sent : Comes(n) /\ n.env.jti = hand.msg.env.jti BY <1>4, AnswerComes
    <2> QED BY <1>4, <2>1, <2>2, LetGo DEF Handed
<1>5. CASE JobIsRetried \/ SiteStops
    <2>1. hand # Free BY <1>5 DEF JobIsRetried, SiteStops, Free
    <2> QED BY <1>4, <1>5, <2>1 DEF JobIsRetried, SiteStops, Release
<1>6. CASE SendResult
    <2>1. hand # Free /\ hand' = Free BY <1>6 DEF SendResult, Free
    <2>2. PICK rest \in {{}, {Returned(hand.msg)}} : mail' = mail \cup {StoredAnswer} \cup rest
        BY <1>6 DEF SendResult
    <2> QED BY <2>1, <2>2, AnswerComes, LetGo DEF Handed
<1>7. CASE SuccessIsOverwritten
    <2>1. hand.phase = "done" /\ hand'.msg = hand.msg /\ hand'.phase = "fail"
        BY <1>7 DEF SuccessIsOverwritten, Finish
    <2>2. hand # Free /\ hand' # Free BY <2>1 DEF Free
    <2>3. Held' = Held BY <2>1, <2>2 DEF Held, Free
    <2>4. mail' \subseteq mail \cup {StoredAnswer} /\ mail \subseteq mail'
        BY <1>7 DEF SuccessIsOverwritten, MayBeSent
    <2> QED BY <2>2, <2>3, <2>4, AnswerComes, PutOnHandsOn DEF Handed
<1>8. CASE SendResultFails
    <2>1. hand # Free BY <1>8 DEF SendResultFails, Free
    <2>2. PICK sent \in MayBeSent : ReleaseWith(sent) BY <1>8 DEF SendResultFails
    <2>3. sent \subseteq {StoredAnswer} BY DEF MayBeSent
    <2> QED BY <1>4, <2>1, <2>2, <2>3
<1> QED BY <1>1, <1>2, <1>3, <1>5, <1>6, <1>7, <1>8 DEF Site

LEMMA StepHandsOn ==
    ASSUME Shape, [Next]_vars
    PROVE Handed
<1>1. CASE Rotation \/ Tick \/ UNCHANGED vars
    <2>1. mail' = mail /\ hand' = hand
        BY <1>1 DEF Rotation, BackendUsesNewKey, SiteAnswersNewKey, Tick, vars
    <2> QED BY <2>1, NothingHandsOn DEF Handed, Held, Free
<1> QED BY <1>1, BackendHandsOn, SiteHandsOn DEF Next
-----------------------------------------------------------------------------
(* What a step does to a job and to what is known of it *)

IInv ==
    /\ Shape /\ SuccessIsKnown /\ JobsAreSealed /\ RunIsBegun /\ Deadlines
    /\ WaitedForIsOnItsWay /\ SuccessWasReported

Kept(j) == job'[j] = job[j]

Sends(j) ==
    /\ job[j].status = "Queued" /\ job'[j].status \in {"Queued", "Sent"}
    /\ job'[j].error = job[j].error
    /\ job'[j].status = "Sent" => job'[j].sentAt = now /\ (\E n \in Mail' : n.env.jti = j)

Settles(j) ==
    /\ Active(j) /\ job'[j].status \in {"Succeeded", "Failed"} /\ job'[j].sentAt = job[j].sentAt
    /\ job'[j].status = "Succeeded" => runs[j] = "succeeded"
    /\ job'[j].error = "unanswered" =>
          /\ job[j].status = "Sent" /\ job'[j].status = "Failed"
          /\ job[j].sentAt + JobTtl + Grace < now

JobsGoOn == job' \in [Jobs -> Rows] /\ \A j \in Jobs : Kept(j) \/ Sends(j) \/ Settles(j)

LEMMA SettleGoesOn ==
    ASSUME Shape, NEW i \in Jobs, NEW status \in {"Succeeded", "Failed"},
           NEW error \in {"none", "reported", "unanswered", "expired", "refused", "unreadable"},
           Settle(i, status, error), status = "Succeeded" => runs[i] = "succeeded",
           error = "unanswered" => /\ status = "Failed" /\ job[i].status = "Sent"
                                   /\ job[i].sentAt + JobTtl + Grace < now
    PROVE JobsGoOn
<1>1. CASE ~Active(i) BY <1>1 DEF Settle, JobsGoOn, Kept, Shape
<1>2. CASE Active(i)
    <2>1. job' = [job EXCEPT ![i].status = status, ![i].error = error]
        BY <1>2 DEF Settle
    <2>2. job' \in [Jobs -> Rows]
        <3>1. job[i] \in Rows BY DEF Shape
        <3>2. [job[i] EXCEPT !.status = status, !.error = error] \in Rows
            BY <3>1 DEF Rows
        <3>3. job' = [job EXCEPT ![i] = [job[i] EXCEPT !.status = status, !.error = error]]
            BY <2>1 DEF Shape
        <3> QED BY <3>2, <3>3 DEF Shape
    <2>3. \A j \in Jobs : j # i => Kept(j) BY <2>1 DEF Kept, Shape
    <2>4. job'[i].status = status /\ job'[i].error = error /\ job'[i].sentAt = job[i].sentAt
        BY <2>1 DEF Shape, Rows
    <2>5. Settles(i) BY <1>2, <2>4 DEF Settles
    <2> QED BY <2>2, <2>3, <2>5 DEF JobsGoOn
<1> QED BY <1>1, <1>2

LEMMA JobStep ==
    ASSUME IInv, [Next]_vars
    PROVE JobsGoOn
<1> USE DEF IInv
<1>1. ASSUME NEW i \in Jobs, SendJob(i) \/ SendUnconfirmed(i) PROVE JobsGoOn
    <2>1. job[i].status = "Queued" /\ Message("request", SealJob(i)) \in mail'
        BY <1>1 DEF SendJob, SendUnconfirmed, SealAndSend, PutOn
    <2>2. \E n \in Mail' : n.env.jti = i
        BY <2>1 DEF Mail, Message, SealJob, Envelope
    <2>3. CASE SendJob(i)
        <3>1. job' = [job EXCEPT ![i].status = "Sent", ![i].sentAt = now, ![i].attempts = @ + 1]
            BY <2>3 DEF SendJob
        <3>2. job' \in [Jobs -> Rows] BY <3>1 DEF Shape, Rows
        <3>3. Sends(i) BY <2>1, <2>2, <3>1 DEF Sends, Shape, Rows
        <3>4. \A j \in Jobs : j # i => Kept(j) BY <3>1 DEF Kept, Shape
        <3> QED BY <3>2, <3>3, <3>4 DEF JobsGoOn
    <2>4. CASE SendUnconfirmed(i)
        <3>1. job' = [job EXCEPT ![i].attempts = @ + 1]
            BY <2>4 DEF SendUnconfirmed
        <3>2. job' \in [Jobs -> Rows] BY <3>1 DEF Shape, Rows
        <3>3. Sends(i) BY <2>1, <3>1 DEF Sends, Shape, Rows
        <3>4. \A j \in Jobs : j # i => Kept(j) BY <3>1 DEF Kept, Shape
        <3> QED BY <3>2, <3>3, <3>4 DEF JobsGoOn
    <2> QED BY <1>1, <2>3, <2>4
<1>2. ASSUME NEW i \in Jobs, FailUnanswered(i) PROVE JobsGoOn
    <2>1. job[i].status = "Sent" /\ job[i].sentAt + JobTtl + Grace < now
        BY <1>2, TimesAssumption DEF FailUnanswered, Shape, Rows
    <2> QED BY <1>2, <2>1, SettleGoesOn DEF FailUnanswered
<1>3. ASSUME NEW m \in mail, ApplyResult(m) \/ DrainDeadLetter(m) PROVE JobsGoOn
    <2>1. m \in Mail /\ m.env.jti \in Jobs BY DEF Shape, Mail
    <2>2. DeadLetterError(m.env) \in {"unreadable", "expired", "refused"} BY DEF DeadLetterError
    <2>3. CASE DrainDeadLetter(m)
        BY <2>1, <2>2, <2>3, SettleGoesOn DEF DrainDeadLetter
    <2>4. CASE ApplyResult(m)
        <3>1. CASE m.env.ok
            <4>1. runs[m.env.jti] = "succeeded" BY <2>1, <3>1 DEF SuccessIsKnown
            <4>2. Settle(m.env.jti, "Succeeded", "none") BY <2>4, <3>1 DEF ApplyResult
            <4> QED BY <2>1, <4>1, <4>2, SettleGoesOn
        <3>2. CASE ~m.env.ok
            <4>1. Settle(m.env.jti, "Failed", "reported") BY <2>4, <3>2 DEF ApplyResult
            <4> QED BY <2>1, <4>1, SettleGoesOn
        <3> QED BY <3>1, <3>2
    <2> QED BY <1>3, <2>3, <2>4
<1>4. ASSUME job' = job PROVE JobsGoOn
    BY <1>4 DEF JobsGoOn, Kept, Shape
<1>5. CASE Site
    BY <1>4, <1>5 DEF Site, RefuseJob, StartJob, AnswerAgain, JobSucceeds, JobFails, Finish,
        JobIsRetried, Release, ReleaseWith, SendResult, SuccessIsOverwritten, SendResultFails, SiteStops
<1>6. CASE Rotation \/ Tick \/ UNCHANGED vars
    BY <1>4, <1>6 DEF Rotation, BackendUsesNewKey, SiteAnswersNewKey, Tick, vars
<1>7. ASSUME NEW m \in mail, ResultNotApplied(m) \/ RefuseResult(m) PROVE JobsGoOn
    BY <1>4, <1>7 DEF ResultNotApplied, RefuseResult
<1> QED BY <1>1, <1>2, <1>3, <1>5, <1>6, <1>7 DEF Next, Backend

\* What the site knows of the jobs after a step.
SiteGoesOn ==
    /\ store' \in [Jobs -> {"none", "ok", "failed"}]
    /\ runs' \in [Jobs -> {"never", "begun", "succeeded"}]
    /\ \A j \in Jobs : runs[j] = "succeeded" => runs'[j] = "succeeded"
    /\ \A j \in Jobs : store'[j] = "ok" => runs'[j] = "succeeded"
    /\ hand' = Free \/ hand'.phase \in {"run", "done", "fail"}
    /\ RunIsBegun'

LEMMA SiteStep ==
    ASSUME IInv, [Next]_vars
    PROVE SiteGoesOn
<1> USE DEF IInv, Shape, SuccessIsKnown, RunIsBegun, SiteGoesOn
<1>1. ASSUME NEW m \in mail, StartJob(m) PROVE SiteGoesOn
    <2>1. m.env.jti \in Jobs BY DEF Mail
    <2>2. hand' = [phase |-> "run", msg |-> m] /\ store' = store
        BY <1>1 DEF StartJob
    <2>3. runs' = [runs EXCEPT ![m.env.jti] = IF @ = "never" THEN "begun" ELSE @]
        BY <1>1 DEF StartJob
    <2> QED BY <2>1, <2>2, <2>3
<1>2. CASE JobSucceeds
    <2>1. hand # Free /\ hand.msg.env.jti \in Jobs
        BY <1>2, HandIsMail DEF JobSucceeds, Free
    <2>2. store' = [store EXCEPT ![hand.msg.env.jti] = "ok"] /\ hand'.phase = "done"
        BY <1>2 DEF JobSucceeds, Finish
    <2>3. runs' = [runs EXCEPT ![hand.msg.env.jti] = "succeeded"]
        BY <1>2 DEF JobSucceeds
    <2> QED BY <2>1, <2>2, <2>3
<1>3. CASE JobFails \/ SuccessIsOverwritten
    <2>1. hand # Free /\ hand.msg.env.jti \in Jobs
        BY <1>3, HandIsMail DEF JobFails, SuccessIsOverwritten, Free
    <2>2. store' = [store EXCEPT ![hand.msg.env.jti] = "failed"] /\ hand'.phase = "fail" /\ runs' = runs
        <3>1. CASE JobFails BY <3>1 DEF JobFails, Finish
        <3>2. CASE SuccessIsOverwritten BY <3>2 DEF SuccessIsOverwritten, Finish
        <3> QED BY <1>3, <3>1, <3>2
    <2> QED BY <2>1, <2>2
<1>4. ASSUME store' = store, runs' = runs, hand' = hand \/ hand' = Free \/ hand'.phase = "fail"
      PROVE SiteGoesOn
    BY <1>4
<1>5. ASSUME NEW m \in mail, AnswerAgain(m) \/ RefuseJob(m) PROVE SiteGoesOn
    BY <1>4, <1>5 DEF AnswerAgain, RefuseJob
<1>6. CASE JobIsRetried \/ SendResult \/ SendResultFails \/ SiteStops
    BY <1>4, <1>6 DEF JobIsRetried, Release, ReleaseWith, SendResult, SendResultFails, SiteStops
<1>7. CASE Backend
    BY <1>4, <1>7 DEF Backend, SendJob, SendUnconfirmed, SealAndSend, FailUnanswered,
        ApplyResult, ResultNotApplied, RefuseResult, DrainDeadLetter
<1>8. CASE Rotation \/ Tick \/ UNCHANGED vars
    BY <1>4, <1>8 DEF Rotation, BackendUsesNewKey, SiteAnswersNewKey, Tick, vars
<1> QED BY <1>1, <1>2, <1>3, <1>5, <1>6, <1>7, <1>8 DEF Next, Site
-----------------------------------------------------------------------------
(* The invariant *)

LEMMA InitHolds == Init => IInv
<1> SUFFICES ASSUME Init PROVE IInv
    OBVIOUS
<1>1. Mail = {} BY DEF Init, Mail, Held
<1>2. Shape BY <1>1, TimesAssumption DEF Init, Shape, Rows, Kids
<1>3. SuccessIsKnown /\ JobsAreSealed /\ RunIsBegun BY <1>1 DEF Init, SuccessIsKnown, JobsAreSealed, RunIsBegun
<1>4. Deadlines /\ WaitedForIsOnItsWay /\ SuccessWasReported
    BY DEF Init, Deadlines, WaitedForIsOnItsWay, SuccessWasReported
<1> QED BY <1>2, <1>3, <1>4 DEF IInv

ClockGoesOn ==
    /\ now' \in Nat /\ now <= now' /\ skew' \in Skews
    /\ keys' \in [backend : Kids, listed : {Kids}, first : Kids]

LEMMA ClockStep ==
    ASSUME Shape, [Next]_vars
    PROVE ClockGoesOn
<1>1. ASSUME now' = now, skew' = skew, keys' = keys PROVE ClockGoesOn
    BY <1>1 DEF Shape, ClockGoesOn
<1>2. CASE Backend \/ UNCHANGED vars
    BY <1>1, <1>2 DEF Backend, SendJob, SendUnconfirmed, SealAndSend, FailUnanswered,
        ApplyResult, ResultNotApplied, RefuseResult, DrainDeadLetter, vars
<1>3. CASE Site
    BY <1>1, <1>3 DEF Site, RefuseJob, StartJob, AnswerAgain, JobSucceeds, JobFails, Finish,
        JobIsRetried, Release, ReleaseWith, SendResult, SuccessIsOverwritten, SendResultFails, SiteStops
<1>4. CASE Rotation
    <2>1. now' = now /\ skew' = skew BY <1>4 DEF Rotation, BackendUsesNewKey, SiteAnswersNewKey
    <2>2. keys' = [keys EXCEPT !.backend = "new"] \/ keys' = [keys EXCEPT !.first = "new"]
        BY <1>4 DEF Rotation, BackendUsesNewKey, SiteAnswersNewKey
    <2>3. keys' \in [backend : Kids, listed : {Kids}, first : Kids] BY <2>2 DEF Shape, Kids
    <2> QED BY <2>1, <2>3 DEF Shape, ClockGoesOn
<1>5. CASE Tick
    BY <1>5 DEF Shape, ClockGoesOn, Tick
<1> QED BY <1>2, <1>3, <1>4, <1>5 DEF Next

\* What is known of a new message.
LEMMA NewSeals ==
    ASSUME Shape, NEW j \in Jobs
    PROVE /\ Sealed(SealJob(j)) /\ SealJob(j).jti = j /\ ~SealJob(j).ok
          /\ SealJob(j).exp = now + JobTtl
          /\ SealResult(j, store[j] = "ok").typ = "result"
          /\ SealResult(j, store[j] = "ok").jti = j
          /\ SealResult(j, store[j] = "ok").ok => store[j] = "ok"
<1>1. SealJob(j).iat = now /\ SealJob(j).exp = now + JobTtl /\ now \in Nat /\ now <= now
    BY DEF Shape, SealJob, Envelope
<1>2. /\ SealJob(j).typ = "job" /\ SealJob(j).jti = j /\ ~SealJob(j).ok
      /\ SealJob(j).kid \in Kids /\ SealJob(j).rkid = SiteKid
    BY DEF Shape, SealJob, Envelope
<1>3. /\ SealResult(j, store[j] = "ok").typ = "result"
      /\ SealResult(j, store[j] = "ok").jti = j
    BY DEF SealResult, Envelope
<1>4. SealResult(j, store[j] = "ok").ok => store[j] = "ok"
    BY DEF SealResult, Envelope
<1> QED BY <1>1, <1>2, <1>3, <1>4 DEF Sealed

LEMMA StepKeepsInvariant ==
    ASSUME IInv, [Next]_vars
    PROVE IInv'
<1>1. Handed BY StepHandsOn DEF IInv
<1>2. JobsGoOn /\ SiteGoesOn BY JobStep, SiteStep
<1>3. /\ now' \in Nat /\ now <= now' /\ skew' \in Skews
      /\ keys' \in [backend : Kids, listed : {Kids}, first : Kids]
    BY ClockStep DEF IInv, ClockGoesOn
<1>4. Shape'
    <2>1. ASSUME NEW n \in Mail' PROVE n.env.jti \in Jobs
        BY <1>1, NewSeals DEF Handed, Comes, Same, IInv, Shape
    <2> QED BY <1>2, <1>3, <2>1 DEF Shape, JobsGoOn, SiteGoesOn, Kids
<1>5. SuccessIsKnown'
    <2>1. ASSUME NEW n \in Mail', n.env.ok PROVE runs'[n.env.jti] = "succeeded"
        <3>1. n.env.jti \in Jobs BY <1>4 DEF Shape
        <3>2. runs[n.env.jti] = "succeeded"
            BY <1>1, <2>1, NewSeals DEF Handed, Comes, Same, IInv, Shape, SuccessIsKnown
        <3> QED BY <1>2, <3>1, <3>2 DEF SiteGoesOn
    <2> QED BY <1>2, <2>1 DEF SuccessIsKnown, SiteGoesOn
<1>6. JobsAreSealed'
    <2>1. \A e : Sealed(e) => Sealed(e)'
        BY <1>3 DEF Sealed, IInv, Shape
    <2>2. ASSUME NEW n \in Mail' PROVE /\ n.env.typ = "job" => Sealed(n.env)
                                       /\ n.queue = "request" => n.env.typ = "job"
        <3>1. CASE \E m \in Mail : Same(m, n)
            BY <3>1 DEF Same, IInv, JobsAreSealed
        <3>2. CASE \E j \in Jobs : n.queue = "request" /\ n.env = SealJob(j)
            BY <3>2, NewSeals DEF IInv, Sealed
        <3>3. CASE \E j \in Jobs : n.queue = "result" /\ n.env = SealResult(j, store[j] = "ok")
            BY <3>3, NewSeals DEF IInv
        <3> QED BY <1>1, <3>1, <3>2, <3>3 DEF Handed, Comes
    <2> QED BY <2>1, <2>2 DEF JobsAreSealed
<1>7. Deadlines'
    <2> SUFFICES ASSUME NEW j \in Jobs
                 PROVE /\ job'[j].status = "Sent" => Covered(j)'
                       /\ job'[j].error = "unanswered" =>
                             /\ Covered(j)' /\ job'[j].status = "Failed"
                             /\ job'[j].sentAt + JobTtl + Grace < now'
        BY DEF Deadlines
    <2>1. job[j] \in Rows /\ job'[j] \in Rows /\ now \in Nat
        BY <1>2 DEF IInv, Shape, JobsGoOn
    <2>2. ASSUME Covered(j), job[j].status # "Queued", job'[j].sentAt = job[j].sentAt PROVE Covered(j)'
        <3> SUFFICES ASSUME NEW n \in Mail', n.env.typ = "job", n.env.jti = j
                     PROVE n.env.exp <= job'[j].sentAt + JobTtl
            BY DEF Covered
        <3>1. PICK m \in Mail : Same(m, n)
            BY <1>1, <2>2, NewSeals DEF Handed, Comes, IInv
        <3> QED BY <2>2, <3>1 DEF Covered, Same
    <2>3. CASE Kept(j)
        <3>1. job'[j] = job[j] BY <2>3 DEF Kept
        <3>2. job[j].error = "unanswered" => job[j].sentAt + JobTtl + Grace < now'
            BY <1>3, <2>1, TimesAssumption DEF IInv, Deadlines, Rows
        <3> QED BY <2>2, <3>1, <3>2 DEF IInv, Deadlines
    <2>4. CASE Sends(j)
        <3>1. job'[j].error # "unanswered" BY <2>4 DEF Sends, IInv, Deadlines
        <3>2. ASSUME job'[j].status = "Sent" PROVE Covered(j)'
            <4>1. job'[j].sentAt = now BY <2>4, <3>2 DEF Sends
            <4> SUFFICES ASSUME NEW n \in Mail', n.env.typ = "job", n.env.jti = j
                         PROVE n.env.exp <= now + JobTtl
                BY <4>1 DEF Covered
            <4>2. CASE \E m \in Mail : Same(m, n)
                BY <2>1, <4>2, TimesAssumption DEF Same, IInv, JobsAreSealed, Sealed
            <4>3. CASE \E i \in Jobs : n.env = SealJob(i)
                BY <2>1, <4>3, NewSeals, TimesAssumption DEF IInv
            <4> QED BY <1>1, <4>2, <4>3, NewSeals DEF Handed, Comes, IInv
        <3> QED BY <3>1, <3>2
    <2>5. CASE Settles(j)
        <3>1. job'[j].status # "Sent" BY <2>5 DEF Settles
        <3>2. ASSUME job'[j].error = "unanswered"
              PROVE /\ Covered(j)' /\ job'[j].status = "Failed"
                    /\ job'[j].sentAt + JobTtl + Grace < now'
            <4>1. /\ job[j].status = "Sent" /\ job'[j].status = "Failed" /\ job'[j].sentAt = job[j].sentAt
                  /\ job[j].sentAt + JobTtl + Grace < now
                BY <2>5, <3>2 DEF Settles
            <4>2. Covered(j)' BY <2>2, <4>1 DEF IInv, Deadlines
            <4> QED BY <1>3, <2>1, <4>1, <4>2, TimesAssumption DEF Rows
        <3> QED BY <3>1, <3>2
    <2> QED BY <1>2, <2>3, <2>4, <2>5 DEF JobsGoOn
<1>8. WaitedForIsOnItsWay'
    <2> SUFFICES ASSUME NEW j \in Jobs, job'[j].status = "Sent"
                 PROVE \E n \in Mail' : n.env.jti = j
        BY DEF WaitedForIsOnItsWay, Mail
    <2>1. CASE Kept(j)
        <3>1. PICK m \in Mail : m.env.jti = j BY <2>1 DEF Kept, IInv, WaitedForIsOnItsWay, Mail
        <3> QED BY <1>1, <3>1 DEF Handed, Goes
    <2>2. CASE Sends(j) BY <2>2 DEF Sends
    <2>3. CASE Settles(j) BY <2>3 DEF Settles
    <2> QED BY <1>2, <2>1, <2>2, <2>3 DEF JobsGoOn
<1>9. SuccessWasReported'
    <2> SUFFICES ASSUME NEW j \in Jobs, job'[j].status = "Succeeded" PROVE runs[j] = "succeeded"
        BY <1>2 DEF SuccessWasReported, SiteGoesOn
    <2> QED BY <1>2 DEF JobsGoOn, Kept, Sends, Settles, IInv, SuccessWasReported
<1>10. RunIsBegun' BY <1>2 DEF SiteGoesOn
<1> QED BY <1>4, <1>5, <1>6, <1>7, <1>8, <1>9, <1>10 DEF IInv
LEMMA InvariantHolds == Spec => []IInv
BY InitHolds, StepKeepsInvariant, PTL DEF Spec

-----------------------------------------------------------------------------
(* The theorems *)

\* A job the backend waits for has a message about it somewhere.
THEOREM WaitsForSomething == Spec => []WaitedForIsOnItsWay
<1>1. IInv => WaitedForIsOnItsWay BY DEF IInv
<1> QED BY <1>1, InvariantHolds, PTL

\* What the backend calls a success was one at the site.
THEOREM SuccessIsTrue == Spec => []SuccessWasReported
<1>1. IInv => SuccessWasReported BY DEF IInv
<1> QED BY <1>1, InvariantHolds, PTL

\* Once the deadline has passed, no copy of the job can be opened: its time
\* was over by the grace on the backend's clock, so it is over on the site's.
LEMMA LateCopiesAreShut ==
    ASSUME IInv, NEW j \in Jobs, job[j].error = "unanswered",
           NEW m \in mail, m.env.typ = "job", m.env.jti = j
    PROVE ~SiteOpens(m.env)
<1>1. m.env.exp <= job[j].sentAt + JobTtl /\ job[j].sentAt + JobTtl + Grace < now
    BY DEF IInv, Deadlines, Covered, Mail
<1>2. -SkewAllowed <= skew /\ SkewAllowed <= Grace
    BY SkewAssumption DEF IInv, Shape
<1>3. /\ m.env.exp \in Int /\ job[j].sentAt \in Nat /\ now \in Nat /\ skew \in Int
      /\ JobTtl \in Nat /\ Grace \in Nat /\ SkewAllowed \in Nat
    BY TimesAssumption DEF IInv, Shape, Rows, JobsAreSealed, Sealed, Mail
<1>4. ~(now + skew < m.env.exp) BY <1>1, <1>2, <1>3
<1> QED BY <1>4 DEF SiteOpens, Acceptable, SiteNow

\* The site never begins with a job that was failed for want of an answer.
THEOREM DeadlineIsFinal == Spec => UnansweredIsOver
<1>1. ASSUME IInv, [Next]_vars
      PROVE \A j \in Jobs : job[j].error = "unanswered" /\ runs[j] = "never" => runs'[j] = "never"
    <2> SUFFICES ASSUME NEW j \in Jobs, job[j].error = "unanswered", runs[j] = "never"
                 PROVE runs'[j] = "never"
        OBVIOUS
    <2>1. ASSUME NEW m \in mail, StartJob(m) PROVE runs'[j] = "never"
        <3>1. m.env.typ = "job" /\ SiteOpens(m.env)
            BY <1>1, <2>1 DEF StartJob, Take, IInv, JobsAreSealed, Mail
        <3>2. m.env.jti # j BY <1>1, <3>1, LateCopiesAreShut
        <3> QED BY <1>1, <2>1, <3>2 DEF StartJob, IInv, Shape
    <2>2. CASE JobSucceeds
        <3>1. hand # Free /\ hand.msg.env.jti # j
            BY <1>1, <2>2 DEF JobSucceeds, Free, IInv, RunIsBegun
        <3> QED BY <1>1, <2>2, <3>1 DEF JobSucceeds, IInv, Shape
    <2>3. ASSUME runs' = runs PROVE runs'[j] = "never"
        BY <2>3
    <2>4. CASE Backend \/ Rotation \/ Tick \/ UNCHANGED vars
        BY <2>3, <2>4 DEF Backend, SendJob, SendUnconfirmed, SealAndSend, FailUnanswered,
            ApplyResult, ResultNotApplied, RefuseResult, DrainDeadLetter,
            Rotation, BackendUsesNewKey, SiteAnswersNewKey, Tick, vars
    <2>5. ASSUME NEW m \in mail, RefuseJob(m) \/ AnswerAgain(m) PROVE runs'[j] = "never"
        BY <2>3, <2>5 DEF RefuseJob, AnswerAgain
    <2>6. CASE JobFails \/ JobIsRetried \/ SendResult \/ SuccessIsOverwritten \/ SendResultFails \/ SiteStops
        BY <2>3, <2>6 DEF JobFails, Finish, JobIsRetried, Release, ReleaseWith, SendResult,
            SuccessIsOverwritten, SendResultFails, SiteStops
    <2> QED BY <1>1, <2>1, <2>2, <2>4, <2>5, <2>6 DEF Next, Site
<1>2. IInv /\ [Next]_vars =>
        [\A j \in Jobs : job[j].error = "unanswered" /\ runs[j] = "never" => runs'[j] = "never"]_vars
    BY <1>1
<1> QED BY <1>2, InvariantHolds, PTL DEF Spec, UnansweredIsOver

\* Where the site allows the lifetime the backend gives, it refuses no job in time.
THEOREM RotationLosesNothing ==
    ASSUME JobTtl <= SiteMaxTtl
    PROVE Spec => OnlyLateJobsAreRefused
<1>1. ASSUME IInv, NEW m \in mail, RefuseJob(m) PROVE m.env.exp <= SiteNow
    <2>1. m.queue = "request" /\ ~SiteOpens(m.env) /\ m \in Mail
        BY <1>1 DEF RefuseJob, Take, Mail
    <2>2. m.env.typ = "job" /\ Sealed(m.env)
        BY <1>1, <2>1 DEF IInv, JobsAreSealed
    <2>3. /\ now \in Nat /\ skew \in Int /\ -SkewAllowed <= skew /\ keys.listed = Kids
          /\ JobTtl \in Nat /\ SiteMaxTtl \in Nat /\ SkewAllowed \in Nat
        BY <1>1, TimesAssumption, SkewAssumption DEF IInv, Shape
    <2>4. /\ m.env.kid \in keys.listed /\ m.env.rkid = SiteKid
          /\ m.env.iat <= now /\ m.env.iat \in Nat /\ m.env.exp = m.env.iat + JobTtl
        BY <2>2, <2>3 DEF Sealed
    <2>5. m.env.iat <= now + skew + SkewAllowed /\ m.env.exp - m.env.iat <= SiteMaxTtl
        BY <2>3, <2>4
    <2>6. ~(now + skew < m.env.exp)
        BY <2>1, <2>2, <2>4, <2>5 DEF SiteOpens, Acceptable, SiteNow
    <2> QED BY <2>3, <2>4, <2>6 DEF SiteNow
<1>2. IInv /\ [Next]_vars => [\A m \in mail : RefuseJob(m) => m.env.exp <= SiteNow]_vars
    BY <1>1
<1> QED BY <1>2, InvariantHolds, PTL DEF Spec, OnlyLateJobsAreRefused
=============================================================================
