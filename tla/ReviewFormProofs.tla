-------------------------- MODULE ReviewFormProofs --------------------------
(* Theorems about ReviewForm, for any requests and any number of forms,      *)
(* calls, jobs and failures.                                                 *)
EXTENDS ReviewForm, TLAPS

-----------------------------------------------------------------------------
(* What is invariant *)

Decisions == {"approve", "reject"}

\* The jobs a request has at each point of its life.
RowOK(row) ==
    /\ row \in Rows
    /\ row.status \in {None, "PENDING", "REJECTED"} => row.create = None
    /\ row.status = "APPROVED" => row.create # "Succeeded"
    /\ row.status \in {"ACTIVE", "COMPLETED"} => row.create \notin Running
    /\ row.revoke # None => row.status \in {"ACTIVE", "COMPLETED"}
    /\ row.status = "ACTIVE" => row.revoke # "Succeeded"
    /\ row.create = None => row.revoke = None
    /\ row.status = "COMPLETED" /\ row.create # None => row.revoke # None

RowsOK == rows \in [Requests -> Rows] /\ \A r \in Requests : RowOK(rows[r])

Details == [row : Rows, overlaps : SUBSET Requests]
Form == [n : Nat, rid : Requests \cup {None}, detail : Details, loading : BOOLEAN,
         confirming : BOOLEAN, busy : BOOLEAN]
ACall == [n : Nat, rid : Requests, kind : Reads \cup Actions, confirm : BOOLEAN,
          saw : SUBSET Requests, answer : {None, "ok", "refused", "overlaps", "lost"},
          detail : Details]

\* A set-up was begun.
Begun(row) == row.create # None

\* What is shown is a request as it was: one whose set-up was begun stays one.
WasSo(detail, r) == RowOK(detail.row) /\ (Begun(detail.row) => Begun(rows[r]))

FormOK ==
    /\ form \in Form /\ forms \in Nat /\ form.n \in 0..forms
    /\ form # NoForm => form.rid \in Requests /\ form.n > 0
    /\ RowOK(form.detail.row)
    /\ form # NoForm => WasSo(form.detail, form.rid)
    /\ form.confirming => form.detail.row.status = "PENDING" /\ form.detail.overlaps # {}

\* A call: polls and retries are of a request whose set-up was begun.
CallOK(c) ==
    /\ c \in ACall /\ c.n \in 1..forms
    /\ c.kind \in {"poll", "retry", "reread"} => Begun(rows[c.rid])
    /\ c.kind \in Reads /\ c.answer = "ok" =>
          /\ WasSo(c.detail, c.rid)
          /\ c.kind # "load" => Begun(c.detail.row)
    /\ c.answer = "overlaps" => c.kind = "approve" /\ c.detail.overlaps # {}
    /\ c.kind = "approve" /\ c.confirm => c.saw # {}

\* A call of the form that is open.
OwnCallOK(c) ==
    /\ c.rid = form.rid
    /\ c.kind = "load" => form.detail = NoDetail /\ \A d \in calls : d.n = c.n => d = c
    /\ c.kind = "approve" => form.detail.row.status = "PENDING"
    /\ form.detail.row.status = "PENDING" => c.kind \in Decisions

CallsOK == \A c \in calls : CallOK(c) /\ (c.n = form.n => OwnCallOK(c))

RInv == RowsOK /\ FormOK /\ CallsOK

-----------------------------------------------------------------------------
(* The requests *)

LEMMA RowTyped ==
    ASSUME NEW row, RowOK(row)
    PROVE  /\ row = [status |-> row.status, create |-> row.create, revoke |-> row.revoke]
           /\ row.status \in Statuses \cup {None} /\ row.create \in JobStatuses \cup {None}
           /\ row.revoke \in JobStatuses \cup {None}
BY DEF RowOK, Rows

\* What the services accept leaves a request as requests are, and no set-up undone.
LEMMA AcceptedIsOK ==
    ASSUME NEW r \in Requests, NEW action \in Actions, RowOK(rows[r]), Allowed(action, rows[r])
    PROVE  RowOK(After(action, r)) /\ (Begun(rows[r]) => Begun(After(action, r)))
<1> DEFINE row == rows[r]
<1>0. /\ row \in Rows
      /\ row.status \in Statuses \cup {None} /\ row.create \in JobStatuses \cup {None}
      /\ row.revoke \in JobStatuses \cup {None}
    BY RowTyped DEF RowOK
<1>1. CASE action = "approve"
    <2>1. row.status = "PENDING" BY <1>1 DEF Allowed
    <2>2. After(action, r) = [row EXCEPT !.status = "APPROVED",
                                         !.create = IF r \in Automated THEN "Queued" ELSE @]
        BY <1>1 DEF After
    <2> QED BY <1>0, <2>1, <2>2 DEF RowOK, Begun, Rows, Statuses, JobStatuses, None, Running
<1>2. CASE action = "reject"
    <2>1. row.status = "PENDING" BY <1>2 DEF Allowed
    <2>2. After(action, r) = [row EXCEPT !.status = "REJECTED"] BY <1>2 DEF After
    <2> QED BY <1>0, <2>1, <2>2 DEF RowOK, Begun, Rows, Statuses, JobStatuses, None, Running
<1>3. CASE action = "activate"
    <2>1. row.status = "APPROVED" /\ row.create \in {None, "Failed"}
        BY <1>3 DEF Allowed, ActivationAllowed
    <2>2. After(action, r) = [row EXCEPT !.status = "ACTIVE"] BY <1>3 DEF After
    <2> QED BY <1>0, <2>1, <2>2 DEF RowOK, Begun, Rows, Statuses, JobStatuses, None, Running
<1>4. CASE action = "complete"
    <2>1. row.status = "ACTIVE" BY <1>4 DEF Allowed
    <2>2. After(action, r) = [row EXCEPT !.status = "COMPLETED", !.revoke = Revoke(row)]
        BY <1>4 DEF After
    <2>3. Revoke(row) \in JobStatuses \cup {None} /\ (row.create # None <=> Revoke(row) # None)
        BY <1>0 DEF RowOK, Revoke, JobStatuses, None
    <2> QED BY <1>0, <2>1, <2>2, <2>3 DEF RowOK, Begun, Rows, Statuses, None
<1>5. CASE action = "retry"
    <2>1. LastJob(row) = "Failed" /\ (row.revoke = None => row.status = "APPROVED")
        BY <1>5 DEF Allowed
    <2>2. After(action, r) = IF row.revoke = None THEN [row EXCEPT !.create = "Queued"]
                                                  ELSE [row EXCEPT !.revoke = "Queued"]
        BY <1>5 DEF After
    <2> QED BY <1>0, <2>1, <2>2
            DEF RowOK, Begun, LastJob, Rows, Statuses, JobStatuses, None, Running
<1> QED BY <1>1, <1>2, <1>3, <1>4, <1>5 DEF Actions

\* How the requests may change.
RowsMove ==
    RowsOK' /\ \A r \in Requests : Begun(rows[r]) => Begun(rows'[r])

LEMMA OneRow ==
    ASSUME RowsOK, NEW r \in Requests, NEW row, RowOK(row), Begun(rows[r]) => Begun(row),
           rows' = [rows EXCEPT ![r] = row]
    PROVE  RowsMove
BY DEF RowsMove, RowsOK, RowOK

LEMMA ApplyMoves ==
    ASSUME RowsOK, NEW r \in Requests, NEW action \in Actions, Apply(action, r) PROVE RowsMove
<1>1. RowOK(rows[r]) /\ Allowed(action, rows[r]) /\ rows' = [rows EXCEPT ![r] = After(action, r)]
    BY DEF Apply, RowsOK
<1>2. RowOK(After(action, r)) /\ (Begun(rows[r]) => Begun(After(action, r)))
    BY <1>1, AcceptedIsOK
<1>3. PICK row : row = After(action, r) OBVIOUS
<1> QED BY <1>1, <1>2, <1>3, OneRow

LEMMA SubmitMoves ==
    ASSUME RowsOK, NEW r \in Requests, Submit(r) PROVE RowsMove
<1>1. RowOK(rows[r]) /\ rows[r].status = None /\ rows' = [rows EXCEPT ![r].status = "PENDING"]
    BY DEF Submit, RowsOK
<1>2. PICK row : row = [rows[r] EXCEPT !.status = "PENDING"] OBVIOUS
<1>3. rows' = [rows EXCEPT ![r] = row] BY <1>1, <1>2
<1>4. RowOK(row) /\ (Begun(rows[r]) => Begun(row))
    BY <1>1, <1>2 DEF RowOK, Begun, Rows, Statuses, JobStatuses, None, Running
<1> QED BY <1>3, <1>4, OneRow

LEMMA JobMovesMoves ==
    ASSUME RowsOK, NEW r \in Requests, JobMoves(r) PROVE RowsMove
<1> DEFINE old == rows[r]
<1>1. RowOK(old) BY DEF RowsOK
<1>2. PICK next \in {"Sent", "Succeeded", "Failed"} :
          /\ LastJob(old) = (IF next = "Sent" THEN "Queued" ELSE "Sent")
          /\ rows' = [rows EXCEPT ![r] = Moved(@, next)]
    BY DEF JobMoves
<1>3. PICK row : row = Moved(old, next) OBVIOUS
<1>4. rows' = [rows EXCEPT ![r] = row] BY <1>2, <1>3
<1>5. LastJob(old) \in Running BY <1>2 DEF Running
<1>6. CASE old.revoke # None
    <2>1. row = [old EXCEPT !.revoke = next,
                            !.status = IF next = "Succeeded" THEN "COMPLETED" ELSE @]
        BY <1>3, <1>6 DEF Moved
    <2>2. old.status \in {"ACTIVE", "COMPLETED"} BY <1>1, <1>6 DEF RowOK
    <2>3. RowOK(row) /\ (Begun(old) => Begun(row))
        BY <1>1, <1>6, <2>1, <2>2 DEF RowOK, Begun, Rows, Statuses, JobStatuses, None
    <2> QED BY <1>4, <2>3, OneRow
<1>7. CASE old.revoke = None
    <2>1. old.create \in Running BY <1>5, <1>7 DEF LastJob
    <2>2. old.status = "APPROVED"
        BY <1>1, <1>7, <2>1 DEF RowOK, Rows, Statuses, Running, None
    <2>3. row = [old EXCEPT !.create = next, !.status = IF next = "Succeeded" THEN "ACTIVE" ELSE @]
        BY <1>3, <1>7, <2>2 DEF Moved
    <2>4. RowOK(row) /\ (Begun(old) => Begun(row))
        BY <1>1, <1>7, <2>2, <2>3 DEF RowOK, Begun, Rows, Statuses, JobStatuses, None, Running
    <2> QED BY <1>4, <2>4, OneRow
<1> QED BY <1>6, <1>7

LEMMA ExpireMoves ==
    ASSUME RowsOK, NEW r \in Requests, Expire(r) PROVE RowsMove
<1>1. /\ RowOK(rows[r]) /\ rows[r].status = "ACTIVE" /\ rows[r].revoke = None
      /\ Revoke(rows[r]) = "Queued" /\ rows' = [rows EXCEPT ![r].revoke = "Queued"]
    BY DEF Expire, RowsOK
<1>2. PICK row : row = [rows[r] EXCEPT !.revoke = "Queued"] OBVIOUS
<1>3. rows' = [rows EXCEPT ![r] = row] BY <1>1, <1>2
<1>4. rows[r].create # None BY <1>1 DEF Revoke, None
<1>5. RowOK(row) /\ (Begun(rows[r]) => Begun(row))
    BY <1>1, <1>2, <1>4 DEF RowOK, Begun, Rows, Statuses, JobStatuses, None
<1> QED BY <1>3, <1>5, OneRow

LEMMA SameRows == ASSUME RowsOK, rows' = rows PROVE RowsMove
BY DEF RowsMove, RowsOK, RowOK

\* The footer and the services agree on every request as requests are.
LEMMA OffersAgree ==
    ASSUME NEW row, RowOK(row), row.status # None
    PROVE  Offers(row) = Taken(row) \ (IF RemovalFailed(row) THEN {"complete"} ELSE {})
<1>0. /\ row.status \in Statuses /\ row.create \in JobStatuses \cup {None}
      /\ row.revoke \in JobStatuses \cup {None}
    BY RowTyped
<1>1. CASE row.status = "PENDING"
    <2>1. Offers(row) = {"approve", "reject"} BY <1>1 DEF Offers
    <2>2. LastJob(row) = None BY <1>1 DEF RowOK, LastJob
    <2>3. \A a \in Actions : Allowed(a, row) <=> a \in {"approve", "reject"}
        BY <1>1, <2>2 DEF Actions, Allowed, None
    <2> QED BY <1>1, <2>1, <2>3 DEF Actions, Taken, RemovalFailed
<1>2. CASE row.status = "APPROVED"
    <2>1. row.revoke = None /\ row.create \in {None, "Queued", "Sent", "Failed"}
        BY <1>0, <1>2 DEF RowOK, JobStatuses
    <2>2. LastJob(row) = row.create BY <2>1 DEF LastJob
    <2>3. \A a \in Actions : Allowed(a, row) <=> \/ a = "activate" /\ row.create \in {None, "Failed"}
                                                 \/ a = "retry" /\ row.create = "Failed"
        BY <1>2, <2>1, <2>2 DEF Actions, Allowed, ActivationAllowed
    <2>4. Offers(row) = IF row.create = "Failed" THEN {"activate", "retry"}
                        ELSE IF row.create = None THEN {"activate"} ELSE {}
        BY <1>2 DEF Offers, None
    <2> QED BY <1>2, <2>1, <2>3, <2>4 DEF Actions, None, Taken, RemovalFailed
<1>3. CASE row.status = "ACTIVE" /\ row.revoke = "Failed"
    <2>1. Offers(row) = {"retry"} BY <1>3 DEF Offers
    <2>2. LastJob(row) = "Failed" BY <1>3 DEF LastJob, None
    <2>3. \A a \in Actions : Allowed(a, row) <=> a \in {"complete", "retry"}
        BY <1>3, <2>2 DEF Actions, Allowed, None
    <2> QED BY <1>3, <2>1, <2>3 DEF Actions, Taken, RemovalFailed
<1>4. CASE row.status = "ACTIVE" /\ row.revoke # "Failed"
    <2>1. Offers(row) = {"complete"} BY <1>4 DEF Offers
    <2>2. ~(LastJob(row) = "Failed" /\ (row.revoke = None => row.status = "APPROVED"))
        BY <1>4 DEF LastJob
    <2>3. \A a \in Actions : Allowed(a, row) <=> a = "complete"
        BY <1>4, <2>2 DEF Actions, Allowed
    <2> QED BY <1>4, <2>1, <2>3 DEF Actions, Taken, RemovalFailed
<1>5. CASE row.status = "COMPLETED"
    <2>1. Offers(row) = IF row.revoke = "Failed" THEN {"retry"} ELSE {} BY <1>5 DEF Offers
    <2>2. LastJob(row) = "Failed" /\ (row.revoke = None => row.status = "APPROVED")
             <=> row.revoke = "Failed"
        BY <1>5 DEF LastJob, None
    <2>3. \A a \in Actions : Allowed(a, row) <=> a = "retry" /\ row.revoke = "Failed"
        BY <1>5, <2>2 DEF Actions, Allowed
    <2> QED BY <1>5, <2>1, <2>3 DEF Actions, Taken, RemovalFailed
<1>6. CASE row.status = "REJECTED"
    <2>1. row.create = None /\ row.revoke = None BY <1>6 DEF RowOK
    <2>2. Offers(row) = {} BY <1>6, <2>1 DEF Offers, None
    <2>3. \A a \in Actions : ~Allowed(a, row) BY <1>6, <2>1 DEF Actions, Allowed, LastJob, None
    <2> QED BY <1>6, <2>2, <2>3 DEF Taken, RemovalFailed
<1> QED BY <1>0, <1>1, <1>2, <1>3, <1>4, <1>5, <1>6 DEF Statuses

-----------------------------------------------------------------------------
(* The calls *)

LEMMA NothingShown ==
    /\ NoDetail \in Details /\ NoForm \in Form /\ RowOK(NoDetail.row) /\ ~Begun(NoDetail.row)
    /\ NoDetail.row.status = None /\ NoForm.n = 0 /\ NoForm.detail = NoDetail
    /\ ~NoForm.confirming
BY DEF NoDetail, NoForm, Details, Form, NoRow, Rows, RowOK, Begun, None, Running

LEMMA CallParts ==
    ASSUME NEW c \in ACall
    PROVE  /\ c.n \in Nat /\ c.rid \in Requests /\ c.kind \in Reads \cup Actions
           /\ c.confirm \in BOOLEAN /\ c.saw \in SUBSET Requests /\ c.detail \in Details
BY DEF ACall

LEMMA CallsTyped == ASSUME RInv, NEW c \in calls PROVE c \in ACall /\ CallOK(c) /\ c.n \in 1..forms
BY DEF RInv, CallsOK, CallOK

LEMMA SoStays ==
    ASSUME RowsMove, NEW r \in Requests, NEW detail, WasSo(detail, r)
    PROVE  WasSo(detail, r)'
BY DEF RowsMove, WasSo

\* A call stays as it should be while requests move and forms are opened.
LEMMA CallStays ==
    ASSUME RowsMove, NEW c, CallOK(c), forms \in Nat, forms' \in Nat, forms <= forms'
    PROVE  CallOK(c)'
<1>1. c.rid \in Requests BY CallParts DEF CallOK
<1>2. WasSo(c.detail, c.rid) => WasSo(c.detail, c.rid)' BY <1>1, SoStays
<1>3. Begun(rows[c.rid]) => Begun(rows'[c.rid]) BY <1>1 DEF RowsMove
<1>4. \A n : n \in 1..forms => n \in 1..forms' OBVIOUS
<1> QED BY <1>2, <1>3, <1>4 DEF CallOK

LEMMA FormStays ==
    ASSUME RInv, RowsMove, UNCHANGED <<form, forms>> PROVE FormOK'
<1>1. form # NoForm => WasSo(form.detail, form.rid)' BY SoStays DEF RInv, FormOK
<1> QED BY <1>1 DEF RInv, FormOK

\* Nothing but the requests has changed.
LEMMA RowsOnly ==
    ASSUME RInv, RowsMove, UNCHANGED <<form, calls, forms>> PROVE RInv'
<1>1. FormOK' BY FormStays
<1>2. CallsOK'
    <2> SUFFICES ASSUME NEW c \in calls PROVE CallOK(c)' /\ (c.n = form.n => OwnCallOK(c)')
        BY DEF CallsOK
    <2>1. CallOK(c)' BY CallsTyped, CallStays DEF RInv, FormOK
    <2>2. c.n = form.n => OwnCallOK(c)' BY DEF RInv, CallsOK, OwnCallOK
    <2> QED BY <2>1, <2>2
<1> QED BY <1>1, <1>2 DEF RInv, RowsMove

\* A call has been answered, or lost.
LEMMA AnsweredKeeps ==
    ASSUME RInv, RowsMove, UNCHANGED <<form, forms>>, NEW c \in calls,
           NEW answer \in {None, "ok", "refused", "overlaps", "lost"}, NEW detail \in Details,
           Answered(c, answer, detail),
           answer = "overlaps" => c.kind = "approve" /\ detail.overlaps # {},
           answer = "ok" /\ c.kind \in Reads =>
              WasSo(detail, c.rid)' /\ (c.kind # "load" => Begun(detail.row))
    PROVE  RInv'
<1>1. FormOK' BY FormStays
<1>2. PICK d : d = [c EXCEPT !.answer = answer, !.detail = detail] OBVIOUS
<1>3. calls' = (calls \ {c}) \cup {d} BY <1>2 DEF Answered
<1>4. /\ d \in ACall /\ d.n = c.n /\ d.rid = c.rid /\ d.kind = c.kind /\ d.confirm = c.confirm
      /\ d.saw = c.saw /\ d.answer = answer /\ d.detail = detail
    <2>1. c \in ACall BY CallsTyped
    <2> QED BY <1>2, <2>1 DEF ACall
<1>5. CallOK(c)' BY CallsTyped, CallStays DEF RInv, FormOK
<1>6. CallOK(d)' BY <1>4, <1>5 DEF CallOK
<1>7. CallsOK'
    <2> SUFFICES ASSUME NEW x \in calls' PROVE CallOK(x)' /\ (x.n = form'.n => OwnCallOK(x)')
        BY DEF CallsOK
    <2>1. CASE x \in calls \ {c}
        <3>1. CallOK(x)' BY <2>1, CallsTyped, CallStays DEF RInv, FormOK
        <3>2. ASSUME x.n = form.n PROVE OwnCallOK(x)'
            <4>1. OwnCallOK(x) BY <2>1, <3>2 DEF RInv, CallsOK
            <4>2. x.kind = "load" => \A y \in calls' : y.n = x.n => y = x
                BY <1>3, <1>4, <2>1, <4>1 DEF OwnCallOK
            <4> QED BY <4>1, <4>2 DEF OwnCallOK
        <3> QED BY <3>1, <3>2
    <2>2. CASE x = d
        <3>1. ASSUME d.n = form.n PROVE OwnCallOK(d)'
            <4>1. OwnCallOK(c) BY <1>4, <3>1 DEF RInv, CallsOK
            <4>2. d.kind = "load" => \A y \in calls' : y.n = d.n => y = d
                BY <1>3, <1>4, <4>1 DEF OwnCallOK
            <4> QED BY <1>4, <4>1, <4>2 DEF OwnCallOK
        <3> QED BY <1>6, <2>2, <3>1
    <2> QED BY <1>3, <2>1, <2>2
<1> QED BY <1>1, <1>7 DEF RInv, RowsMove

LEMMA ReviewTyped ==
    ASSUME RInv, NEW r \in Requests
    PROVE  /\ getRequestForReview(r) \in Details
           /\ getRequestForReview(r).row = rows[r]
           /\ rows[r].status = "PENDING" => getRequestForReview(r).overlaps = findOverlaps(r)
BY DEF RInv, RowsOK, getRequestForReview, Details, findOverlaps

LEMMA ServeKeeps == ASSUME RInv, NEW c \in calls, Serve(c) PROVE RInv'
<1>0. c.rid \in Requests /\ c.kind \in Reads \cup Actions /\ UNCHANGED <<form, forms>>
    BY CallsTyped, CallParts DEF Serve
<1>1. CASE Read(c)
    <2>1. RowsMove BY <1>1, SameRows DEF Read, RInv
    <2>2. PICK detail : detail = getRequestForReview(c.rid) OBVIOUS
    <2>3. detail \in Details /\ detail.row = rows[c.rid] BY <1>0, <2>2, ReviewTyped
    <2>4. c.kind \in Reads /\ Answered(c, "ok", detail) /\ rows' = rows BY <1>1, <2>2 DEF Read
    <2>5. WasSo(detail, c.rid)' BY <1>0, <2>3, <2>4 DEF WasSo, RInv, RowsOK
    <2>6. c.kind # "load" => Begun(detail.row) BY <2>3, <2>4, CallsTyped DEF CallOK, Reads
    <2> QED BY <1>0, <2>1, <2>3, <2>4, <2>5, <2>6, AnsweredKeeps
<1>2. CASE Do(c)
    <2>1. RowsMove BY <1>0, <1>2, ApplyMoves DEF Do, RInv
    <2>2. c.kind \notin Reads BY <1>2 DEF Do, Reads, Actions
    <2> QED BY <1>0, <1>2, <2>1, <2>2, NothingShown, AnsweredKeeps DEF Do
<1>3. CASE AnswerOverlaps(c)
    <2>1. RowsMove BY <1>3, SameRows DEF AnswerOverlaps, RInv
    <2>2. PICK detail : detail = getRequestForReview(c.rid) OBVIOUS
    <2>5. rows[c.rid].status = "PENDING" BY <1>3 DEF AnswerOverlaps, Allowed
    <2>3. detail \in Details /\ detail.overlaps = findOverlaps(c.rid)
        BY <1>0, <2>2, <2>5, ReviewTyped
    <2>4. Answered(c, "overlaps", detail) /\ c.kind = "approve" /\ findOverlaps(c.rid) # {}
        BY <1>3, <2>2 DEF AnswerOverlaps, Asked, MustConfirm
    <2> QED BY <1>0, <2>1, <2>3, <2>4, AnsweredKeeps
<1>4. CASE Refuse(c)
    <2>1. RowsMove BY <1>4, SameRows DEF Refuse, RInv
    <2> QED BY <1>0, <1>4, <2>1, NothingShown, AnsweredKeeps DEF Refuse
<1> QED BY <1>1, <1>2, <1>3, <1>4 DEF Serve

LEMMA LoseKeeps == ASSUME RInv, NEW c \in calls, Lose(c) PROVE RInv'
<1>1. RowsMove BY SameRows DEF Lose, RInv
<1> QED BY <1>1, NothingShown, AnsweredKeeps DEF Lose

-----------------------------------------------------------------------------
(* The form *)

LEMMA FormParts ==
    ASSUME RInv
    PROVE  /\ form \in Form /\ form.n \in Nat /\ form.detail \in Details
           /\ form.detail.row \in Rows /\ form.detail.overlaps \in SUBSET Requests
           /\ form.confirming \in BOOLEAN /\ forms \in Nat /\ RowOK(form.detail.row)
           /\ form # NoForm => form.rid \in Requests /\ form.n \in 1..forms
BY DEF RInv, FormOK, Form, Details

\* The form offers a decision only on a request it shows.
LEMMA OfferedParts ==
    ASSUME RInv, NEW action, action \in Offered(form)
    PROVE  /\ form # NoForm /\ action \in Actions
           /\ action = "approve" => form.detail.row.status = "PENDING"
           /\ form.detail.row.status = "PENDING" => action \in Decisions
           /\ action = "retry" => Begun(form.detail.row)
<1>1. /\ form.detail.row.status \in Statuses \cup {None} /\ RowOK(form.detail.row)
      /\ form.confirming => form.detail.row.status = "PENDING"
    BY FormParts, RowTyped DEF RInv, FormOK
<1>2. form.detail.row.status = None => Offered(form) = {}
    <2>1. form.detail.row.status = None => form.detail.row.revoke = None
        BY <1>1 DEF RowOK, None
    <2> QED BY <2>1 DEF Offered, Offers, None
<1>3. form # NoForm BY <1>2, NothingShown
<1>4. CASE form.detail.row.status = "PENDING"
    <2>1. Offered(form) \subseteq Decisions BY <1>4 DEF Offered, Offers, Decisions
    <2> QED BY <1>3, <1>4, <2>1 DEF Decisions, Actions
<1>5. CASE form.detail.row.status # "PENDING"
    <2>1. action \in Offers(form.detail.row) BY <1>5 DEF Offered
    <2>2. action \in {"activate", "retry", "complete"} BY <1>5, <2>1 DEF Offers
    <2>3. action = "retry" => form.detail.row.create = "Failed" \/ form.detail.row.revoke = "Failed"
        BY <2>1, <1>5 DEF Offers
    <2>4. action = "retry" => Begun(form.detail.row) BY <1>1, <2>3 DEF RowOK, Begun, None
    <2> QED BY <1>3, <1>5, <2>2, <2>4 DEF Actions
<1> QED BY <1>4, <1>5

LEMMA CalledTyped ==
    ASSUME RInv, form # NoForm, NEW kind \in Reads \cup Actions
    PROVE  /\ Call(form, kind) \in ACall /\ Call(form, kind).n = form.n
           /\ Call(form, kind).rid = form.rid /\ Call(form, kind).kind = kind
           /\ Call(form, kind).confirm = form.confirming
           /\ Call(form, kind).saw = overlaps(form) /\ Call(form, kind).answer = None
<1>1. overlaps(form) \in SUBSET Requests BY FormParts DEF overlaps
<1> QED BY <1>1, FormParts, NothingShown DEF Call, ACall

\* The form sends a call and shows the same as before.
LEMMA SendKeeps ==
    ASSUME RInv, NEW kind \in {"poll"} \cup Actions, form # NoForm, NEW f \in Form,
           form' = f, f.n = form.n, f.rid = form.rid, f.detail = form.detail,
           f.confirming = form.confirming, f # NoForm,
           calls' = calls \cup {Call(form, kind)}, UNCHANGED <<rows, forms>>,
           kind \in {"poll", "retry"} => Begun(form.detail.row),
           kind = "approve" => /\ form.detail.row.status = "PENDING"
                               /\ form.confirming \/ overlaps(form) = {},
           form.detail.row.status = "PENDING" => kind \in Decisions,
           form.detail # NoDetail
    PROVE  RInv'
<1>0. RowsMove BY SameRows DEF RInv
<1>1. PICK new : new = Call(form, kind) OBVIOUS
<1>2. /\ new \in ACall /\ new.n = form.n /\ new.rid = form.rid /\ new.kind = kind
      /\ new.confirm = form.confirming /\ new.saw = overlaps(form) /\ new.answer = None
    BY <1>1, CalledTyped DEF Reads
<1>3. FormOK' BY <1>0, SoStays, FormParts DEF FormOK, RInv
<1>4. CallOK(new)'
    <2>1. new.n \in 1..forms' /\ new.rid \in Requests BY <1>2, FormParts
    <2>2. new.kind \in {"poll", "retry", "reread"} => Begun(rows[new.rid])'
        <3>1. Begun(form.detail.row) => Begun(rows[form.rid])
            BY DEF RInv, FormOK, WasSo
        <3>2. kind # "reread" BY DEF Actions
        <3> QED BY <1>0, <1>2, <3>1, <3>2, FormParts DEF RowsMove
    <2>3. new.kind = "approve" /\ new.confirm => new.saw # {}
        BY <1>2, FormParts DEF RInv, FormOK, overlaps
    <2>4. new.answer \notin {"ok", "overlaps"} BY <1>2 DEF None
    <2> QED BY <1>2, <2>1, <2>2, <2>3, <2>4 DEF CallOK
<1>5. OwnCallOK(new)'
    <2>1. new.kind # "load" BY <1>2 DEF Actions
    <2> QED BY <1>2, <2>1 DEF OwnCallOK
<1>6. CallsOK'
    <2> SUFFICES ASSUME NEW c \in calls PROVE CallOK(c)' /\ (c.n = form'.n => OwnCallOK(c)')
        BY <1>1, <1>4, <1>5 DEF CallsOK
    <2>1. CallOK(c)' BY <1>0, CallsTyped, CallStays, FormParts
    <2>2. ASSUME c.n = form.n PROVE OwnCallOK(c)'
        <3>1. OwnCallOK(c) BY <2>2 DEF RInv, CallsOK
        <3>2. c.kind # "load" BY <3>1 DEF OwnCallOK
        <3> QED BY <3>1, <3>2 DEF OwnCallOK
    <2> QED BY <2>1, <2>2
<1> QED BY <1>0, <1>3, <1>6 DEF RInv, RowsMove

LEMMA ReviewKeeps == ASSUME RInv, NEW action \in Actions, Review(action) PROVE RInv'
<1>1. /\ form # NoForm
      /\ action = "approve" => form.detail.row.status = "PENDING"
      /\ form.detail.row.status = "PENDING" => action \in Decisions
      /\ action = "retry" => Begun(form.detail.row)
    BY OfferedParts DEF Review
<1>2. PICK f : f = [form EXCEPT !.busy = TRUE] OBVIOUS
<1>3. /\ f \in Form /\ f.n = form.n /\ f.rid = form.rid /\ f.detail = form.detail
      /\ f.confirming = form.confirming /\ f # NoForm
    <2>1. form \in Form /\ form.n > 0 BY <1>1, FormParts
    <2>2. /\ f \in Form /\ f.n = form.n /\ f.rid = form.rid /\ f.detail = form.detail
          /\ f.confirming = form.confirming
        BY <1>2, <2>1 DEF Form
    <2>3. f.n # NoForm.n BY <2>1, <2>2, NothingShown
    <2> QED BY <2>2, <2>3
<1>4. action = "approve" => form.confirming \/ overlaps(form) = {}
    BY DEF Review, AskFirst
<1>5. form.detail # NoDetail
    <2>1. form.detail.row = NoRow => Offered(form) = {}
        BY DEF Offered, Offers, NoRow, None
    <2> QED BY <2>1 DEF Review, NoDetail
<1>6. action # "poll" BY DEF Actions
<1> QED BY <1>1, <1>2, <1>3, <1>4, <1>5, <1>6, SendKeeps DEF Review

LEMMA PollKeeps == ASSUME RInv, Poll PROVE RInv'
<1>1. LastJob(form.detail.row) \in Running BY DEF Poll, setupRunning
<1>2. Begun(form.detail.row) /\ form.detail.row.status # "PENDING"
    BY <1>1, FormParts DEF RowOK, LastJob, Begun, Running, None
<1>3. form # NoForm /\ form.detail # NoDetail BY <1>2, NothingShown
<1>4. form.n \in Nat /\ form \in Form BY FormParts
<1> QED BY <1>2, <1>3, <1>4, SendKeeps DEF Poll, Actions

\* No form is open any more; the calls under way are those that were, or proper ones.
LEMMA ClosedKeeps ==
    ASSUME RInv, RowsMove, form' = NoForm, forms' = forms,
           \A x \in calls' : x \in calls \/ CallOK(x)'
    PROVE  RInv'
<1>1. FormOK' BY NothingShown, FormParts DEF FormOK
<1>2. CallsOK'
    <2> SUFFICES ASSUME NEW c \in calls' PROVE CallOK(c)' /\ c.n # NoForm.n
        BY DEF CallsOK
    <2>1. CallOK(c)'
        <3>1. ASSUME c \in calls PROVE CallOK(c)' BY <3>1, CallsTyped, CallStays, FormParts
        <3> QED BY <3>1
    <2>2. c.n \in 1..forms BY <2>1 DEF CallOK
    <2> QED BY <2>1, <2>2, FormParts, NothingShown
<1> QED BY <1>1, <1>2 DEF RInv, RowsMove

\* The question is asked, or taken back.
LEMMA QuestionKeeps ==
    ASSUME RInv, UNCHANGED <<rows, calls, forms>>, NEW b \in BOOLEAN,
           form' = [form EXCEPT !.confirming = b], form # NoForm,
           b => form.detail.row.status = "PENDING" /\ form.detail.overlaps # {}
    PROVE  RInv'
<1>0. RowsMove BY SameRows DEF RInv
<1>1. /\ form' \in Form /\ form'.n = form.n /\ form'.rid = form.rid /\ form'.detail = form.detail
      /\ form'.confirming = b
    BY FormParts DEF Form
<1>2. FormOK' BY <1>0, <1>1, SoStays, FormParts DEF FormOK, RInv
<1>3. CallsOK'
    <2> SUFFICES ASSUME NEW c \in calls PROVE CallOK(c)' /\ (c.n = form'.n => OwnCallOK(c)')
        BY DEF CallsOK
    <2>1. CallOK(c)' BY <1>0, CallsTyped, CallStays, FormParts
    <2>2. c.n = form.n => OwnCallOK(c)' BY <1>1 DEF RInv, CallsOK, OwnCallOK
    <2> QED BY <1>1, <2>1, <2>2
<1> QED BY <1>0, <1>2, <1>3 DEF RInv, RowsMove

LEMMA OpenKeeps == ASSUME RInv, NEW r \in Requests, Open(r) PROVE RInv'
<1>0. RowsMove BY SameRows DEF RInv, Open
<1>1. PICK f : f = [NoForm EXCEPT !.n = forms + 1, !.rid = r, !.loading = TRUE] OBVIOUS
<1>2. form' = f /\ forms' = f.n /\ calls' = calls \cup {Call(f, "load")} /\ rows' = rows
    BY <1>1 DEF Open
<1>3. /\ f \in Form /\ f.n = forms + 1 /\ f.rid = r /\ f.detail = NoDetail /\ ~f.confirming
      /\ forms \in Nat
    <2>1. forms \in Nat /\ forms + 1 \in Nat BY FormParts
    <2>2. NoForm \in Form /\ NoForm.detail = NoDetail /\ ~NoForm.confirming BY NothingShown
    <2>3. f = [n |-> forms + 1, rid |-> r, detail |-> NoDetail, loading |-> TRUE,
               confirming |-> FALSE, busy |-> FALSE]
        BY <1>1 DEF NoForm
    <2> QED BY <2>1, <2>2, <2>3, NothingShown DEF Form
<1>4. FormOK' BY <1>2, <1>3, NothingShown DEF FormOK, WasSo
<1>5. PICK new : new = Call(f, "load") OBVIOUS
<1>6. /\ new \in ACall /\ new.n = forms + 1 /\ new.rid = r /\ new.kind = "load" /\ new.answer = None
    <2>1. overlaps(f) = {} BY <1>3, NothingShown DEF overlaps, None
    <2>2. new = [n |-> forms + 1, rid |-> r, kind |-> "load", confirm |-> FALSE,
                 saw |-> {}, answer |-> None, detail |-> NoDetail]
        <3>1. f.confirming = FALSE BY <1>3 DEF Form
        <3> QED BY <1>3, <1>5, <2>1, <3>1 DEF Call
    <2>3. forms + 1 \in Nat /\ NoDetail \in Details BY <1>3, NothingShown
    <2> QED BY <2>2, <2>3 DEF ACall, Reads
<1>7. \A c \in calls : c.n # new.n BY <1>3, <1>6, CallsTyped
<1>8. CallOK(new)' BY <1>2, <1>3, <1>6 DEF CallOK, None
<1>9. OwnCallOK(new)'
    <2>1. f.detail.row.status # "PENDING" BY <1>3, NothingShown DEF None
    <2> QED BY <1>2, <1>3, <1>5, <1>6, <1>7, <2>1 DEF OwnCallOK
<1>10. CallsOK'
    <2>1. ASSUME NEW c \in calls PROVE CallOK(c)' /\ c.n # form'.n
        BY <1>0, <1>2, <1>3, <1>6, <1>7, CallsTyped, CallStays
    <2> QED BY <1>2, <1>5, <1>8, <1>9, <2>1 DEF CallsOK
<1> QED BY <1>0, <1>4, <1>10 DEF RInv, RowsMove

-----------------------------------------------------------------------------
(* The answers *)

\* A form shows what a read brought: nothing else of the open form is under way then.
LEMMA ShownKeeps ==
    ASSUME RInv, NEW c \in calls, c.kind \in Reads, c.answer = "ok", form # NoForm, c.n = form.n,
           NEW f \in Form, form' = f, f.n = form.n, f.rid = form.rid, f.detail = c.detail,
           f.confirming = form.confirming, f # NoForm,
           calls' = calls \ {c}, UNCHANGED <<rows, forms>>
    PROVE  RInv'
<1>0. RowsMove BY SameRows DEF RInv
<1>1. c \in ACall /\ CallOK(c) /\ OwnCallOK(c) /\ c.rid = form.rid
    BY CallsTyped DEF RInv, CallsOK, OwnCallOK
<1>2. WasSo(c.detail, c.rid) /\ (c.kind # "load" => Begun(c.detail.row))
    BY <1>1 DEF CallOK
<1>3. form.detail.row.status # "PENDING" BY <1>1 DEF OwnCallOK, Decisions, Reads
<1>4. ~form.confirming BY <1>3 DEF RInv, FormOK
<1>5. FormOK' BY <1>0, <1>1, <1>2, <1>4, SoStays, FormParts DEF FormOK, WasSo
<1>6. CallsOK'
    <2> SUFFICES ASSUME NEW x \in calls, x # c PROVE CallOK(x)' /\ (x.n = f.n => OwnCallOK(x)')
        BY DEF CallsOK
    <2>1. CallOK(x)' BY <1>0, CallsTyped, CallStays, FormParts
    <2>2. ASSUME x.n = form.n PROVE OwnCallOK(x)'
        <3>1. OwnCallOK(x) BY <2>2 DEF RInv, CallsOK
        <3>2. c.kind # "load" BY <1>1, <2>2 DEF OwnCallOK
        <3>3. x.kind # "load" BY <2>2, <3>1 DEF OwnCallOK
        <3>4. x.kind # "approve" BY <1>3, <3>1 DEF OwnCallOK
        <3>5. c.detail.row.status # "PENDING"
            BY <1>2, <3>2 DEF WasSo, RowOK, Begun
        <3> QED BY <3>1, <3>3, <3>4, <3>5 DEF OwnCallOK
    <2> QED BY <2>1, <2>2
<1> QED BY <1>0, <1>5, <1>6 DEF RInv, RowsMove

\* The call that reads the request again after a retry.
LEMMA Reread ==
    ASSUME RInv, RowsMove, forms' = forms, NEW c \in calls, c.kind = "retry",
           NEW d, d = [c EXCEPT !.kind = "reread", !.answer = None]
    PROVE  d.n = c.n /\ d.rid = c.rid /\ d.kind = "reread" /\ CallOK(d)'
<1>1. c \in ACall /\ CallOK(c)' BY CallsTyped, CallStays, FormParts
<1>2. d \in ACall /\ d.n = c.n /\ d.rid = c.rid /\ d.kind = "reread" /\ d.answer = None
    BY <1>1 DEF ACall, Reads
<1> QED BY <1>1, <1>2 DEF CallOK, None

\* The form shows the same request, and perhaps asks for a confirmation now; a retry that was
\* taken reads the request again.
LEMMA AfterDecision ==
    ASSUME RInv, NEW c \in calls, form # NoForm, NEW f \in Form, form' = f, f # NoForm,
           f.n = form.n, f.rid = form.rid, f.detail.row = form.detail.row,
           f.confirming => form.detail.row.status = "PENDING" /\ f.detail.overlaps # {},
           f.detail = form.detail \/ (c.n = form.n /\ c.kind \notin Reads),
           \/ calls' = calls \ {c}
           \/ /\ c.kind = "retry" /\ f = form
              /\ calls' = (calls \ {c}) \cup {[c EXCEPT !.kind = "reread", !.answer = None]},
           UNCHANGED <<rows, forms>>
    PROVE  RInv'
<1>0. RowsMove BY SameRows DEF RInv
<1>1. FormOK'
    <2>1. WasSo(f.detail, f.rid)' BY <1>0, SoStays DEF RInv, FormOK, WasSo, RowsMove
    <2> QED BY <2>1, FormParts DEF FormOK, RInv, WasSo
<1>2. ASSUME NEW x \in calls, x # c PROVE CallOK(x)' /\ (x.n = f.n /\ x.kind # "load" => OwnCallOK(x)')
    <2>1. CallOK(x)' BY <1>0, CallsTyped, CallStays, FormParts
    <2>2. x.n = f.n => OwnCallOK(x) BY <1>2 DEF RInv, CallsOK
    <2> QED BY <2>1, <2>2 DEF OwnCallOK
<1>3. ASSUME NEW x \in calls, x # c, x.n = f.n, x.kind = "load" PROVE OwnCallOK(x)'
    <2>1. OwnCallOK(x) BY <1>3 DEF RInv, CallsOK
    <2>2. c.n # form.n BY <1>3, <2>1 DEF OwnCallOK
    <2>3. f.detail = form.detail BY <2>2
    <2>4. \A y \in calls' : y.n = x.n => y = x
        <3>1. c \in ACall BY CallsTyped
        <3>2. [c EXCEPT !.kind = "reread", !.answer = None].n = c.n BY <3>1 DEF ACall
        <3> QED BY <1>3, <2>1, <2>2, <3>2 DEF OwnCallOK
    <2> QED BY <2>1, <2>3, <2>4 DEF OwnCallOK
<1>4. CASE calls' = calls \ {c}
    <2>1. CallsOK' BY <1>2, <1>3, <1>4 DEF CallsOK
    <2> QED BY <1>0, <1>1, <2>1 DEF RInv, RowsMove
<1>5. CASE c.kind = "retry" /\ f = form
           /\ calls' = (calls \ {c}) \cup {[c EXCEPT !.kind = "reread", !.answer = None]}
    <2>1. PICK d : d = [c EXCEPT !.kind = "reread", !.answer = None] OBVIOUS
    <2>2. d.n = c.n /\ d.rid = c.rid /\ d.kind = "reread" /\ CallOK(d)'
        BY <1>0, <1>5, <2>1, Reread
    <2>5. ASSUME d.n = f.n PROVE OwnCallOK(d)'
        <3>1. OwnCallOK(c) BY <1>5, <2>2, <2>5 DEF RInv, CallsOK
        <3>2. form.detail.row.status # "PENDING" BY <1>5, <3>1 DEF OwnCallOK, Decisions
        <3> QED BY <1>5, <2>2, <3>1, <3>2 DEF OwnCallOK
    <2>6. CallsOK' BY <1>2, <1>3, <1>5, <2>1, <2>2, <2>5 DEF CallsOK
    <2> QED BY <1>0, <1>1, <2>6 DEF RInv, RowsMove
<1> QED BY <1>4, <1>5

LEMMA NotDoneShows ==
    ASSUME NEW f \in Form, NEW c \in ACall
    PROVE  /\ NotDone(f, c) \in Form /\ NotDone(f, c).n = f.n /\ NotDone(f, c).rid = f.rid
           /\ NotDone(f, c).detail.row = f.detail.row
           /\ c.answer # "overlaps" => NotDone(f, c).confirming = f.confirming
                                       /\ NotDone(f, c).detail = f.detail
           /\ c.answer = "overlaps" => NotDone(f, c).detail.overlaps = c.detail.overlaps
<1>1. f.detail \in Details /\ c.detail.overlaps \in SUBSET Requests BY DEF Form, ACall, Details
<1>2. PICK free : free = [f EXCEPT !.busy = FALSE] OBVIOUS
<1>3. /\ free \in Form /\ free.n = f.n /\ free.rid = f.rid /\ free.detail = f.detail
      /\ free.confirming = f.confirming
    BY <1>2 DEF Form
<1>4. CASE c.answer # "overlaps" BY <1>2, <1>3, <1>4 DEF NotDone
<1>5. CASE c.answer = "overlaps"
    <2>1. NotDone(f, c) = [free EXCEPT !.detail.overlaps = c.detail.overlaps, !.confirming = TRUE]
        BY <1>2, <1>5 DEF NotDone
    <2>2. PICK detail : detail = [f.detail EXCEPT !.overlaps = c.detail.overlaps] OBVIOUS
    <2>3. detail \in Details /\ detail.row = f.detail.row /\ detail.overlaps = c.detail.overlaps
        BY <1>1, <2>2 DEF Details
    <2>4. NotDone(f, c) = [free EXCEPT !.detail = detail, !.confirming = TRUE]
        BY <1>3, <2>1, <2>2 DEF Form
    <2> QED BY <1>3, <1>5, <2>3, <2>4 DEF Form
<1> QED BY <1>4, <1>5

LEMMA AnswerKeeps == ASSUME RInv, NEW c \in calls, Answer(c) PROVE RInv'
<1> DEFINE again == c.kind = "retry" /\ c.answer = "ok"
<1>0. RowsMove /\ UNCHANGED <<rows, forms>> BY SameRows DEF RInv, Answer
<1>1. PICK d : d = [c EXCEPT !.kind = "reread", !.answer = None] OBVIOUS
<1>2. calls' = IF again THEN (calls \ {c}) \cup {d} ELSE calls \ {c} BY <1>1 DEF Answer
<1>3. \A x \in calls' : x \in calls \/ CallOK(x)'
    BY <1>0, <1>1, <1>2, Reread
<1>4. ASSUME form' = NoForm PROVE RInv' BY <1>0, <1>3, <1>4, ClosedKeeps
<1>5. ASSUME form # NoForm, form' = form PROVE RInv'
    <2>1. form.confirming => form.detail.row.status = "PENDING" /\ form.detail.overlaps # {}
        BY DEF RInv, FormOK
    <2>2. \/ calls' = calls \ {c}
          \/ c.kind = "retry" /\ calls' = (calls \ {c}) \cup {[c EXCEPT !.kind = "reread", !.answer = None]}
        BY <1>1, <1>2
    <2> QED BY <1>0, <1>5, <2>1, <2>2, FormParts, AfterDecision
<1>6. CASE form = NoForm BY <1>4, <1>6 DEF Answer
<1>7. CASE form # NoForm
    <2>0. form' = AfterAnswer(form, c) BY <1>7 DEF Answer
    <2>1. form \in Form /\ form.n > 0 /\ c \in ACall /\ CallOK(c) /\ c.kind \in Reads \cup Actions
        BY <1>7, FormParts, CallsTyped, CallParts
    <2>2. CASE c.kind \in Actions \ {"retry"} /\ c.answer = "ok"
        <3>1. form' = NoForm BY <2>0, <2>2 DEF AfterAnswer
        <3> QED BY <1>4, <3>1
    <2>3. CASE ~(c.kind \in Actions \ {"retry"} /\ c.answer = "ok") /\ form.n # c.n
        <3>1. form' = form BY <2>0, <2>3 DEF AfterAnswer
        <3> QED BY <1>5, <1>7, <3>1
    <2>4. CASE c.n = form.n /\ c.kind \in Reads
        <3>1. PICK f : f = AfterAnswer(form, c) OBVIOUS
        <3>2. c.kind \notin Actions /\ c.kind # "retry" /\ calls' = calls \ {c}
            BY <1>2, <2>4 DEF Reads, Actions
        <3>3. c.detail \in Details BY <2>1, CallParts
        <3>4. PICK shown : shown = Shown(form, c) OBVIOUS
        <3>5. /\ shown \in Form /\ shown.n = form.n /\ shown.rid = form.rid
              /\ shown.confirming = form.confirming
              /\ shown.detail = IF c.answer = "ok" THEN c.detail ELSE form.detail
            BY <2>1, <3>3, <3>4 DEF Shown, Form
        <3>6. f \in {shown, [shown EXCEPT !.loading = FALSE], [shown EXCEPT !.busy = FALSE]}
            BY <2>4, <3>1, <3>2, <3>4 DEF AfterAnswer, AfterOwnAnswer, Reads
        <3>7. /\ f \in Form /\ f.n = form.n /\ f.rid = form.rid /\ f.confirming = form.confirming
              /\ f.detail = shown.detail
            BY <3>5, <3>6 DEF Form
        <3>8. f # NoForm BY <2>1, <3>7, NothingShown
        <3>9. form' = f BY <2>0, <3>1
        <3>10. CASE c.answer = "ok"
            BY <1>0, <1>7, <2>4, <3>2, <3>5, <3>7, <3>8, <3>9, <3>10, ShownKeeps
        <3>11. CASE c.answer # "ok"
            <4>1. f.detail = form.detail BY <3>5, <3>7, <3>11
            <4>2. f.confirming => form.detail.row.status = "PENDING" /\ f.detail.overlaps # {}
                BY <3>7, <4>1 DEF RInv, FormOK
            <4> QED BY <1>0, <1>7, <3>2, <3>7, <3>8, <3>9, <4>1, <4>2, AfterDecision
        <3> QED BY <3>10, <3>11
    <2>5. CASE c.n = form.n /\ c.kind = "retry" /\ c.answer = "ok"
        <3>1. form' = form BY <2>0, <2>5 DEF AfterAnswer, AfterOwnAnswer
        <3> QED BY <1>5, <1>7, <3>1
    <2>6. CASE c.n = form.n /\ c.kind \in Actions /\ c.answer # "ok"
        <3>1. PICK f : f = NotDone(form, c) OBVIOUS
        <3>2. /\ f \in Form /\ f.n = form.n /\ f.rid = form.rid /\ f.detail.row = form.detail.row
              /\ c.answer # "overlaps" => f.confirming = form.confirming /\ f.detail = form.detail
              /\ c.answer = "overlaps" => f.detail.overlaps = c.detail.overlaps
            BY <2>1, <3>1, NotDoneShows
        <3>3. f # NoForm BY <2>1, <3>2, NothingShown
        <3>4. form' = f /\ c.kind \notin Reads /\ calls' = calls \ {c}
            BY <1>2, <2>0, <2>6, <3>1 DEF AfterAnswer, AfterOwnAnswer, Reads, Actions
        <3>5. f.confirming => form.detail.row.status = "PENDING" /\ f.detail.overlaps # {}
            <4>1. CASE c.answer = "overlaps"
                <5>1. c.kind = "approve" /\ c.detail.overlaps # {} BY <2>1, <4>1 DEF CallOK
                <5>2. OwnCallOK(c) BY <2>6 DEF RInv, CallsOK
                <5> QED BY <3>2, <4>1, <5>1, <5>2 DEF OwnCallOK
            <4>2. CASE c.answer # "overlaps" BY <3>2, <4>2 DEF RInv, FormOK
            <4> QED BY <4>1, <4>2
        <3> QED BY <1>0, <1>7, <2>6, <3>2, <3>3, <3>4, <3>5, AfterDecision
    <2> QED BY <2>1, <2>2, <2>3, <2>4, <2>5, <2>6
<1> QED BY <1>6, <1>7

-----------------------------------------------------------------------------
(* Every step *)

LEMMA QuestionsKeep == ASSUME RInv, Confirm \/ Back PROVE RInv'
<1>1. CASE Confirm
    <2>1. form # NoForm /\ form.detail.row.status = "PENDING"
        BY <1>1, OfferedParts DEF Confirm
    <2>2. form.detail.overlaps # {} BY <1>1, <2>1 DEF Confirm, AskFirst, overlaps
    <2> QED BY <1>1, <2>1, <2>2, QuestionKeeps DEF Confirm
<1>2. CASE Back
    <2>1. form # NoForm BY <1>2, NothingShown DEF Back
    <2> QED BY <1>2, <2>1, QuestionKeeps DEF Back
<1> QED BY <1>1, <1>2

LEMMA ReviewNext == ASSUME RInv, [Next]_vars PROVE RInv'
<1>1. ASSUME NEW r \in Requests, Open(r) PROVE RInv' BY <1>1, OpenKeeps
<1>2. ASSUME NEW r \in Requests, Submit(r) PROVE RInv'
    BY <1>2, SubmitMoves, RowsOnly DEF Submit, RInv
<1>3. ASSUME NEW r \in Requests, Elsewhere(r) PROVE RInv'
    BY <1>3, ApplyMoves, RowsOnly DEF Elsewhere, RInv
<1>4. ASSUME NEW r \in Requests, JobMoves(r) PROVE RInv'
    BY <1>4, JobMovesMoves, RowsOnly DEF JobMoves, RInv
<1>11. ASSUME NEW r \in Requests, Expire(r) PROVE RInv'
    BY <1>11, ExpireMoves, RowsOnly DEF Expire, RInv
<1>5. CASE Close BY <1>5, SameRows, ClosedKeeps DEF Close, RInv
<1>6. CASE Confirm \/ Back BY <1>6, QuestionsKeep
<1>7. CASE Poll BY <1>7, PollKeeps
<1>8. ASSUME NEW action \in Actions, Review(action) PROVE RInv' BY <1>8, ReviewKeeps
<1>9. ASSUME NEW c \in calls, Serve(c) \/ Lose(c) \/ Answer(c) PROVE RInv'
    BY <1>9, ServeKeeps, LoseKeeps, AnswerKeeps
<1>10. CASE UNCHANGED vars BY <1>10, SameRows, RowsOnly DEF vars, RInv
<1> QED BY <1>1, <1>2, <1>3, <1>4, <1>5, <1>6, <1>7, <1>8, <1>9, <1>10, <1>11 DEF Next

LEMMA ReviewInit == Init => RInv
<1> SUFFICES ASSUME Init PROVE RInv OBVIOUS
<1>1. NoRow \in Rows /\ RowOK(NoRow) BY NothingShown DEF NoDetail, Details
<1>2. RowsOK BY <1>1 DEF Init, RowsOK
<1>3. FormOK BY NothingShown DEF Init, FormOK
<1> QED BY <1>2, <1>3 DEF Init, RInv, CallsOK

LEMMA ReviewInvariant == Spec => []RInv
BY ReviewInit, ReviewNext, PTL DEF Spec

\* The footer and the services agree: the form offers on a request as it is exactly the
\* decisions the backend would take (RequestFormModal.jsx, its footer; reviewer.service.js), the
\* completion of a request whose removal failed at its end date apart.
THEOREM OffersAreChoices == Spec => []OffersAreTheChoices
<1>1. RInv => OffersAreTheChoices BY OffersAgree DEF RInv, RowsOK, OffersAreTheChoices
<1> QED BY <1>1, ReviewInvariant, PTL

\* An approval that overlaps other requests when the backend decides it was confirmed by a
\* second click on a screen that listed overlaps (D28; RequestFormModal.jsx, its question).
THEOREM OverlapsConfirmed == Spec => OverlapsAreConfirmed
<1> DEFINE Confirmed == \A c \in calls : Do(c) /\ c.kind = "approve" /\ findOverlaps(c.rid) # {}
                           => c.confirm /\ c.saw # {}
<1>1. ASSUME RInv PROVE Confirmed
    <2> SUFFICES ASSUME NEW c \in calls, Do(c), c.kind = "approve", findOverlaps(c.rid) # {}
                 PROVE  c.confirm /\ c.saw # {}
        OBVIOUS
    <2>1. c.confirm BY DEF Do, Asked, MustConfirm
    <2> QED BY <1>1, <2>1, CallsTyped DEF CallOK
<1>2. RInv /\ [Next]_vars => [Confirmed]_vars BY <1>1
<1> QED BY <1>2, ReviewInvariant, PTL DEF Spec, OverlapsAreConfirmed
=============================================================================
