-------------------------- MODULE RequestFormProofs --------------------------
(* Theorems about RequestForm, for any tabs, any values of the fields and    *)
(* any number of forms, requests, drafts, calls, errors and failures.        *)
EXTENDS RequestForm, SequenceTheorems, TLAPS

-----------------------------------------------------------------------------
(* What is invariant *)

Row == [data : Data, status : {"PENDING"} \cup Decisions, form : Nat, draft : Nat]
Drafts == UNION {[D -> Data] : D \in SUBSET (1..MaxDrafts)}
AForm == [n : Nat, mode : {"none", "new", "edit", "view"}, rid : Nat, data : Data, draft : Nat,
          loading : BOOLEAN, loaded : BOOLEAN, busy : BOOLEAN]
Page == [form : AForm, listed : Drafts]
ACall == [n : Nat, tab : Tabs, kind : {"load", "create", "update", "ask"}, rid : Nat, data : Data,
          draft : Nat, loaded : BOOLEAN, end : EndDates, answer : {"none", "ok", "refused", "lost"}]

TypeOK ==
    /\ requests \in Seq(Row) /\ drafts \in Drafts /\ made \in Nat
    /\ page \in [Tabs -> Page] /\ calls \subseteq ACall
    /\ forms \in Nat /\ failures \in [1..MaxForms -> Nat] /\ trouble \in Nat

\* What the form of a tab waits for is on its way.
Waiting(t) ==
    /\ Form(t).busy => \E c \in calls : c.tab = t /\ c.n = Form(t).n /\ c.kind # "load"
    /\ Form(t).loading => \E c \in calls : c.tab = t /\ c.n = Form(t).n /\ c.kind = "load"

\* A form is of a request there is; one that edits it and has not loaded it lacks its type.
FormOK(t) ==
    /\ Form(t).mode \in {"edit", "view"} => Form(t).rid \in DOMAIN requests
    /\ Form(t).mode = "edit" /\ ~Form(t).loaded => Form(t).data.type = Empty
    /\ Waiting(t)

\* A call is for a request there is, a new one apart, which is stored when the answer says so.
CallOK(c) ==
    /\ c.kind # "create" => c.rid \in DOMAIN requests
    /\ c.kind = "update" => c.loaded
    /\ c.kind = "create" /\ c.answer = "ok" => \E r \in DOMAIN requests : requests[r].draft = c.draft

FInv ==
    /\ TypeOK
    /\ \A t \in Tabs : FormOK(t)
    /\ \A c \in calls : CallOK(c)

-----------------------------------------------------------------------------
(* Pages, drafts and requests *)

LEMMA EmptyTyped == EMPTY \in Data /\ EMPTY.type = Empty
BY DEF EMPTY, Data

LEMMA NoFormParts ==
    /\ NoForm \in AForm /\ ~NoForm.busy /\ ~NoForm.loading /\ NoForm.mode = "none"
BY EmptyTyped DEF NoForm, AForm

LEMMA DraftsAre ==
    ASSUME NEW f
    PROVE  f \in Drafts <=> /\ f = [d \in DOMAIN f |-> f[d]] /\ DOMAIN f \subseteq 1..MaxDrafts
                            /\ \A d \in DOMAIN f : f[d] \in Data
<1>1. ASSUME f \in Drafts
      PROVE  /\ f = [d \in DOMAIN f |-> f[d]] /\ DOMAIN f \subseteq 1..MaxDrafts
             /\ \A d \in DOMAIN f : f[d] \in Data
    <2>1. PICK D \in SUBSET (1..MaxDrafts) : f \in [D -> Data] BY <1>1 DEF Drafts
    <2> QED BY <2>1
<1>2. ASSUME f = [d \in DOMAIN f |-> f[d]], DOMAIN f \subseteq 1..MaxDrafts,
             \A d \in DOMAIN f : f[d] \in Data
      PROVE  f \in Drafts
    <2>1. f \in [DOMAIN f -> Data] BY <1>2
    <2> QED BY <1>2, <2>1 DEF Drafts
<1> QED BY <1>1, <1>2

LEMMA NoDrafts == << >> \in Drafts
<1>1. DOMAIN << >> = {} BY EmptySeq
<1>2. << >> = [d \in {} |-> Empty] BY <1>1
<1>3. << >> \in [{} -> Data] BY <1>2
<1>4. {} \in SUBSET (1..MaxDrafts) OBVIOUS
<1> QED BY <1>3, <1>4 DEF Drafts

LEMMA FewerDrafts ==
    ASSUME NEW f \in Drafts, NEW S
    PROVE  Restrict(f, DOMAIN f \ S) \in Drafts /\ DOMAIN Restrict(f, DOMAIN f \ S) = DOMAIN f \ S
<1>1. PICK g : g = Restrict(f, DOMAIN f \ S) OBVIOUS
<1>2. g = [d \in DOMAIN f \ S |-> f[d]] BY <1>1 DEF Restrict
<1>3. DOMAIN g = DOMAIN f \ S /\ \A d \in DOMAIN g : g[d] = f[d] BY <1>2
<1>4. DOMAIN f \subseteq 1..MaxDrafts /\ \A d \in DOMAIN f : f[d] \in Data BY DraftsAre
<1>5. g \in Drafts BY <1>2, <1>3, <1>4, DraftsAre
<1> QED BY <1>1, <1>3, <1>5

LEMMA MoreDrafts ==
    ASSUME NEW f \in Drafts, NEW d \in 1..MaxDrafts, NEW data \in Data, NEW g,
           g = [x \in DOMAIN f \cup {d} |-> IF x = d THEN data ELSE f[x]]
    PROVE  g \in Drafts /\ DOMAIN g = DOMAIN f \cup {d}
<1>1. DOMAIN f \subseteq 1..MaxDrafts /\ \A x \in DOMAIN f : f[x] \in Data BY DraftsAre
<1>2. DOMAIN g = DOMAIN f \cup {d} /\ \A x \in DOMAIN g : g[x] \in Data BY <1>1
<1>3. g = [x \in DOMAIN g |-> g[x]] BY <1>2
<1> QED BY <1>1, <1>2, <1>3, DraftsAre

LEMMA PageParts ==
    ASSUME TypeOK, NEW t \in Tabs
    PROVE  /\ page[t] \in Page /\ Form(t) \in AForm /\ page[t].listed \in Drafts
           /\ Form(t) = page[t].form
BY DEF TypeOK, Page, Form

LEMMA FormParts ==
    ASSUME NEW f \in AForm
    PROVE  /\ f.n \in Nat /\ f.rid \in Nat /\ f.data \in Data /\ f.draft \in Nat
           /\ f.mode \in {"none", "new", "edit", "view"} /\ f.loading \in BOOLEAN
           /\ f.loaded \in BOOLEAN /\ f.busy \in BOOLEAN
BY DEF AForm

LEMMA CallParts ==
    ASSUME NEW c \in ACall
    PROVE  /\ c.n \in Nat /\ c.tab \in Tabs /\ c.kind \in {"load", "create", "update", "ask"}
           /\ c.rid \in Nat /\ c.data \in Data /\ c.draft \in Nat /\ c.loaded \in BOOLEAN
           /\ c.answer \in {"none", "ok", "refused", "lost"}
BY DEF ACall

\* The page of one tab changes.
LEMMA OnePage ==
    ASSUME TypeOK, NEW t \in Tabs, NEW p \in Page, page' = [page EXCEPT ![t] = p]
    PROVE  /\ page' \in [Tabs -> Page] /\ page'[t] = p /\ Form(t)' = p.form
           /\ \A u \in Tabs \ {t} : page'[u] = page[u] /\ Form(u)' = Form(u)
BY DEF TypeOK, Form

\* The form of one tab changes.
LEMMA OneForm ==
    ASSUME TypeOK, NEW t \in Tabs, NEW f \in AForm, page' = WithForm(t, f)
    PROVE  /\ page' \in [Tabs -> Page] /\ Form(t)' = f
           /\ \A u \in Tabs \ {t} : page'[u] = page[u] /\ Form(u)' = Form(u)
<1>1. PICK p : p = [page[t] EXCEPT !.form = f] OBVIOUS
<1>2. p \in Page /\ p.form = f BY <1>1, PageParts DEF Page
<1>3. page' = [page EXCEPT ![t] = p] BY <1>1 DEF WithForm
<1> QED BY <1>2, <1>3, OnePage

\* Requests stay, each for the draft it was made from.
RequestsStay ==
    /\ requests' \in Seq(Row)
    /\ DOMAIN requests \subseteq DOMAIN requests'
    /\ \A r \in DOMAIN requests : requests'[r].draft = requests[r].draft

LEMMA SameRequests == ASSUME TypeOK, requests' = requests PROVE RequestsStay
BY DEF TypeOK, RequestsStay

\* A call stays as it should be.
LEMMA CallStays == ASSUME RequestsStay, NEW c, CallOK(c) PROVE CallOK(c)'
BY DEF RequestsStay, CallOK

\* The calls of a tab that are under way are still, answered or not.
CallsStay(t) ==
    \A c \in calls : c.tab = t => \E d \in calls' : d.tab = t /\ d.n = c.n /\ d.kind = c.kind

LEMMA SameCalls == ASSUME NEW t, calls \subseteq calls' PROVE CallsStay(t)
BY DEF CallsStay

LEMMA WaitingStays ==
    ASSUME NEW t, Waiting(t), Form(t)' = Form(t), CallsStay(t) PROVE Waiting(t)'
<1>1. ASSUME NEW c \in calls, c.tab = t
      PROVE  \E d \in calls' : d.tab = t /\ d.n = c.n /\ d.kind = c.kind
    BY <1>1 DEF CallsStay
<1> QED BY <1>1 DEF Waiting

LEMMA FormStays ==
    ASSUME RequestsStay, NEW t, FormOK(t), Form(t)' = Form(t), CallsStay(t) PROVE FormOK(t)'
BY WaitingStays DEF FormOK, RequestsStay

LEMMA Closed == ASSUME NEW t, Form(t)' = NoForm PROVE FormOK(t)'
BY NoFormParts DEF FormOK, Waiting

\* One tab's form changed and the rest is as it was.
LEMMA OneTab ==
    ASSUME FInv, NEW t \in Tabs, TypeOK', FormOK(t)', RequestsStay,
           \A u \in Tabs \ {t} : Form(u)' = Form(u) /\ CallsStay(u),
           \A c \in calls' : c \in calls \/ CallOK(c)'
    PROVE  FInv'
<1>1. ASSUME NEW u \in Tabs PROVE FormOK(u)'
    <2>1. CASE u # t BY <2>1, FormStays DEF FInv
    <2> QED BY <2>1
<1>2. ASSUME NEW c \in calls' PROVE CallOK(c)'
    <2>1. ASSUME c \in calls PROVE CallOK(c)' BY <2>1, CallStays DEF FInv
    <2> QED BY <2>1
<1> QED BY <1>1, <1>2 DEF FInv

-----------------------------------------------------------------------------
(* The student's steps *)

LEMMA LoadPageKeeps == ASSUME FInv, NEW t \in Tabs, LoadPage(t) PROVE FInv'
<1>0. TypeOK BY DEF FInv
<1>1. PICK p : p = FreshPage OBVIOUS
<1>2. p \in Page /\ p.form = NoForm BY <1>0, <1>1, NoFormParts DEF FreshPage, Page, TypeOK
<1>3. page' = [page EXCEPT ![t] = p] BY <1>1 DEF LoadPage
<1>4. page' \in [Tabs -> Page] /\ Form(t)' = NoForm /\ \A u \in Tabs \ {t} : Form(u)' = Form(u)
    BY <1>0, <1>2, <1>3, OnePage
<1>5. TypeOK' BY <1>0, <1>4 DEF TypeOK, LoadPage
<1>6. requests' = requests /\ calls' = calls BY DEF LoadPage
<1> QED BY <1>0, <1>4, <1>5, <1>6, Closed, SameRequests, SameCalls, OneTab

LEMMA CloseKeeps == ASSUME FInv, NEW t \in Tabs, Close(t) PROVE FInv'
<1>0. TypeOK BY DEF FInv
<1>1. page' \in [Tabs -> Page] /\ Form(t)' = NoForm /\ \A u \in Tabs \ {t} : Form(u)' = Form(u)
    BY <1>0, NoFormParts, OneForm DEF Close
<1>2. TypeOK' BY <1>0, <1>1 DEF TypeOK, Close
<1>3. requests' = requests /\ calls' = calls BY DEF Close
<1> QED BY <1>0, <1>1, <1>2, <1>3, Closed, SameRequests, SameCalls, OneTab

LEMMA OpenedParts ==
    ASSUME NEW n \in Nat, forms = n, NEW mode \in {"new", "edit", "view"}, NEW rid \in Nat,
           NEW data \in Data, NEW draft \in Nat, NEW f, f = Opened(mode, rid, data, draft)
    PROVE  /\ f \in AForm /\ f.n = n + 1 /\ f.mode = mode /\ f.rid = rid /\ f.data = data
           /\ ~f.busy /\ ~f.loaded /\ (rid = 0 => ~f.loading) /\ f.draft = draft
<1>1. PICK b \in BOOLEAN : b = (rid # 0) OBVIOUS
<1>2. f = [n |-> n + 1, mode |-> mode, rid |-> rid, data |-> data, draft |-> draft,
           loading |-> b, loaded |-> FALSE, busy |-> FALSE]
    BY <1>1 DEF Opened, NoForm
<1>3. n + 1 \in Nat OBVIOUS
<1>4. f \in AForm BY <1>2, <1>3 DEF AForm
<1>5. rid = 0 => b = FALSE BY <1>1
<1> QED BY <1>2, <1>4, <1>5

LEMMA OpenNewKeeps ==
    ASSUME FInv, NEW t \in Tabs, NEW data \in Data, NEW draft \in Nat, OpenNew(t, data, draft)
    PROVE  FInv'
<1>0. TypeOK /\ forms \in Nat /\ forms' \in Nat BY DEF FInv, TypeOK, OpenNew
<1>1. PICK f : f = Opened("new", 0, data, draft) OBVIOUS
<1>2. f \in AForm /\ f.mode = "new" /\ ~f.busy /\ ~f.loading
    BY <1>0, <1>1, OpenedParts
<1>3. page' = WithForm(t, f) BY <1>1 DEF OpenNew
<1>4. page' \in [Tabs -> Page] /\ Form(t)' = f /\ \A u \in Tabs \ {t} : Form(u)' = Form(u)
    BY <1>0, <1>2, <1>3, OneForm
<1>5. TypeOK' BY <1>0, <1>4 DEF TypeOK, OpenNew
<1>6. requests' = requests /\ calls' = calls BY DEF OpenNew
<1>7. FormOK(t)' BY <1>2, <1>4 DEF FormOK, Waiting
<1> QED BY <1>0, <1>4, <1>5, <1>6, <1>7, SameRequests, SameCalls, OneTab

LEMMA CalledParts ==
    ASSUME NEW t \in Tabs, NEW f \in AForm, NEW kind \in {"load", "create", "update", "ask"},
           NEW c, c = Call(t, f, kind)
    PROVE  /\ c \in ACall /\ c.n = f.n /\ c.tab = t /\ c.kind = kind /\ c.rid = f.rid
           /\ c.data = f.data /\ c.draft = f.draft /\ c.loaded = f.loaded /\ c.answer = "none"
BY FormParts DEF Call, ACall, EndDates

LEMMA OpenRequestKeeps ==
    ASSUME FInv, NEW t \in Tabs, NEW r \in DOMAIN requests, NEW mode \in {"edit", "view"},
           OpenRequest(t, r, mode)
    PROVE  FInv'
<1>0. TypeOK /\ forms \in Nat /\ forms' \in Nat BY DEF FInv, TypeOK, OpenRequest
<1>r. r \in Nat BY <1>0 DEF TypeOK
<1>1. PICK f : f = Opened(mode, r, EMPTY, 0) OBVIOUS
<1>2. f \in AForm /\ f.mode = mode /\ ~f.busy /\ f.rid = r /\ f.data = EMPTY
    BY <1>0, <1>r, <1>1, OpenedParts, EmptyTyped
<1>3. PICK c : c = Call(t, f, "load") OBVIOUS
<1>4. /\ c \in ACall /\ c.n = f.n /\ c.tab = t /\ c.kind = "load" /\ c.rid = r /\ c.answer = "none"
    BY <1>2, <1>3, CalledParts
<1>5. /\ page' = WithForm(t, f) /\ calls' = calls \cup {c} /\ requests' = requests
    BY <1>1, <1>3 DEF OpenRequest
<1>6. page' \in [Tabs -> Page] /\ Form(t)' = f /\ \A u \in Tabs \ {t} : Form(u)' = Form(u)
    BY <1>0, <1>2, <1>5, OneForm
<1>7. TypeOK' BY <1>0, <1>4, <1>5, <1>6 DEF TypeOK, OpenRequest
<1>8. Waiting(t)' BY <1>2, <1>4, <1>5, <1>6 DEF Waiting
<1>9. FormOK(t)' BY <1>2, <1>5, <1>6, <1>8, EmptyTyped DEF FormOK
<1>10. CallOK(c)' BY <1>4, <1>5 DEF CallOK
<1>11. \A u \in Tabs : CallsStay(u) BY <1>5, SameCalls
<1> QED BY <1>0, <1>5, <1>6, <1>7, <1>9, <1>10, <1>11, SameRequests, OneTab

LEMMA OpenKeeps == ASSUME FInv, NEW t \in Tabs, Open(t) PROVE FInv'
<1>1. CASE OpenNew(t, EMPTY, 0) BY <1>1, EmptyTyped, OpenNewKeeps
<1>2. ASSUME NEW d \in DOMAIN page[t].listed, OpenNew(t, page[t].listed[d], d) PROVE FInv'
    <2>1. page[t].listed \in Drafts BY PageParts DEF FInv
    <2>2. d \in Nat /\ page[t].listed[d] \in Data
        BY <2>1, DraftsAre, BoundsAssumption
    <2> QED BY <1>2, <2>2, OpenNewKeeps
<1>3. ASSUME NEW r \in DOMAIN requests, NEW mode \in {"edit", "view"}, OpenRequest(t, r, mode)
      PROVE  FInv'
    BY <1>3, OpenRequestKeeps
<1> QED BY <1>1, <1>2, <1>3 DEF Open

LEMMA RemoveDraftKeeps ==
    ASSUME FInv, NEW t \in Tabs, NEW d \in 1..MaxDrafts, RemoveDraft(t, d) PROVE FInv'
<1>0. TypeOK BY DEF FInv
<1>1. PICK left : left = Restrict(drafts, DOMAIN drafts \ {d}) OBVIOUS
<1>2. left \in Drafts BY <1>0, <1>1, FewerDrafts DEF TypeOK
<1>3. PICK p : p = [page[t] EXCEPT !.listed = left] OBVIOUS
<1>4. p \in Page /\ p.form = Form(t) BY <1>0, <1>2, <1>3, PageParts DEF Page
<1>5. page' = [page EXCEPT ![t] = p] /\ drafts' = left /\ requests' = requests /\ calls' = calls
    BY <1>1, <1>3 DEF RemoveDraft
<1>6. page' \in [Tabs -> Page] /\ Form(t)' = Form(t) /\ \A u \in Tabs \ {t} : Form(u)' = Form(u)
    BY <1>0, <1>4, <1>5, OnePage
<1>7. TypeOK' BY <1>0, <1>2, <1>5, <1>6 DEF TypeOK, RemoveDraft
<1>8. RequestsStay /\ \A u \in Tabs : CallsStay(u) BY <1>0, <1>5, SameRequests, SameCalls
<1>9. FormOK(t)' BY <1>6, <1>8, FormStays DEF FInv
<1> QED BY <1>5, <1>6, <1>7, <1>8, <1>9, OneTab

LEMMA TypeKeeps ==
    ASSUME FInv, NEW t \in Tabs, NEW data \in Typed, Type(t, data) PROVE FInv'
<1>0. TypeOK /\ Form(t) \in AForm /\ data \in Data BY PageParts, TypedAssumption DEF FInv
<1>1. PICK f : f = [Form(t) EXCEPT !.data = data] OBVIOUS
<1>2. /\ f \in AForm /\ f.mode = Form(t).mode /\ f.rid = Form(t).rid /\ f.loaded = Form(t).loaded
      /\ f.data = data /\ f.busy = Form(t).busy /\ f.loading = Form(t).loading /\ f.n = Form(t).n
    BY <1>0, <1>1 DEF AForm
<1>3. page' = WithForm(t, f) /\ requests' = requests /\ calls' = calls BY <1>1 DEF Type
<1>4. page' \in [Tabs -> Page] /\ Form(t)' = f /\ \A u \in Tabs \ {t} : Form(u)' = Form(u)
    BY <1>0, <1>2, <1>3, OneForm
<1>5. TypeOK' BY <1>0, <1>3, <1>4 DEF TypeOK, Type
<1>6. RequestsStay /\ \A u \in Tabs : CallsStay(u) BY <1>0, <1>3, SameRequests, SameCalls
<1>7. Form(t).mode = "edit" => data.type = Form(t).data.type BY DEF Type, MayType
<1>8. FormOK(t) BY DEF FInv
<1>9. Waiting(t)' BY <1>2, <1>3, <1>4, <1>8 DEF FormOK, Waiting
<1>10. FormOK(t)' BY <1>2, <1>3, <1>4, <1>7, <1>8, <1>9 DEF FormOK
<1> QED BY <1>3, <1>4, <1>5, <1>6, <1>10, OneTab

LEMMA SaveDraftKeeps == ASSUME FInv, NEW t \in Tabs, SaveDraft(t) PROVE FInv'
<1>0. TypeOK /\ Form(t) \in AForm /\ drafts \in Drafts /\ made \in Nat BY PageParts DEF FInv, TypeOK
<1>1. PICK d : d = DraftId(Form(t)) OBVIOUS
<1>2. d <= MaxDrafts /\ Form(t).mode = "new" BY <1>1 DEF SaveDraft
<1>3. d \in 1..MaxDrafts
    <2>1. DOMAIN drafts \subseteq 1..MaxDrafts BY <1>0, DraftsAre
    <2>2. d \in DOMAIN drafts \/ d = made + 1 BY <1>1 DEF DraftId
    <2> QED BY <1>0, <1>2, <2>1, <2>2, BoundsAssumption
<1>4. PICK saved : saved = [x \in DOMAIN drafts \cup {d} |-> IF x = d THEN Form(t).data ELSE drafts[x]]
    OBVIOUS
<1>5. saved \in Drafts BY <1>0, <1>3, <1>4, FormParts, MoreDrafts
<1>6. PICK f : f = [Form(t) EXCEPT !.draft = d] OBVIOUS
<1>7. /\ f \in AForm /\ f.mode = "new" /\ f.n = Form(t).n /\ f.busy = Form(t).busy
      /\ f.loading = Form(t).loading
    <2>1. d \in Nat BY <1>3, BoundsAssumption
    <2> QED BY <1>0, <1>2, <1>6, <2>1 DEF AForm
<1>8. PICK p : p = [form |-> f, listed |-> saved] OBVIOUS
<1>9. p \in Page /\ p.form = f BY <1>5, <1>7, <1>8 DEF Page
<1>10. /\ page' = [page EXCEPT ![t] = p] /\ drafts' = saved /\ requests' = requests /\ calls' = calls
       /\ made' = IF d > made THEN d ELSE made
    BY <1>1, <1>4, <1>6, <1>8 DEF SaveDraft
<1>11. page' \in [Tabs -> Page] /\ Form(t)' = f /\ \A u \in Tabs \ {t} : Form(u)' = Form(u)
    BY <1>0, <1>9, <1>10, OnePage
<1>12. made' \in Nat BY <1>0, <1>3, <1>10, BoundsAssumption
<1>13. TypeOK' BY <1>0, <1>5, <1>10, <1>11, <1>12 DEF TypeOK, SaveDraft
<1>14. RequestsStay /\ \A u \in Tabs : CallsStay(u) BY <1>0, <1>10, SameRequests, SameCalls
<1>15. Waiting(t)' BY <1>7, <1>10, <1>11 DEF FInv, FormOK, Waiting
<1>16. FormOK(t)' BY <1>7, <1>11, <1>15 DEF FormOK
<1> QED BY <1>10, <1>11, <1>13, <1>14, <1>16, OneTab

\* The form of a tab sends a call and waits for it.
LEMMA WaitsKeeps ==
    ASSUME FInv, NEW t \in Tabs, NEW c \in ACall, Waits(t, c), c.tab = t, c.n = Form(t).n,
           c.kind # "load", c.kind # "create" => c.rid \in DOMAIN requests,
           c.kind = "update" => c.loaded, c.answer = "none"
    PROVE  FInv'
<1>0. TypeOK /\ Form(t) \in AForm BY PageParts DEF FInv
<1>1. PICK f : f = [Form(t) EXCEPT !.busy = TRUE] OBVIOUS
<1>2. /\ f \in AForm /\ f.mode = Form(t).mode /\ f.rid = Form(t).rid /\ f.loaded = Form(t).loaded
      /\ f.data = Form(t).data /\ f.loading = Form(t).loading /\ f.n = Form(t).n
    BY <1>0, <1>1 DEF AForm
<1>3. page' = WithForm(t, f) /\ requests' = requests /\ calls' = calls \cup {c}
    BY <1>1 DEF Waits
<1>4. page' \in [Tabs -> Page] /\ Form(t)' = f /\ \A u \in Tabs \ {t} : Form(u)' = Form(u)
    BY <1>0, <1>2, <1>3, OneForm
<1>5. TypeOK' BY <1>0, <1>3, <1>4 DEF TypeOK, Waits
<1>6. RequestsStay /\ \A u \in Tabs : CallsStay(u) BY <1>0, <1>3, SameRequests, SameCalls
<1>7. FormOK(t) BY DEF FInv
<1>8. Waiting(t)' BY <1>2, <1>3, <1>4, <1>7 DEF FormOK, Waiting
<1>9. FormOK(t)' BY <1>2, <1>3, <1>4, <1>7, <1>8 DEF FormOK
<1>10. CallOK(c)' BY <1>3 DEF CallOK
<1> QED BY <1>3, <1>4, <1>5, <1>6, <1>9, <1>10, OneTab

LEMMA SubmitKeeps == ASSUME FInv, NEW t \in Tabs, Submit(t) PROVE FInv'
<1>0. Form(t) \in AForm /\ FormOK(t) BY PageParts DEF FInv
<1>1. PICK kind : kind = IF Form(t).mode = "edit" THEN "update" ELSE "create" OBVIOUS
<1>2. PICK c : c = Call(t, Form(t), kind) OBVIOUS
<1>3. /\ c \in ACall /\ c.n = Form(t).n /\ c.tab = t /\ c.kind = kind /\ c.rid = Form(t).rid
      /\ c.loaded = Form(t).loaded /\ c.answer = "none"
    BY <1>0, <1>1, <1>2, CalledParts
<1>4. Waits(t, c) /\ MaySubmit(Form(t)) BY <1>1, <1>2 DEF Submit
<1>5. kind = "update" => Form(t).loaded /\ Form(t).rid \in DOMAIN requests
    BY <1>0, <1>1, <1>4 DEF FormOK, MaySubmit, validate
<1> QED BY <1>1, <1>3, <1>4, <1>5, WaitsKeeps

LEMMA AskKeeps == ASSUME FInv, NEW t \in Tabs, AskForMoreTime(t) PROVE FInv'
<1>0. Form(t) \in AForm /\ FormOK(t) BY PageParts DEF FInv
<1>1. PICK b : b = Call(t, Form(t), "ask") OBVIOUS
<1>2. PICK c : c = [b EXCEPT !.end = "day"] OBVIOUS
<1>3. /\ b \in ACall /\ b.n = Form(t).n /\ b.tab = t /\ b.kind = "ask" /\ b.rid = Form(t).rid
      /\ b.answer = "none"
    BY <1>0, <1>1, CalledParts
<1>4. /\ c \in ACall /\ c.n = Form(t).n /\ c.tab = t /\ c.kind = "ask" /\ c.rid = Form(t).rid
      /\ c.answer = "none"
    BY <1>2, <1>3 DEF ACall, EndDates
<1>5. Waits(t, c) /\ Form(t).mode = "view" BY <1>1, <1>2 DEF AskForMoreTime
<1> QED BY <1>0, <1>4, <1>5, WaitsKeeps DEF FormOK

-----------------------------------------------------------------------------
(* The backend and the network *)

\* A call is answered, or lost: it stays a call of its form.
LEMMA AnsweredKeeps ==
    ASSUME FInv, NEW c \in calls, NEW d \in ACall, d.n = c.n, d.tab = c.tab, d.kind = c.kind,
           calls' = (calls \ {c}) \cup {d}, CallOK(d)', RequestsStay, TypeOK',
           UNCHANGED page
    PROVE  FInv'
<1>1. ASSUME NEW u \in Tabs PROVE FormOK(u)'
    <2>1. CallsStay(u) BY DEF CallsStay
    <2>2. Form(u)' = Form(u) BY DEF Form
    <2> QED BY <2>1, <2>2, FormStays DEF FInv
<1>2. ASSUME NEW x \in calls' PROVE CallOK(x)'
    <2>1. ASSUME x \in calls PROVE CallOK(x)' BY <2>1, CallStays DEF FInv
    <2> QED BY <2>1
<1> QED BY <1>1, <1>2 DEF FInv

LEMMA CallsTyped ==
    ASSUME FInv, NEW c \in calls
    PROVE  c \in ACall /\ CallOK(c) /\ c.tab \in Tabs /\ TypeOK
BY CallParts DEF FInv, TypeOK

LEMMA LoseKeeps == ASSUME FInv, NEW c \in calls, Lose(c) PROVE FInv'
<1>0. c \in ACall /\ CallOK(c) /\ TypeOK BY CallsTyped
<1>1. PICK d : d = [c EXCEPT !.answer = "lost"] OBVIOUS
<1>2. /\ d \in ACall /\ d.n = c.n /\ d.tab = c.tab /\ d.kind = c.kind /\ d.rid = c.rid
      /\ d.loaded = c.loaded /\ d.answer = "lost"
    BY <1>0, <1>1 DEF ACall
<1>3. calls' = (calls \ {c}) \cup {d} /\ UNCHANGED <<requests, page>> BY <1>1 DEF Lose
<1>4. CallOK(d)' BY <1>0, <1>2, <1>3 DEF CallOK
<1>5. TypeOK' BY <1>0, <1>2, <1>3 DEF TypeOK, Lose
<1> QED BY <1>0, <1>2, <1>3, <1>4, <1>5, SameRequests, AnsweredKeeps

\* What a call that is taken does to the requests.
LEMMA EffectOf ==
    ASSUME FInv, NEW c \in calls, NEW s, s = Effect(c)
    PROVE  /\ s \in Seq(Row) /\ DOMAIN requests \subseteq DOMAIN s
           /\ \A r \in DOMAIN requests : /\ s[r].draft = requests[r].draft
                                         /\ s[r].data # requests[r].data => c.kind = "update" /\ c.rid = r
           /\ c.kind = "create" => \E r \in DOMAIN s : s[r].draft = c.draft
<1>0. c \in ACall /\ CallOK(c) /\ requests \in Seq(Row) BY CallsTyped DEF TypeOK
<1>1. c.n \in Nat /\ c.data \in Data /\ c.draft \in Nat BY <1>0, CallParts
<1>2. CASE c.kind = "create"
    <2>1. PICK row : row = [data |-> c.data, status |-> "PENDING", form |-> c.n, draft |-> c.draft]
        OBVIOUS
    <2>2. row \in Row /\ row.draft = c.draft BY <1>1, <2>1 DEF Row
    <2>3. s = Append(requests, row) BY <1>2, <2>1 DEF Effect
    <2>4. /\ s \in Seq(Row) /\ Len(s) = Len(requests) + 1 /\ s[Len(requests) + 1] = row
          /\ \A r \in 1..Len(requests) : s[r] = requests[r]
        BY <1>0, <2>2, <2>3
    <2>5. DOMAIN requests = 1..Len(requests) /\ DOMAIN s = 1..Len(s) /\ Len(requests) \in Nat
        BY <1>0, <2>4
    <2> QED BY <1>2, <2>2, <2>4, <2>5
<1>3. CASE c.kind = "update"
    <2>1. c.rid \in DOMAIN requests BY <1>0, <1>3 DEF CallOK
    <2>2. PICK row : row = [requests[c.rid] EXCEPT !.data = c.data] OBVIOUS
    <2>3. requests[c.rid] \in Row BY <1>0, <2>1
    <2>4. row \in Row /\ row.draft = requests[c.rid].draft BY <1>1, <2>2, <2>3 DEF Row
    <2>5. s = [requests EXCEPT ![c.rid] = row] BY <1>3, <2>2 DEF Effect
    <2>6. s \in Seq(Row) /\ DOMAIN s = DOMAIN requests BY <1>0, <2>1, <2>4, <2>5, ExceptSeq
    <2>7. \A r \in DOMAIN requests : s[r] = IF r = c.rid THEN row ELSE requests[r] BY <2>5
    <2> QED BY <1>3, <2>4, <2>6, <2>7
<1>4. CASE c.kind \notin {"create", "update"}
    <2>1. s = requests BY <1>4 DEF Effect
    <2> QED BY <1>0, <1>4, <2>1
<1> QED BY <1>2, <1>3, <1>4

LEMMA ServeKeeps == ASSUME FInv, NEW c \in calls, Serve(c) PROVE FInv'
<1>0. c \in ACall /\ CallOK(c) /\ TypeOK /\ c.data \in Data BY CallsTyped, CallParts
<1>1. PICK answer \in {"ok", "refused"} : answer = IF Takes(c) THEN "ok" ELSE "refused" OBVIOUS
<1>2. PICK data : data = IF c.kind = "load" THEN requests[c.rid].data ELSE c.data OBVIOUS
<1>3. data \in Data
    <2>1. c.kind = "load" => requests[c.rid] \in Row BY <1>0 DEF CallOK, TypeOK
    <2> QED BY <1>0, <1>2, <2>1 DEF Row
<1>4. PICK d : d = [c EXCEPT !.answer = answer, !.data = data] OBVIOUS
<1>5. /\ d \in ACall /\ d.n = c.n /\ d.tab = c.tab /\ d.kind = c.kind /\ d.rid = c.rid
      /\ d.loaded = c.loaded /\ d.draft = c.draft /\ d.answer = answer
    BY <1>0, <1>3, <1>4 DEF ACall
<1>6. calls' = (calls \ {c}) \cup {d} /\ UNCHANGED page BY <1>1, <1>2, <1>4 DEF Serve
<1>7. RequestsStay /\ (Takes(c) /\ c.kind = "create"
                         => \E r \in DOMAIN requests' : requests'[r].draft = c.draft)
    <2>1. CASE Takes(c)
        <3>1. requests' = Effect(c) BY <2>1 DEF Serve
        <3> QED BY <3>1, EffectOf DEF RequestsStay
    <2>2. CASE ~Takes(c) BY <1>0, <2>2, SameRequests DEF Serve
    <2> QED BY <2>1, <2>2
<1>8. CallOK(d)'
    <2>1. d.kind # "create" => d.rid \in DOMAIN requests' BY <1>0, <1>5, <1>7 DEF CallOK, RequestsStay
    <2>2. d.kind = "update" => d.loaded BY <1>0, <1>5 DEF CallOK
    <2>3. answer = "ok" => Takes(c) BY <1>1
    <2> QED BY <1>5, <1>7, <2>1, <2>2, <2>3 DEF CallOK
<1>9. TypeOK' BY <1>0, <1>5, <1>6, <1>7 DEF TypeOK, Serve, RequestsStay
<1> QED BY <1>5, <1>6, <1>7, <1>8, <1>9, AnsweredKeeps

LEMMA DecideStays ==
    ASSUME TypeOK, NEW r \in DOMAIN requests, NEW status \in Decisions, Decide(r, status)
    PROVE  /\ RequestsStay /\ \A x \in DOMAIN requests : requests'[x].data = requests[x].data
           /\ UNCHANGED <<drafts, page, calls>> /\ TypeOK'
<1>0. requests \in Seq(Row) /\ requests[r] \in Row BY DEF TypeOK
<1>1. PICK row : row = [requests[r] EXCEPT !.status = status] OBVIOUS
<1>2. row \in Row /\ row.draft = requests[r].draft /\ row.data = requests[r].data
    BY <1>0, <1>1 DEF Row
<1>3. requests' = [requests EXCEPT ![r] = row] BY <1>1 DEF Decide
<1>4. requests' \in Seq(Row) /\ DOMAIN requests' = DOMAIN requests BY <1>0, <1>2, <1>3, ExceptSeq
<1>5. \A x \in DOMAIN requests : requests'[x] = IF x = r THEN row ELSE requests[x] BY <1>3
<1>6. RequestsStay BY <1>2, <1>4, <1>5 DEF RequestsStay
<1>7. TypeOK' BY <1>4 DEF TypeOK, Decide
<1> QED BY <1>2, <1>5, <1>6, <1>7 DEF Decide

\* Nothing the pages and the calls depend on has changed.
LEMMA SameKeeps == ASSUME FInv, RequestsStay, TypeOK', UNCHANGED <<page, calls>> PROVE FInv'
<1>1. ASSUME NEW u \in Tabs PROVE FormOK(u)'
    <2>1. CallsStay(u) /\ Form(u)' = Form(u) BY SameCalls DEF Form
    <2> QED BY <2>1, FormStays DEF FInv
<1>2. \A x \in calls' : CallOK(x)' BY CallStays DEF FInv
<1> QED BY <1>1, <1>2 DEF FInv

-----------------------------------------------------------------------------
(* The answers *)

\* What the answer to its own call leaves a form waiting for, and that another form is
\* left as it is.
LEMMA AfterAnswered ==
    ASSUME FInv, NEW c \in calls, NEW t, t = c.tab, NEW f, Form(t)' = f,
           calls' = calls \ {c}, requests' = requests,
           \/ f = NoForm
           \/ f = Form(t) /\ f.n # c.n
           \/ /\ f.n = Form(t).n /\ f.n = c.n /\ f.mode = Form(t).mode /\ f.rid = Form(t).rid
              /\ \/ /\ c.kind = "load" /\ ~f.loading /\ f.busy = Form(t).busy
                    /\ f.loaded \/ (f.loaded = Form(t).loaded /\ f.data = Form(t).data)
                 \/ /\ c.kind # "load" /\ ~f.busy /\ f.loading = Form(t).loading
                    /\ f.loaded = Form(t).loaded /\ f.data = Form(t).data
    PROVE  FormOK(t)'
<1>0. t \in Tabs /\ FormOK(t) BY CallsTyped DEF FInv
<1>1. CASE f = NoForm BY <1>1, Closed
<1>2. CASE f = Form(t) /\ f.n # c.n
    <2>1. Waiting(t)' BY <1>0, <1>2 DEF FormOK, Waiting
    <2> QED BY <1>0, <1>2, <2>1 DEF FormOK
<1>3. CASE /\ f.n = Form(t).n /\ f.mode = Form(t).mode /\ f.rid = Form(t).rid
           /\ c.kind = "load" /\ ~f.loading /\ f.busy = Form(t).busy
           /\ f.loaded \/ (f.loaded = Form(t).loaded /\ f.data = Form(t).data)
    <2>1. Waiting(t)' BY <1>0, <1>3 DEF FormOK, Waiting
    <2> QED BY <1>0, <1>3, <2>1 DEF FormOK
<1>4. CASE /\ f.n = Form(t).n /\ f.mode = Form(t).mode /\ f.rid = Form(t).rid
           /\ c.kind # "load" /\ ~f.busy /\ f.loading = Form(t).loading
           /\ f.loaded = Form(t).loaded /\ f.data = Form(t).data
    <2>1. Waiting(t)' BY <1>0, <1>4 DEF FormOK, Waiting
    <2> QED BY <1>0, <1>4, <2>1 DEF FormOK
<1> QED BY <1>1, <1>2, <1>3, <1>4

LEMMA LoadedParts ==
    ASSUME FInv, NEW c \in calls, NEW t, t = c.tab, NEW f, f = Loaded(t, c)
    PROVE  /\ f \in AForm
           /\ \/ f = Form(t) /\ f.n # c.n
              \/ /\ f.n = Form(t).n /\ f.n = c.n /\ f.mode = Form(t).mode /\ f.rid = Form(t).rid
                 /\ ~f.loading /\ f.busy = Form(t).busy
                 /\ f.loaded \/ (f.loaded = Form(t).loaded /\ f.data = Form(t).data)
<1>0. Form(t) \in AForm /\ c.data \in Data BY CallsTyped, CallParts, PageParts
<1>1. PICK g : g = [Form(t) EXCEPT !.loading = FALSE] OBVIOUS
<1>2. /\ g \in AForm /\ g.n = Form(t).n /\ g.mode = Form(t).mode /\ g.rid = Form(t).rid /\ ~g.loading
      /\ g.busy = Form(t).busy /\ g.loaded = Form(t).loaded /\ g.data = Form(t).data
    BY <1>0, <1>1 DEF AForm
<1>3. PICK l : l = [g EXCEPT !.loaded = TRUE, !.data = c.data] OBVIOUS
<1>4. /\ l \in AForm /\ l.n = g.n /\ l.mode = g.mode /\ l.rid = g.rid /\ ~l.loading
      /\ l.busy = g.busy /\ l.loaded
    BY <1>0, <1>2, <1>3 DEF AForm
<1>5. f = IF ~Shows(t, c) THEN Form(t) ELSE IF c.answer = "ok" THEN l ELSE g
    BY <1>1, <1>3 DEF Loaded
<1> QED BY <1>0, <1>2, <1>4, <1>5 DEF Shows

LEMMA FailedParts ==
    ASSUME NEW g \in AForm, NEW f, f = AfterFailure(g)
    PROVE  /\ f \in AForm /\ f.n = g.n /\ f.mode = g.mode /\ f.rid = g.rid /\ ~f.busy
           /\ f.loading = g.loading /\ f.loaded = g.loaded /\ f.data = g.data
BY DEF AfterFailure, AForm

LEMMA SubmittedParts ==
    ASSUME FInv, NEW c \in calls, NEW t, t = c.tab, NEW p, p = AfterSubmission(t, c)
    PROVE  /\ p \in Page
           /\ \/ p.form = NoForm
              \/ p.form = Form(t) /\ p.form.n # c.n
              \/ p.form = AfterFailure(Form(t)) /\ Form(t).n = c.n
<1>0. /\ page[t] \in Page /\ Form(t) \in AForm /\ page[t].listed \in Drafts
      /\ Form(t) = page[t].form /\ drafts \in Drafts
    BY CallsTyped, PageParts DEF TypeOK
<1>1. CASE c.answer = "ok"
    <2>1. PICK listed : listed = IF c.kind = "create" THEN DeletedWith(c) ELSE page[t].listed OBVIOUS
    <2>2. listed \in Drafts BY <1>0, <1>1, <2>1, FewerDrafts DEF DeletedWith
    <2>3. p = [form |-> NoForm, listed |-> listed] BY <1>1, <2>1 DEF AfterSubmission
    <2> QED BY <2>2, <2>3, NoFormParts DEF Page
<1>2. CASE c.answer # "ok"
    <2>1. PICK f : f = IF Shows(t, c) THEN AfterFailure(Form(t)) ELSE Form(t) OBVIOUS
    <2>2. f \in AForm BY <1>0, <2>1, FailedParts
    <2>3. p = [page[t] EXCEPT !.form = f] BY <1>0, <1>2, <2>1 DEF AfterSubmission
    <2>4. p \in Page /\ p.form = f BY <1>0, <2>2, <2>3 DEF Page
    <2> QED BY <2>1, <2>4 DEF Shows
<1> QED BY <1>1, <1>2

LEMMA AnswerKeeps == ASSUME FInv, NEW c \in calls, Answer(c) PROVE FInv'
<1> DEFINE t == c.tab
<1>0. /\ TypeOK /\ t \in Tabs /\ c \in ACall /\ Form(t) \in AForm /\ drafts \in Drafts
      /\ c.kind \in {"load", "create", "update", "ask"} /\ c.n \in Nat
    BY CallsTyped, CallParts, PageParts DEF TypeOK
<1>1. calls' = calls \ {c} /\ requests' = requests BY DEF Answer
<1>2. PICK f : f = Form(t)' OBVIOUS
<1>3. /\ page' \in [Tabs -> Page] /\ \A u \in Tabs \ {t} : Form(u)' = Form(u)
      /\ FormOK(t)'
    <2>1. CASE c.kind = "load"
        <3>1. PICK l : l = Loaded(t, c) OBVIOUS
        <3>2. page' = WithForm(t, l) BY <2>1, <3>1 DEF Answer
        <3>3. l \in AForm BY <3>1, LoadedParts
        <3>4. page' \in [Tabs -> Page] /\ Form(t)' = l /\ \A u \in Tabs \ {t} : Form(u)' = Form(u)
            BY <1>0, <3>2, <3>3, OneForm
        <3>5. FormOK(t)' BY <1>1, <2>1, <3>1, <3>4, LoadedParts, AfterAnswered
        <3> QED BY <3>4, <3>5
    <2>2. CASE c.kind = "ask"
        <3>1. PICK g : g = AfterFailure(Form(t)) OBVIOUS
        <3>2. /\ g \in AForm /\ g.n = Form(t).n /\ g.mode = Form(t).mode /\ g.rid = Form(t).rid
              /\ ~g.busy /\ g.loading = Form(t).loading /\ g.loaded = Form(t).loaded
              /\ g.data = Form(t).data
            BY <1>0, <3>1, FailedParts
        <3>3. CASE Shows(t, c)
            <4>1. page' = WithForm(t, g) BY <2>2, <3>1, <3>3 DEF Answer
            <4>2. page' \in [Tabs -> Page] /\ Form(t)' = g /\ \A u \in Tabs \ {t} : Form(u)' = Form(u)
                BY <1>0, <3>2, <4>1, OneForm
            <4>3. FormOK(t)' BY <1>1, <2>2, <3>2, <3>3, <4>2, AfterAnswered DEF Shows
            <4> QED BY <4>2, <4>3
        <3>4. CASE ~Shows(t, c)
            <4>1. page' = page BY <2>2, <3>4 DEF Answer
            <4>2. \A u \in Tabs : Form(u)' = Form(u) BY <4>1 DEF Form
            <4>3. FormOK(t)' BY <1>0, <1>1, <3>4, <4>2, AfterAnswered DEF Shows
            <4> QED BY <1>0, <4>1, <4>2, <4>3 DEF TypeOK
        <3> QED BY <3>3, <3>4
    <2>3. CASE c.kind \in {"create", "update"}
        <3>1. PICK p : p = AfterSubmission(t, c) OBVIOUS
        <3>2. page' = [page EXCEPT ![t] = p] BY <2>3, <3>1 DEF Answer
        <3>3. /\ p \in Page
              /\ \/ p.form = NoForm
                 \/ p.form = Form(t) /\ p.form.n # c.n
                 \/ p.form = AfterFailure(Form(t)) /\ Form(t).n = c.n
            BY <3>1, SubmittedParts
        <3>4. page' \in [Tabs -> Page] /\ Form(t)' = p.form /\ \A u \in Tabs \ {t} : Form(u)' = Form(u)
            BY <1>0, <3>2, <3>3, OnePage
        <3>5. FormOK(t)'
            <4>1. CASE p.form = NoForm BY <3>4, <4>1, Closed
            <4>2. CASE p.form = Form(t) /\ p.form.n # c.n
                BY <1>0, <1>1, <3>4, <4>2, AfterAnswered
            <4>3. CASE p.form = AfterFailure(Form(t)) /\ Form(t).n = c.n
                <5>1. PICK g : g = AfterFailure(Form(t)) OBVIOUS
                <5>2. /\ g \in AForm /\ g.n = Form(t).n /\ g.mode = Form(t).mode
                      /\ g.rid = Form(t).rid /\ ~g.busy /\ g.loading = Form(t).loading
                      /\ g.loaded = Form(t).loaded /\ g.data = Form(t).data
                    BY <1>0, <5>1, FailedParts
                <5> QED BY <1>1, <2>3, <3>4, <4>3, <5>1, <5>2, AfterAnswered
            <4> QED BY <3>3, <4>1, <4>2, <4>3
        <3> QED BY <3>4, <3>5
    <2> QED BY <1>0, <2>1, <2>2, <2>3
<1>4. drafts' \in Drafts
    BY <1>0, FewerDrafts DEF Answer, DeletedWith
<1>5. failures' \in [1..MaxForms -> Nat]
    <2>1. failures \in [1..MaxForms -> Nat] BY <1>0 DEF TypeOK
    <2>2. failures' = failures \/ failures' = [failures EXCEPT ![c.n] = failures[c.n] + 1]
        BY DEF Answer
    <2>3. c.n \in 1..MaxForms => failures[c.n] + 1 \in Nat BY <2>1
    <2> QED BY <2>1, <2>2, <2>3
<1>6. TypeOK' BY <1>0, <1>1, <1>3, <1>4, <1>5 DEF TypeOK, Answer
<1>7. \A u \in Tabs \ {t} : CallsStay(u) BY <1>1 DEF CallsStay
<1> QED BY <1>0, <1>1, <1>3, <1>6, <1>7, SameRequests, OneTab

-----------------------------------------------------------------------------
(* Every step *)

LEMMA FormNext == ASSUME FInv, [Next]_vars PROVE FInv'
<1>1. ASSUME NEW t \in Tabs, LoadPage(t) \/ Open(t) \/ Close(t) \/ SaveDraft(t) \/ Submit(t)
                             \/ AskForMoreTime(t)
      PROVE  FInv'
    BY <1>1, LoadPageKeeps, OpenKeeps, CloseKeeps, SaveDraftKeeps, SubmitKeeps, AskKeeps
<1>2. ASSUME NEW t \in Tabs, NEW d \in 1..MaxDrafts, RemoveDraft(t, d) PROVE FInv'
    BY <1>2, RemoveDraftKeeps
<1>3. ASSUME NEW t \in Tabs, NEW data \in Typed, Type(t, data) PROVE FInv' BY <1>3, TypeKeeps
<1>4. ASSUME NEW c \in calls, Serve(c) \/ Lose(c) \/ Answer(c) PROVE FInv'
    BY <1>4, ServeKeeps, LoseKeeps, AnswerKeeps
<1>5. ASSUME NEW r \in DOMAIN requests, NEW status \in Decisions, Decide(r, status) PROVE FInv'
    BY <1>5, DecideStays, SameKeeps DEF FInv
<1>6. CASE UNCHANGED vars
    <2>1. TypeOK' BY <1>6 DEF FInv, TypeOK, vars
    <2> QED BY <1>6, <2>1, SameRequests, SameKeeps DEF vars, FInv
<1> QED BY <1>1, <1>2, <1>3, <1>4, <1>5, <1>6 DEF Next

LEMMA FormInit == Init => FInv
<1> SUFFICES ASSUME Init PROVE FInv OBVIOUS
<1>1. [form |-> NoForm, listed |-> << >>] \in Page BY NoFormParts, NoDrafts DEF Page
<1>2. requests \in Seq(Row) /\ page \in [Tabs -> Page] /\ failures \in [1..MaxForms -> Nat]
    BY <1>1 DEF Init
<1>3. TypeOK BY <1>2, NoDrafts DEF Init, TypeOK
<1>4. \A t \in Tabs : Form(t) = NoForm BY DEF Init, Form
<1>5. \A t \in Tabs : FormOK(t) BY <1>4, NoFormParts DEF FormOK, Waiting
<1> QED BY <1>3, <1>5 DEF Init, FInv

LEMMA FormInvariant == Spec => []FInv
BY FormInit, FormNext, PTL DEF Spec

\* A form that is busy or loading has a call of its own under way: nothing locks it for good
\* (RequestFormModal.jsx, submit, askForMoreTime and the effect that loads the request).
THEOREM FormsWaitForTheirCalls == Spec => []WaitsForItsCall
<1>1. FInv => WaitsForItsCall BY DEF FInv, FormOK, Waiting, WaitsForItsCall, Shows
<1> QED BY <1>1, FormInvariant, PTL

\* A draft is deleted by the student, or after the request it became is stored
\* (StudentHomePage.jsx, handleDone and removeDraft; drafts.js).
THEOREM DraftsAreKept == Spec => DraftIsKeptUntilSubmitted
<1> DEFINE Kept == \A d \in DOMAIN drafts \ DOMAIN drafts' :
                       \/ \E t \in Tabs : RemoveDraft(t, d)
                       \/ \E r \in DOMAIN requests : requests[r].draft = d
<1>1. ASSUME FInv, Next PROVE Kept
    <2>1. ASSUME NEW t \in Tabs, SaveDraft(t) PROVE DOMAIN drafts \subseteq DOMAIN drafts'
        <3>1. PICK saved : saved = drafts' OBVIOUS
        <3>2. saved = [x \in DOMAIN drafts \cup {DraftId(Form(t))} |->
                          IF x = DraftId(Form(t)) THEN Form(t).data ELSE drafts[x]]
            BY <2>1, <3>1 DEF SaveDraft
        <3> QED BY <3>1, <3>2
    <2>2. ASSUME NEW t \in Tabs, NEW d \in 1..MaxDrafts, RemoveDraft(t, d) PROVE Kept
        <3>1. DOMAIN drafts' = DOMAIN drafts \ {d} BY <1>1, <2>2, FewerDrafts DEF RemoveDraft, FInv, TypeOK
        <3> QED BY <2>2, <3>1
    <2>3. ASSUME NEW c \in calls, Answer(c) PROVE Kept
        <3>1. CASE c.kind = "create" /\ c.answer = "ok"
            <4>1. DOMAIN drafts' = DOMAIN drafts \ {c.draft}
                BY <1>1, <2>3, <3>1, FewerDrafts DEF Answer, DeletedWith, FInv, TypeOK
            <4> QED BY <1>1, <3>1, <4>1 DEF FInv, CallOK
        <3>2. CASE ~(c.kind = "create" /\ c.answer = "ok")
            BY <2>3, <3>2 DEF Answer, DeletedWith
        <3> QED BY <3>1, <3>2
    <2>4. ASSUME drafts' = drafts PROVE Kept BY <2>4
    <2> QED BY <1>1, <2>1, <2>2, <2>3, <2>4
            DEF Next, LoadPage, Open, OpenNew, OpenRequest, Close, Submit, Waits, AskForMoreTime,
                Type, Serve, Lose, Decide
<1>2. FInv /\ [Next]_vars => [Kept]_vars BY <1>1
<1> QED BY <1>2, FormInvariant, PTL DEF Spec, DraftIsKeptUntilSubmitted

\* What a request says is changed only from a form that had loaded it
\* (RequestFormModal.jsx, fromRequest and the field of the type; request.service.js).
THEOREM EditsStartFromTheRequest == Spec => EditStartsFromTheRequest
<1> DEFINE Edits == \A r \in DOMAIN requests :
                        requests'[r].data # requests[r].data =>
                            \E c \in calls : c.kind = "update" /\ c.rid = r /\ c.loaded
<1>1. ASSUME FInv, Next PROVE Edits
    <2>1. ASSUME NEW c \in calls, Serve(c) PROVE Edits
        <3>1. requests' = requests \/ requests' = Effect(c) BY <2>1 DEF Serve
        <3>2. CallOK(c) BY <1>1 DEF FInv
        <3> QED BY <1>1, <2>1, <3>1, <3>2, EffectOf DEF CallOK
    <2>2. ASSUME NEW r \in DOMAIN requests, NEW status \in Decisions, Decide(r, status) PROVE Edits
        BY <1>1, <2>2, DecideStays DEF FInv
    <2>3. ASSUME requests' = requests PROVE Edits BY <2>3
    <2> QED BY <1>1, <2>1, <2>2, <2>3
            DEF Next, LoadPage, Open, OpenNew, OpenRequest, Close, SaveDraft, RemoveDraft, Submit,
                Waits, AskForMoreTime, Type, Lose, Answer
<1>2. FInv /\ [Next]_vars => [Edits]_vars BY <1>1
<1> QED BY <1>2, FormInvariant, PTL DEF Spec, EditStartsFromTheRequest
=============================================================================
