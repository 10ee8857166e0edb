--------------------------- MODULE RequestWorkflow ---------------------------
(***************************************************************************)
(* What the backend promises about a request, without its transactions:    *)
(* the status workflow of README.md, tied to the provisioning work the     *)
(* backend asks of the site.  Every step is atomic and acts on the present *)
(* state.  RequestStore implements it although its handlers act on         *)
(* snapshots that may be stale by the time they commit.                    *)
(***************************************************************************)
EXTENDS Integers, Sequences, FiniteSets

CONSTANTS
    Requests,   \* the request ids
    Automated   \* the requests acc-prov-vm sets up

VARIABLES
    status,     \* the status of each request
    asked,      \* the kinds of job the site was ever asked to do for it
    outcomes    \* the outcomes those jobs had, <<action, succeeded>>

wvars == <<status, asked, outcomes>>

WStatuses == {"None", "Pending", "Approved", "Rejected", "On_Use", "Completed"}
WActions == {"CREATE", "REVOKE", "EXTEND"}

WTypeOK ==
    /\ status \in [Requests -> WStatuses]
    /\ asked \in [Requests -> SUBSET WActions]
    /\ outcomes \in [Requests -> SUBSET (WActions \X BOOLEAN)]

WInit ==
    /\ status = [r \in Requests |-> "None"]
    /\ asked = [r \in Requests |-> {}]
    /\ outcomes = [r \in Requests |-> {}]

Move(r, from, to) ==
    /\ status[r] = from
    /\ status' = [status EXCEPT ![r] = to]

Ask(r, actions) == asked' = [asked EXCEPT ![r] = @ \cup actions]

Submit(r) == Move(r, "None", "Pending") /\ UNCHANGED <<asked, outcomes>>

Approve(r) ==
    /\ Move(r, "Pending", "Approved")
    /\ Ask(r, IF r \in Automated THEN {"CREATE"} ELSE {})
    /\ UNCHANGED outcomes

Reject(r) == Move(r, "Pending", "Rejected") /\ UNCHANGED <<asked, outcomes>>

\* By hand: for an automated request only as a way out of a failed setup.
Activate(r) ==
    /\ Move(r, "Approved", "On_Use")
    /\ r \in Automated => <<"CREATE", FALSE>> \in outcomes[r]
    /\ UNCHANGED <<asked, outcomes>>

\* Completing a request that was set up automatically asks for its removal.
Complete(r) ==
    /\ Move(r, "On_Use", "Completed")
    /\ Ask(r, IF r \in Automated THEN {"REVOKE"} ELSE {})
    /\ UNCHANGED outcomes

\* The scheduler's REVOKE of an ended request, or an extension's EXTEND.
AskMore(r, action) ==
    /\ r \in Automated
    /\ status[r] \in {"On_Use", "Completed"}
    /\ action \in {"REVOKE", "EXTEND"}
    /\ Ask(r, {action})
    /\ UNCHANGED <<status, outcomes>>

\* The site's answer: a setup that succeeded puts an Approved request in use,
\* a removal that succeeded completes a request in use, at once.
Answer(r, action, ok) ==
    /\ action \in asked[r]
    /\ outcomes' = [outcomes EXCEPT ![r] = @ \cup {<<action, ok>>}]
    /\ status' = [status EXCEPT ![r] =
          CASE ok /\ action = "CREATE" /\ @ = "Approved" -> "On_Use"
            [] ok /\ action = "REVOKE" /\ @ = "On_Use" -> "Completed"
            [] OTHER -> @]
    /\ UNCHANGED asked

WNext ==
    \E r \in Requests :
        \/ Submit(r) \/ Approve(r) \/ Reject(r) \/ Activate(r) \/ Complete(r)
        \/ \E action \in WActions : AskMore(r, action) \/ \E ok \in BOOLEAN : Answer(r, action, ok)

WSpec == WInit /\ [][WNext]_wvars

=============================================================================
