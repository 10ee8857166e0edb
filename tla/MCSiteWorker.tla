--------------------------- MODULE MCSiteWorker ---------------------------
(* The jobs of one student, with every kind of job, a Linux host and HUE.  *)
EXTENDS SiteWorker

CONSTANTS create, revoke, extend, m1, m2, m3, m4, m5, malformed, gpu, hue, student1

Payload(action) == [action |-> action, valid |-> TRUE, student |-> student1, hosts |-> <<gpu, hue>>,
                    end |-> LastDay, revokeVpn |-> TRUE]

Old(open)        == [exists |-> TRUE, open |-> open, pw |-> NoPassword, mine |-> TRUE]
OldVpnOf(off, e) == [exists |-> TRUE, disabled |-> off, expires |-> e, pw |-> NoPassword, mine |-> TRUE]
Foreigner(a)     == [a EXCEPT !.mine = FALSE]

\* A set-up with a second copy of its message, the removal or an extension;
\* a job the worker refuses.
AllTasks == create :> Payload("CREATE") @@ revoke :> Payload("REVOKE") @@ extend :> Payload("EXTEND")
            @@ malformed :> [Payload("CREATE") EXCEPT !.valid = FALSE]
AllJobOf == m1 :> create @@ m2 :> create @@ m3 :> revoke @@ m4 :> extend @@ m5 :> malformed
AllLoads == {{m1, m2}, {m1, m3}, {m1, m4}, {m5}}

\* No account yet, a returning student's, or another person's.
SomeVpn     == {NoVpn, OldVpnOf(TRUE, Never), Foreigner(OldVpnOf(FALSE, 1))}
SomeAccount == {NoAccount, Old(FALSE), Foreigner(Old(TRUE))}
============================================================================
