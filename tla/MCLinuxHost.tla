---------------------------- MODULE MCLinuxHost ----------------------------
(* LinuxHost for TLC: two clones, each with no account, with one locked     *)
(* after an earlier period, or with someone else's.                        *)
EXTENDS LinuxHost
CONSTANTS n1, n2
TwoHosts == <<n1, n2>>
Earlier == [NoAccount EXCEPT !.exists = TRUE, !.pw = 0, !.locked = TRUE, !.expired = TRUE]
SomeoneElses == [NoAccount EXCEPT !.exists = TRUE, !.pw = 0, !.theirs = FALSE]
SomeAccounts == {NoAccount, Earlier, SomeoneElses}
=============================================================================
