--------------------------- MODULE MCRequestStore ---------------------------
(* Instances of RequestStore for TLC. *)
EXTENDS RequestStore, TLC

CONSTANTS r1, r2, c1, c2, s1, s2, ada, nobody

OneRequest == {r1}
OneStudent == [r \in Requests |-> ada]
TwoClients == {c1, c2}
OneClient == {c1}
TwoTasks == {s1, s2}
OneTask == {s1}
None == {}

SetUpResults == {"PROVISIONED", "PROVISION_FAILED", "REVOKED", "REVOKE_FAILED"}
Grants == {"EXTENSION_REQUESTED", "EXTENSION_APPROVED"}

\* The life of a request and of its CREATE, EXTEND and REVOKE jobs.
LifecycleOps == Transitions \cup SetUpResults \cup Grants \cup {"EXTENDED", "EXTEND_FAILED", "RETRIED", "EDITED"}
\* A request in use that is extended, ends and is completed, under the scheduler.
EndDatesOps == {"APPROVED", "PROVISIONED", "COMPLETED", "EXPIRED"} \cup Grants
\* One CREATE and one REVOKE job, which no bound keeps from being answered.
LiveOps == {"APPROVED", "ACTIVATED"} \cup SetUpResults \cup Marks

ClientSymmetry == Permutations(Clients)
TaskSymmetry == ClientSymmetry \cup Permutations(Schedulers)
=============================================================================
