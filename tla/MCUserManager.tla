--------------------------- MODULE MCUserManager ---------------------------
(* UserManager for TLC: other users' rows may stand above and below the    *)
(* student's, which may be missing, disabled, or someone else's.          *)
EXTENDS UserManager, TLC
AllOps == {"create", "setPassword", "expire", "extend", "enable", "disable", "reset"}
Theirs(full, off) == [name |-> Student, full |-> full, disabled |-> off, expires |-> "before", pw |-> "old"]
Another(u) == [name |-> u, full |-> OtherName, disabled |-> FALSE, expires |-> "before", pw |-> "old"]
SomeLists ==
    {<<Another(u)>> : u \in Others} \cup
    {<<Another(u), Theirs(f, d)>> : u \in Others, f \in {FullName, OtherName}, d \in BOOLEAN} \cup
    {<<Theirs(FullName, TRUE), Another(u)>> : u \in Others} \cup
    {<<Another(u), Theirs(FullName, FALSE), Another(v)>> : <<u, v>> \in {x \in Others \X Others : x[1] # x[2]}}
Swaps == Permutations(Others)
=============================================================================
