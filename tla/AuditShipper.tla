--------------------------- MODULE AuditShipper ---------------------------
(***************************************************************************)
(* Log shipping (audit-log.service.js): every backend task copies the      *)
(* events of request_event into the logs, in batches, from the cursor row  *)
(* log_cursor('audit') on.                                                 *)
(*                                                                         *)
(* An event takes its id when it is inserted and is seen when its          *)
(* transaction commits, so ids become visible out of order.  The shipper   *)
(* looks only at events created more than Lag ago by its own clock, which  *)
(* may be Skew off the database's.  An event's created_at is taken before  *)
(* its id, by the clock of the task that writes it, so the order of        *)
(* created_at need not be that of the ids.                                 *)
(***************************************************************************)
EXTENDS Integers, FiniteSets

CONSTANTS
    Tasks,        \* the backend tasks
    Lag,          \* lagSec
    Skew,         \* how far a task's clock may be off the database's
    Drift,        \* how far an event's created_at may be off the moment of its insert
    TxLife,       \* how long after its insert an event's transaction may commit
    Batch,        \* events per transaction
    MaxEvent,     \* bound: events
    LastInsert,   \* bound: the time of the last insert
    MaxTime,      \* bound: the clock
    MaxFailures,  \* bound: shipping transactions that fail
    NoTask

Events == 1..MaxEvent
Times  == 0..MaxTime

ASSUME ShipperAssumption ==
    /\ IsFiniteSet(Tasks) /\ NoTask \notin Tasks
    /\ Lag \in Nat /\ Skew \in Nat /\ Drift \in Nat /\ TxLife \in Nat /\ Batch \in Nat \ {0}
    /\ MaxEvent \in Nat /\ MaxTime \in Nat /\ LastInsert \in Nat /\ MaxFailures \in Nat

\* A transaction that inserts an event ends within Prisma's default timeout (5 s), and the
\* tasks' clocks are not as wrong as the rest of the lag (120 s).
ASSUME LagAssumption == TxLife + Skew + Drift <= Lag

VARIABLES
    event,     \* request_event: per id, whether it is there, its created_at (at) and its insert (since)
    clock,     \* the database's clock
    cursor,    \* log_cursor('audit').last_id
    lock,      \* the task whose transaction holds the cursor row
    task,      \* per task: where its run is, the cursor it read and the batch it found
    logged,    \* per event: how many lines it has in the logs
    failures   \* failed shipping transactions so far

vars == <<event, clock, cursor, lock, task, logged, failures>>

Row  == [state : {"none", "open", "committed", "rolledback"}, at : Times, since : Times]
Run  == [phase : {"idle", "locked", "read", "logged"}, batch : SUBSET Events]
Idle == [phase |-> "idle", batch |-> {}]

Init == /\ event = [e \in Events |-> [state |-> "none", at |-> 0, since |-> 0]]
        /\ clock = 0
        /\ cursor = 0
        /\ lock = NoTask
        /\ task = [t \in Tasks |-> Idle]
        /\ logged = [e \in Events |-> 0]
        /\ failures = 0

----------------------------------------------------------------------------
(* The transactions of the backend that insert events.                     *)

\* The next auto-increment id, with a created_at that was taken a little earlier.
Insert(e) ==
    /\ clock <= LastInsert
    /\ event[e].state = "none"
    /\ \A d \in Events : d < e => event[d].state # "none"
    /\ \E at \in {x \in Times : clock - Drift <= x /\ x <= clock + Drift} :
          event' = [event EXCEPT ![e] = [state |-> "open", at |-> at, since |-> clock]]
    /\ UNCHANGED <<clock, cursor, lock, task, logged, failures>>

End(e) ==
    /\ event[e].state = "open"
    /\ \E state \in {"committed", "rolledback"} : event' = [event EXCEPT ![e].state = state]
    /\ UNCHANGED <<clock, cursor, lock, task, logged, failures>>

\* Time passes, but no transaction outlives its timeout.
Tick ==
    /\ clock < MaxTime
    /\ \A e \in Events : event[e].state = "open" => clock < event[e].since + TxLife
    /\ clock' = clock + 1
    /\ UNCHANGED <<event, cursor, lock, task, logged, failures>>

----------------------------------------------------------------------------
(* One transaction of shipAuditEvents.                                     *)

\* Mutant: FOR UPDATE is forgotten.
Lock_Never(t) ==
    /\ task[t].phase = "idle"
    /\ lock' = t
    /\ task' = [task EXCEPT ![t].phase = "locked"]
    /\ UNCHANGED <<event, clock, cursor, logged, failures>>

\* SELECT last_id ... FOR UPDATE SKIP LOCKED: a task that finds the row locked goes away.
Lock(t) ==
    /\ task[t].phase = "idle"
    /\ lock = NoTask
    /\ lock' = t
    /\ task' = [task EXCEPT ![t].phase = "locked"]
    /\ UNCHANGED <<event, clock, cursor, logged, failures>>

\* Mutant: no lag.
OldEnough_Always(e, now) == TRUE

OldEnough(e, now) == event[e].at < now - Lag

Due(now) == {e \in Events : e > cursor /\ event[e].state = "committed" /\ OldEnough(e, now)}

\* The first Batch of the due events, in the order of their ids.
FirstOf(due) == {e \in due : Cardinality({d \in due : d <= e}) <= Batch}

\* findMany, with the task's own clock.  A transaction that is rolled back reads nothing.
Read(t) ==
    /\ task[t].phase = "locked"
    /\ lock = t
    /\ \E skew \in -Skew..Skew :
          task' = [task EXCEPT ![t] = [phase |-> "read", batch |-> FirstOf(Due(clock + skew))]]
    /\ UNCHANGED <<event, clock, cursor, lock, logged, failures>>

\* The loop that logs the batch does not yield.
LogBatch(t) ==
    /\ task[t].phase = "read"
    /\ logged' = [e \in Events |-> IF e \in task[t].batch THEN logged[e] + 1 ELSE logged[e]]
    /\ task' = [task EXCEPT ![t].phase = "logged"]
    /\ UNCHANGED <<event, clock, cursor, lock, failures>>

LastOf(batch) == {e \in batch : \A d \in batch : d <= e}

Release(t) == lock' = IF lock = t THEN NoTask ELSE lock

\* The cursor moves to the last event of the batch and the transaction commits.  After a full
\* batch the task goes on with the next, otherwise it waits for its interval: either way its
\* next step is to lock the cursor.
Save(t) ==
    /\ task[t].phase = "logged"
    /\ lock = t
    /\ IF task[t].batch = {} THEN cursor' = cursor ELSE cursor' \in LastOf(task[t].batch)
    /\ Release(t)
    /\ task' = [task EXCEPT ![t] = Idle]
    /\ UNCHANGED <<event, clock, logged, failures>>

\* The database rolls the transaction back under the task (its timeout, a lost connection):
\* the row is free, and the task finds out at its next statement.
RolledBack(t) ==
    /\ failures < MaxFailures
    /\ lock = t
    /\ lock' = NoTask
    /\ failures' = failures + 1
    /\ UNCHANGED <<event, clock, cursor, task, logged>>

\* Mutant: what a dead task locked stays locked.
GiveUp_KeepsLock(t) ==
    /\ task[t].phase # "idle"
    /\ lock # t \/ failures < MaxFailures
    /\ failures' = IF lock = t THEN failures + 1 ELSE failures
    /\ task' = [task EXCEPT ![t] = Idle]
    /\ UNCHANGED <<event, clock, cursor, lock, logged>>

\* A statement fails or the task dies: its transaction is rolled back.  A task that has lost
\* the row gives up sooner or later.
GiveUp(t) ==
    /\ task[t].phase # "idle"
    /\ lock # t \/ failures < MaxFailures
    /\ failures' = IF lock = t THEN failures + 1 ELSE failures
    /\ Release(t)
    /\ task' = [task EXCEPT ![t] = Idle]
    /\ UNCHANGED <<event, clock, cursor, logged>>

Ship(t) == Lock(t) \/ Read(t) \/ LogBatch(t) \/ Save(t)

Next == \/ \E e \in Events : Insert(e) \/ End(e)
        \/ Tick
        \/ \E t \in Tasks : Ship(t) \/ RolledBack(t) \/ GiveUp(t)

Spec == Init /\ [][Next]_vars

\* Time passes, transactions end, each task's interval comes round and its statements return.
Live == /\ Spec
        /\ WF_vars(Tick)
        /\ \A e \in Events : WF_vars(End(e))
        /\ \A t \in Tasks : WF_vars(Read(t) \/ LogBatch(t) \/ Save(t)) /\ SF_vars(Lock(t))
                            /\ WF_vars(lock # t /\ GiveUp(t))

----------------------------------------------------------------------------

\* Every variable has its type, and the cursor row is held by a task that is shipping.
TypeOK ==
    /\ event \in [Events -> Row]
    /\ clock \in Times
    /\ cursor \in 0..MaxEvent
    /\ lock \in {t \in Tasks : task[t].phase # "idle"} \union {NoTask}
    /\ task \in [Tasks -> Run]
    /\ logged \in [Events -> Nat]
    /\ failures \in 0..MaxFailures

\* No event with a greater id was created before e.
InOrder(e) == \A d \in Events : d > e /\ event[d].state # "none" => event[e].at <= event[d].at

\* No event is passed over: one that is committed, at or before the cursor, is in the logs,
\* however late it was committed and whichever task failed between logging and saving
\* (audit-log.service.js:6-9).  The lag secures this for an event only if none with a greater
\* id has a smaller created_at: then the filter can let the greater id pass alone.
NothingIsPassedOver ==
    \A e \in Events : event[e].state = "committed" /\ e <= cursor /\ InOrder(e) => logged[e] > 0

\* An event is logged again only if a shipping transaction failed ("only one backend task ships
\* at a time", audit-log.service.js:5-9): the copies of a line count the failures.
RepeatsAreFailures == \A e \in Events : logged[e] <= 1 + failures

\* Every event that is committed reaches the logs, unless one with a greater id was created
\* before it: the shipper's runs do not block each other for good, and a batch that failed is
\* taken up again (audit-log.service.js:16-39).
EveryEventIsShipped ==
    \A e \in Events : event[e].state = "committed" ~> logged[e] > 0 \/ ~InOrder(e)
============================================================================
