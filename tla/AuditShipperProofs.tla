------------------------ MODULE AuditShipperProofs ------------------------
(* Theorems about AuditShipper, for any tasks, any number of events and any *)
(* lag that covers the transactions and the clocks.                         *)
EXTENDS AuditShipper, FiniteSetTheorems, TLAPS

Settled(e) == event[e].state \in {"committed", "rolledback"}

\* Ids are given in the order of the inserts.
IdsInOrder ==
    \A d, e \in Events : d < e /\ event[e].state # "none" =>
        event[d].state # "none" /\ event[d].since <= event[e].since

\* created_at is near the insert, and an open transaction is a young one.
Timely ==
    \A e \in Events :
        /\ event[e].state # "none" => event[e].since <= clock /\ event[e].since <= event[e].at + Drift
        /\ event[e].state = "open" => clock <= event[e].since + TxLife

\* What the cursor has passed is settled and logged.
PassedOK ==
    \A e \in Events : e <= cursor =>
        Settled(e) /\ (event[e].state = "committed" /\ InOrder(e) => logged[e] > 0)

\* What the cursor will pass with a task's batch is settled, and passed already or in the batch.
BatchOK ==
    \A t \in Tasks : lock = t /\ task[t].phase \in {"read", "logged"} =>
        \A e \in task[t].batch :
            /\ e > cursor
            /\ task[t].phase = "logged" => logged[e] > 0
            /\ \A d \in Events : d <= e =>
                  /\ Settled(d)
                  /\ event[d].state = "committed" /\ InOrder(d) => d <= cursor \/ d \in task[t].batch

\* The tasks that have lost the row and will log e all the same.
Late(e) == {t \in Tasks : lock # t /\ task[t].phase = "read" /\ e \in task[t].batch}

\* e is logged in a transaction that is done or that still holds the row.
Secured(e) == e <= cursor \/ \E t \in Tasks : lock = t /\ task[t].phase = "logged" /\ e \in task[t].batch

\* Each copy of e but one, and each copy still to come, has its failure.
CopiesOK == \A e \in Events : logged[e] + Cardinality(Late(e)) <= failures + IF Secured(e) THEN 1 ELSE 0

Inv == TypeOK /\ IdsInOrder /\ Timely /\ PassedOK /\ BatchOK

IInv == Inv /\ CopiesOK

----------------------------------------------------------------------------
(* The batch and the rows *)

\* A batch has the due events with the smallest ids.
LEMMA BatchIsFirst ==
    ASSUME NEW due \in SUBSET Events, NEW e \in FirstOf(due), NEW d \in due, d < e
    PROVE  d \in FirstOf(due)
  <1>1. e \in due /\ due \subseteq Int /\ Batch \in Nat /\ MaxEvent \in Nat
    BY ShipperAssumption DEF FirstOf, Events
  <1> DEFINE upTo(x) == {y \in due : y <= x}
  <1>2. IsFiniteSet(Events)
    BY <1>1, FS_Interval DEF Events
  <1>3. IsFiniteSet(upTo(e)) /\ upTo(d) \subseteq upTo(e)
    <2>1. upTo(e) \in SUBSET Events
      OBVIOUS
    <2>2. \A x \in upTo(d) : x \in upTo(e)
      BY <1>1
    <2> QED
      BY <1>2, <2>1, <2>2, FS_Subset
  <1>4. Cardinality(upTo(d)) <= Cardinality(upTo(e)) /\ IsFiniteSet(upTo(d))
    BY <1>3, FS_Subset
  <1>5. Cardinality(upTo(d)) \in Nat /\ Cardinality(upTo(e)) \in Nat
    BY <1>3, <1>4, FS_CardinalityType
  <1>6. Cardinality(upTo(e)) <= Batch
    BY DEF FirstOf
  <1>7. Cardinality(upTo(d)) <= Batch
    BY <1>1, <1>4, <1>5, <1>6
  <1> QED
    BY <1>7 DEF FirstOf

\* An event that is old enough for the shipper is settled, and so is every one before it.
LEMMA OldIsSettled ==
    ASSUME TypeOK, IdsInOrder, Timely,
           NEW e \in Events, event[e].state = "committed",
           NEW now \in Int, now <= clock + Skew, OldEnough(e, now),
           NEW d \in Events, d <= e
    PROVE  Settled(d)
  <1>1. event[d] \in Row /\ event[e] \in Row /\ clock \in Int
    BY DEF TypeOK, Times
  <1>2. event[d].since \in Int /\ event[d].state \in {"none", "open", "committed", "rolledback"}
    BY <1>1 DEF Row, Times
  <1>3. event[e].since \in Int /\ event[e].at \in Int
    BY <1>1 DEF Row, Times
  <1>4. Lag \in Nat /\ Skew \in Nat /\ Drift \in Nat /\ TxLife \in Nat /\ TxLife + Skew + Drift <= Lag
    BY ShipperAssumption, LagAssumption
  <1>5. event[d].state # "none" /\ event[d].since <= event[e].since
    BY <1>3 DEF IdsInOrder, Events
  <1>6. event[e].since <= event[e].at + Drift
    BY DEF Timely
  <1>7. event[e].at < now - Lag
    BY DEF OldEnough
  <1>8. event[d].since + TxLife < clock
    BY <1>1, <1>2, <1>3, <1>4, <1>5, <1>6, <1>7
  <1>9. event[d].state # "open"
    BY <1>1, <1>2, <1>4, <1>8 DEF Timely
  <1> QED
    BY <1>2, <1>5, <1>9 DEF Settled

\* Among the events in order, one that comes before an old one is old.
LEMMA OldIsPrefix ==
    ASSUME TypeOK, NEW e \in Events, event[e].state = "committed",
           NEW now \in Int, OldEnough(e, now),
           NEW d \in Events, d <= e, InOrder(d)
    PROVE  OldEnough(d, now)
  <1>1. event[d].at \in Int /\ event[e].at \in Int
    BY DEF TypeOK, Row, Times
  <1>2. event[d].at <= event[e].at
    BY <1>1 DEF InOrder, Events
  <1> QED
    BY <1>1, <1>2, ShipperAssumption DEF OldEnough

----------------------------------------------------------------------------
(* The invariant of the cursor, action by action *)

LEMMA InsertInv == ASSUME Inv, NEW e0 \in Events, Insert(e0) PROVE Inv'
  <1> USE DEF Inv
  <1>1. PICK at \in Times : /\ clock - Drift <= at /\ at <= clock + Drift
                            /\ event' = [event EXCEPT ![e0] = [state |-> "open", at |-> at, since |-> clock]]
    BY DEF Insert
  <1>2. event \in [Events -> Row] /\ clock \in Times /\ Times \subseteq Int /\ Events \subseteq Int
        /\ Drift \in Nat /\ TxLife \in Nat
    BY ShipperAssumption DEF TypeOK, Times, Events
  <1>3. event'[e0] = [state |-> "open", at |-> at, since |-> clock]
        /\ \A d \in Events : d # e0 => event'[d] = event[d]
    BY <1>1, <1>2
  <1>4. TypeOK'
    <2>1. event'[e0] \in Row
      BY <1>2, <1>3 DEF Row
    <2>2. event' \in [Events -> Row]
      BY <1>1, <1>2, <2>1, <1>3
    <2> QED
      BY <2>2 DEF TypeOK, Insert
  <1>5. IdsInOrder'
    <2> SUFFICES ASSUME NEW d \in Events, NEW e \in Events, d < e, event'[e].state # "none"
                 PROVE  event'[d].state # "none" /\ event'[d].since <= event'[e].since
      BY DEF IdsInOrder
    <2>1. CASE e = e0
      <3>1. event'[d] = event[d] /\ event[d].state # "none" /\ event[d] \in Row
        BY <1>2, <1>3, <2>1 DEF Insert
      <3>2. event[d].since <= clock
        BY <1>2, <3>1 DEF Timely
      <3> QED
        BY <1>3, <2>1, <3>1, <3>2
    <2>2. CASE e # e0
      <3>1. event[d].state # "none" /\ event[d].since <= event[e].since
        BY <1>3, <2>2 DEF IdsInOrder
      <3>2. d # e0
        BY <3>1 DEF Insert
      <3> QED
        BY <1>3, <2>2, <3>1, <3>2
    <2> QED
      BY <2>1, <2>2
  <1>6. Timely'
    <2> SUFFICES ASSUME NEW e \in Events
                 PROVE  /\ event'[e].state # "none" =>
                              event'[e].since <= clock' /\ event'[e].since <= event'[e].at + Drift
                        /\ event'[e].state = "open" => clock' <= event'[e].since + TxLife
      BY DEF Timely
    <2>1. clock' = clock
      BY DEF Insert
    <2>2. CASE e = e0
      BY <1>1, <1>2, <1>3, <2>1, <2>2
    <2>3. CASE e # e0
      BY <1>3, <2>1, <2>3 DEF Timely
    <2> QED
      BY <2>2, <2>3
  <1>7. \A d \in Events : Settled(d) => Settled(d)' /\ event'[d] = event[d] /\ (InOrder(d)' => InOrder(d))
    <2> SUFFICES ASSUME NEW d \in Events, Settled(d)
                 PROVE  Settled(d)' /\ event'[d] = event[d] /\ (InOrder(d)' => InOrder(d))
      OBVIOUS
    <2>1. d # e0 /\ event'[d] = event[d]
      BY <1>3 DEF Settled, Insert
    <2>2. \A e \in Events : event[e].state # "none" => event'[e] = event[e]
      BY <1>3 DEF Insert
    <2> QED
      BY <2>1, <2>2 DEF Settled, InOrder
  <1>8. UNCHANGED <<clock, cursor, lock, task, logged>>
    BY DEF Insert
  <1>9. PassedOK'
    BY <1>7, <1>8 DEF PassedOK
  <1>10. BatchOK'
    BY <1>7, <1>8 DEF BatchOK
  <1> QED
    BY <1>4, <1>5, <1>6, <1>9, <1>10

\* A step that leaves the rows, the clock and the cursor alone.
LEMMA ShipperStepInv ==
    ASSUME Inv, UNCHANGED <<event, clock>>
    PROVE  IdsInOrder' /\ Timely' /\ \A d \in Events : (Settled(d)' <=> Settled(d)) /\ (InOrder(d)' <=> InOrder(d))
  BY DEF Inv, IdsInOrder, Timely, Settled, InOrder

LEMMA EndInv == ASSUME Inv, NEW e0 \in Events, End(e0) PROVE Inv'
  <1> USE DEF Inv
  <1>1. PICK state \in {"committed", "rolledback"} : event' = [event EXCEPT ![e0].state = state]
    BY DEF End
  <1>2. event \in [Events -> Row] /\ event[e0].state = "open"
    BY DEF TypeOK, End
  <1>3. event'[e0] = [event[e0] EXCEPT !.state = state] /\ \A d \in Events : d # e0 => event'[d] = event[d]
    BY <1>1, <1>2
  <1>4. event[e0] \in Row
    BY <1>2
  <1>5. event'[e0] \in Row /\ event'[e0].state = state /\ event'[e0].at = event[e0].at
        /\ event'[e0].since = event[e0].since
    BY <1>3, <1>4 DEF Row
  <1>6. UNCHANGED <<clock, cursor, lock, task, logged, failures>>
    BY DEF End
  <1>7. TypeOK'
    <2>1. event' \in [Events -> Row]
      BY <1>1, <1>2, <1>3, <1>5
    <2> QED
      BY <1>6, <2>1 DEF TypeOK
  <1>8. \A d \in Events : /\ event'[d].at = event[d].at /\ event'[d].since = event[d].since
                          /\ (event'[d].state = "none" <=> event[d].state = "none")
                          /\ event'[d].state = "open" => event[d].state = "open"
    <2> SUFFICES ASSUME NEW d \in Events
                 PROVE  /\ event'[d].at = event[d].at /\ event'[d].since = event[d].since
                        /\ (event'[d].state = "none" <=> event[d].state = "none")
                        /\ event'[d].state = "open" => event[d].state = "open"
      OBVIOUS
    <2>1. CASE d = e0
      BY <1>2, <1>5, <2>1
    <2>2. CASE d # e0
      BY <1>3, <2>2
    <2> QED
      BY <2>1, <2>2
  <1>9. IdsInOrder' /\ Timely'
    BY <1>6, <1>8 DEF IdsInOrder, Timely
  <1>10. \A d \in Events : /\ Settled(d) => d # e0 /\ Settled(d)' /\ event'[d] = event[d]
                           /\ InOrder(d)' => InOrder(d)
    BY <1>2, <1>3, <1>8 DEF Settled, InOrder
  <1>11. PassedOK'
    BY <1>6, <1>10 DEF PassedOK
  <1>12. BatchOK'
    BY <1>6, <1>10 DEF BatchOK
  <1> QED
    BY <1>7, <1>9, <1>11, <1>12

LEMMA TickInv == ASSUME Inv, Tick PROVE Inv'
  <1> USE DEF Inv
  <1>1. UNCHANGED <<event, cursor, lock, task, logged, failures>> /\ clock' = clock + 1
    BY DEF Tick
  <1>2. clock \in 0..MaxTime /\ MaxTime \in Nat /\ clock < MaxTime /\ TxLife \in Nat
        /\ \A e \in Events : event[e] \in Row
    BY ShipperAssumption DEF TypeOK, Times, Tick
  <1>3. TypeOK'
    BY <1>1, <1>2 DEF TypeOK, Times
  <1>4. IdsInOrder' /\ PassedOK' /\ BatchOK'
    BY <1>1 DEF IdsInOrder, PassedOK, BatchOK, Settled, InOrder
  <1>5. Timely'
    <2> SUFFICES ASSUME NEW e \in Events
                 PROVE  /\ event[e].state # "none" =>
                              event[e].since <= clock + 1 /\ event[e].since <= event[e].at + Drift
                        /\ event[e].state = "open" => clock + 1 <= event[e].since + TxLife
      BY <1>1 DEF Timely
    <2>1. event[e].since \in Int
      BY <1>2 DEF Row, Times
    <2>2. event[e].state = "open" => clock < event[e].since + TxLife
      BY DEF Tick
    <2> QED
      BY <1>2, <2>1, <2>2 DEF Timely
  <1> QED
    BY <1>3, <1>4, <1>5

LEMMA LockInv == ASSUME Inv, NEW t \in Tasks, Lock(t) PROVE Inv'
  <1> USE DEF Inv
  <1>1. UNCHANGED <<event, clock, cursor, logged, failures>> /\ lock = NoTask /\ lock' = t
        /\ task[t].phase = "idle" /\ task' = [task EXCEPT ![t].phase = "locked"]
    BY DEF Lock
  <1>2. task \in [Tasks -> Run]
    BY DEF TypeOK
  <1>3. task'[t].phase = "locked" /\ task' \in [Tasks -> Run] /\ \A u \in Tasks : u # t => task'[u] = task[u]
    BY <1>1, <1>2 DEF Run
  <1>4. TypeOK'
    BY <1>1, <1>3 DEF TypeOK
  <1>5. IdsInOrder' /\ Timely' /\ PassedOK'
    BY <1>1, ShipperStepInv DEF PassedOK
  <1>6. BatchOK'
    BY <1>1, <1>3 DEF BatchOK
  <1> QED
    BY <1>4, <1>5, <1>6

LEMMA ReadInv == ASSUME Inv, NEW t \in Tasks, Read(t) PROVE Inv'
  <1> USE DEF Inv
  <1>1. PICK skew \in -Skew..Skew :
          task' = [task EXCEPT ![t] = [phase |-> "read", batch |-> FirstOf(Due(clock + skew))]]
    BY DEF Read
  <1> DEFINE now == clock + skew
             batch == FirstOf(Due(now))
  <1>2. UNCHANGED <<event, clock, cursor, lock, logged, failures>> /\ lock = t /\ task[t].phase = "locked"
    BY DEF Read
  <1>3. now \in Int /\ now <= clock + Skew
    BY ShipperAssumption DEF TypeOK, Times
  <1>4. Due(now) \in SUBSET Events /\ batch \subseteq Due(now)
    BY DEF Due, FirstOf
  <1>5. task \in [Tasks -> Run]
    BY DEF TypeOK
  <1>6. /\ task'[t] = [phase |-> "read", batch |-> batch]
        /\ task' \in [Tasks -> Run]
        /\ \A u \in Tasks : u # t => task'[u] = task[u]
    BY <1>1, <1>4, <1>5 DEF Run
  <1>7. TypeOK'
    BY <1>2, <1>6 DEF TypeOK
  <1>8. IdsInOrder' /\ Timely' /\ PassedOK'
    BY <1>2, ShipperStepInv DEF PassedOK
  <1>9. \A e \in batch : e > cursor /\ \A d \in Events : d <= e =>
          Settled(d) /\ (event[d].state = "committed" /\ InOrder(d) => d <= cursor \/ d \in batch)
    <2> SUFFICES ASSUME NEW e \in batch, NEW d \in Events, d <= e
                 PROVE  e > cursor /\ Settled(d)
                        /\ (event[d].state = "committed" /\ InOrder(d) => d <= cursor \/ d \in batch)
      <3>1. \A e \in batch : e \in Events /\ e <= e
        BY <1>4 DEF Events
      <3> QED
        BY <3>1
    <2>1. e \in Events /\ e > cursor /\ event[e].state = "committed" /\ OldEnough(e, now)
      BY <1>4 DEF Due
    <2>2. Settled(d)
      BY <1>3, <2>1, OldIsSettled
    <2>3. ASSUME event[d].state = "committed", InOrder(d), ~(d <= cursor)
          PROVE  d \in batch
      <3>1. OldEnough(d, now)
        BY <1>3, <2>1, <2>3, OldIsPrefix
      <3>2. d > cursor
        BY <2>3 DEF TypeOK, Events
      <3>3. d \in Due(now)
        BY <2>3, <3>1, <3>2 DEF Due
      <3>4. d = e \/ d < e
        BY <2>1 DEF Events
      <3> QED
        BY <1>4, <3>3, <3>4, BatchIsFirst
    <2> QED
      BY <2>1, <2>2, <2>3
  <1>10. BatchOK'
    <2> SUFFICES ASSUME NEW u \in Tasks, lock' = u, NEW e \in task'[u].batch
                 PROVE  /\ e > cursor'
                        /\ task'[u].phase = "logged" => logged'[e] > 0
                        /\ \A d \in Events : d <= e =>
                              /\ Settled(d)'
                              /\ event'[d].state = "committed" /\ InOrder(d)' =>
                                    d <= cursor' \/ d \in task'[u].batch
      BY DEF BatchOK
    <2>1. u = t /\ task'[u].phase = "read" /\ task'[u].batch = batch
      BY <1>2, <1>6
    <2> HIDE DEF batch
    <2> QED
      BY <1>2, <1>9, <2>1, ShipperStepInv
  <1> QED
    BY <1>7, <1>8, <1>10

LEMMA LogBatchInv == ASSUME Inv, NEW t \in Tasks, LogBatch(t) PROVE Inv'
  <1> USE DEF Inv
  <1>1. UNCHANGED <<event, clock, cursor, lock, failures>> /\ task[t].phase = "read"
        /\ logged' = [e \in Events |-> IF e \in task[t].batch THEN logged[e] + 1 ELSE logged[e]]
        /\ task' = [task EXCEPT ![t].phase = "logged"]
    BY DEF LogBatch
  <1>2. task \in [Tasks -> Run] /\ logged \in [Events -> Nat]
    BY DEF TypeOK
  <1>3. /\ task'[t].phase = "logged" /\ task'[t].batch = task[t].batch /\ task[t].batch \subseteq Events
        /\ task' \in [Tasks -> Run]
        /\ \A u \in Tasks : u # t => task'[u] = task[u]
    BY <1>1, <1>2 DEF Run
  <1>4. /\ logged' \in [Events -> Nat]
        /\ \A e \in Events : logged[e] > 0 => logged'[e] > 0
        /\ \A e \in task[t].batch : logged'[e] > 0
    BY <1>1, <1>2, <1>3
  <1>5. TypeOK'
    BY <1>1, <1>3, <1>4 DEF TypeOK
  <1>6. IdsInOrder' /\ Timely' /\ PassedOK'
    BY <1>1, <1>4, ShipperStepInv DEF PassedOK
  <1>7. BatchOK'
    <2> SUFFICES ASSUME NEW u \in Tasks, lock' = u, task'[u].phase \in {"read", "logged"},
                        NEW e \in task'[u].batch
                 PROVE  /\ e > cursor'
                        /\ task'[u].phase = "logged" => logged'[e] > 0
                        /\ \A d \in Events : d <= e =>
                              /\ Settled(d)'
                              /\ event'[d].state = "committed" /\ InOrder(d)' =>
                                    d <= cursor' \/ d \in task'[u].batch
      BY DEF BatchOK
    <2>1. lock = u /\ task[u].phase \in {"read", "logged"} /\ task'[u].batch = task[u].batch
      BY <1>1, <1>3
    <2>2. e \in Events
      BY <1>2, <2>1 DEF Run
    <2>3. task'[u].phase = "logged" => logged'[e] > 0
      <3>1. CASE u = t
        BY <1>4, <2>1, <3>1
      <3>2. CASE u # t
        BY <1>3, <1>4, <2>1, <2>2, <3>2 DEF BatchOK
      <3> QED
        BY <3>1, <3>2
    <2> QED
      BY <1>1, <2>1, <2>3, ShipperStepInv DEF BatchOK
  <1> QED
    BY <1>5, <1>6, <1>7

LEMMA SaveInv == ASSUME Inv, NEW t \in Tasks, Save(t) PROVE Inv'
  <1> USE DEF Inv
  <1>1. UNCHANGED <<event, clock, logged, failures>> /\ task[t].phase = "logged" /\ lock = t /\ lock' = NoTask
        /\ task' = [task EXCEPT ![t] = Idle]
    BY DEF Save, Release
  <1>2. task \in [Tasks -> Run] /\ cursor \in 0..MaxEvent /\ MaxEvent \in Nat /\ NoTask \notin Tasks
    BY ShipperAssumption DEF TypeOK
  <1>3. task[t].batch \subseteq Events /\ task' \in [Tasks -> Run]
    BY <1>1, <1>2 DEF Run, Idle
  <1>4. cursor' \in 0..MaxEvent
    BY <1>2, <1>3 DEF Save, LastOf, Events
  <1>5. TypeOK'
    BY <1>1, <1>2, <1>3, <1>4 DEF TypeOK
  <1>6. PassedOK'
    <2> SUFFICES ASSUME NEW d \in Events, d <= cursor'
                 PROVE  Settled(d) /\ (event[d].state = "committed" /\ InOrder(d) => logged[d] > 0)
      BY <1>1, ShipperStepInv DEF PassedOK
    <2>1. CASE d <= cursor
      BY <2>1 DEF PassedOK
    <2>2. CASE ~(d <= cursor)
      <3>1. cursor' \in task[t].batch
        BY <2>2 DEF Save, LastOf
      <3>2. Settled(d) /\ (event[d].state = "committed" /\ InOrder(d) => d \in task[t].batch)
        BY <1>1, <2>2, <3>1 DEF BatchOK
      <3> QED
        BY <1>1, <3>2 DEF BatchOK
    <2> QED
      BY <2>1, <2>2
  <1>7. BatchOK'
    BY <1>1, <1>2 DEF BatchOK
  <1> QED
    BY <1>1, <1>5, <1>6, <1>7, ShipperStepInv

LEMMA LosesRowInv == ASSUME Inv, NEW t \in Tasks, RolledBack(t) \/ GiveUp(t) PROVE Inv'
  <1> USE DEF Inv
  <1>1. UNCHANGED <<event, clock, cursor, logged>> /\ lock' = (IF lock = t THEN NoTask ELSE lock)
    BY DEF RolledBack, GiveUp, Release
  <1>2. failures' \in 0..MaxFailures
    BY ShipperAssumption DEF TypeOK, RolledBack, GiveUp
  <1>3. task' = task \/ task' = [task EXCEPT ![t] = Idle]
    BY DEF RolledBack, GiveUp
  <1>4. task \in [Tasks -> Run] /\ Idle \in Run /\ NoTask \notin Tasks
    BY ShipperAssumption DEF TypeOK, Run, Idle
  <1>5. task' \in [Tasks -> Run] /\ \A u \in Tasks : u # t => task'[u] = task[u]
    BY <1>3, <1>4
  <1>6. TypeOK'
    BY <1>1, <1>2, <1>4, <1>5 DEF TypeOK
  <1>7. PassedOK'
    BY <1>1, ShipperStepInv DEF PassedOK
  <1>8. BatchOK'
    <2>1. \A u \in Tasks : lock' = u => lock = u /\ task'[u] = task[u]
      BY <1>1, <1>4, <1>5
    <2> QED
      BY <1>1, <2>1, ShipperStepInv DEF BatchOK
  <1> QED
    BY <1>1, <1>6, <1>7, <1>8, ShipperStepInv

LEMMA InitInv == Init => Inv
  <1> SUFFICES ASSUME Init PROVE Inv
    OBVIOUS
  <1> USE ShipperAssumption
  <1>1. TypeOK
    BY DEF Init, TypeOK, Row, Run, Idle, Times, Events
  <1>2. IdsInOrder /\ Timely
    BY DEF Init, IdsInOrder, Timely
  <1>3. PassedOK /\ BatchOK
    BY DEF Init, PassedOK, BatchOK, Events
  <1> QED
    BY <1>1, <1>2, <1>3 DEF Inv

LEMMA NextInv == ASSUME Inv, [Next]_vars PROVE Inv'
  <1>1. CASE UNCHANGED vars
    BY <1>1 DEF vars, Inv, TypeOK, IdsInOrder, Timely, PassedOK, BatchOK, Settled, InOrder
  <1>2. ASSUME NEW e \in Events, Insert(e) \/ End(e) PROVE Inv'
    BY <1>2, InsertInv, EndInv
  <1>3. CASE Tick
    BY <1>3, TickInv
  <1>4. ASSUME NEW t \in Tasks, Ship(t) PROVE Inv'
    BY <1>4, LockInv, ReadInv, LogBatchInv, SaveInv DEF Ship
  <1>5. ASSUME NEW t \in Tasks, RolledBack(t) \/ GiveUp(t) PROVE Inv'
    BY <1>5, LosesRowInv
  <1> QED
    BY <1>1, <1>2, <1>3, <1>4, <1>5 DEF Next

\* Types, the order of the ids, and what the cursor has passed or will pass next.
THEOREM CursorInvariant == Spec => []Inv
  BY InitInv, NextInv, PTL DEF Spec

\* For any number of tasks and events, any lag that covers the transactions and the clocks, and
\* any failures: the cursor passes no committed event that is not in the logs, unless an event
\* with a greater id was created before it.
THEOREM NothingPassedOver == Spec => []NothingIsPassedOver
  <1>1. Inv => NothingIsPassedOver
    BY DEF Inv, PassedOK, NothingIsPassedOver
  <1> QED
    BY <1>1, CursorInvariant, PTL

----------------------------------------------------------------------------
(* The copies of a line *)

LEMMA LateIsFinite ==
    ASSUME NEW e
    PROVE  IsFiniteSet(Late(e)) /\ Cardinality(Late(e)) \in Nat
  <1>1. IsFiniteSet(Tasks) /\ Late(e) \in SUBSET Tasks
    BY ShipperAssumption DEF Late
  <1> QED
    BY <1>1, FS_Subset, FS_CardinalityType

\* A step that logs nothing keeps the count if the same tasks are late and nothing is less secured.
LEMMA CopiesKept ==
    ASSUME Inv, CopiesOK, UNCHANGED logged, failures' \in Nat,
           failures' = failures, \A e \in Events : Late(e)' = Late(e) /\ (Secured(e) => Secured(e)')
    PROVE  CopiesOK'
  <1> SUFFICES ASSUME NEW e \in Events
               PROVE  logged'[e] + Cardinality(Late(e)') <= failures' + IF Secured(e)' THEN 1 ELSE 0
    BY DEF CopiesOK
  <1>1. logged[e] \in Nat /\ failures \in Int /\ Cardinality(Late(e)) \in Nat
    BY LateIsFinite, ShipperAssumption DEF Inv, TypeOK
  <1>2. logged[e] + Cardinality(Late(e)) <= failures + IF Secured(e) THEN 1 ELSE 0
    BY DEF CopiesOK
  <1>3. (IF Secured(e) THEN 1 ELSE 0) <= (IF Secured(e)' THEN 1 ELSE 0)
    OBVIOUS
  <1> QED
    BY <1>1, <1>2, <1>3

LEMMA QuietCopies ==
    ASSUME Inv, CopiesOK,
           \/ UNCHANGED <<cursor, lock, task, logged, failures>>
           \/ \E t \in Tasks : Lock(t) \/ Read(t) \/ Save(t)
    PROVE  CopiesOK'
  <1> USE DEF Inv
  <1>1. UNCHANGED logged /\ failures' = failures /\ failures' \in Nat
    BY ShipperAssumption DEF TypeOK, Lock, Read, Save
  <1>2. task \in [Tasks -> Run] /\ NoTask \notin Tasks
    BY ShipperAssumption DEF TypeOK
  <1> SUFFICES ASSUME NEW e \in Events
               PROVE  Late(e)' = Late(e) /\ (Secured(e) => Secured(e)')
    BY <1>1, CopiesKept
  <1>3. CASE UNCHANGED <<cursor, lock, task, logged, failures>>
    BY <1>3 DEF Late, Secured
  <1>4. ASSUME NEW t \in Tasks, Lock(t) PROVE Late(e)' = Late(e) /\ (Secured(e) => Secured(e)')
    <2>1. lock = NoTask /\ lock' = t /\ task[t].phase = "idle" /\ cursor' = cursor
          /\ task' = [task EXCEPT ![t].phase = "locked"]
      BY <1>4 DEF Lock
    <2>2. task'[t].phase = "locked" /\ \A u \in Tasks : u # t => task'[u] = task[u]
      BY <1>2, <2>1 DEF Run
    <2> QED
      BY <1>2, <2>1, <2>2 DEF Late, Secured
  <1>5. ASSUME NEW t \in Tasks, Read(t) PROVE Late(e)' = Late(e) /\ (Secured(e) => Secured(e)')
    <2>1. lock = t /\ lock' = t /\ task[t].phase = "locked" /\ cursor' = cursor
          /\ \A u \in Tasks : u # t => task'[u] = task[u]
      BY <1>2, <1>5 DEF Read
    <2> QED
      BY <2>1 DEF Late, Secured
  <1>6. ASSUME NEW t \in Tasks, Save(t) PROVE Late(e)' = Late(e) /\ (Secured(e) => Secured(e)')
    <2>1. lock = t /\ lock' = NoTask /\ task[t].phase = "logged" /\ task' = [task EXCEPT ![t] = Idle]
      BY <1>6 DEF Save, Release
    <2>2. task'[t] = Idle /\ \A u \in Tasks : u # t => task'[u] = task[u]
      BY <1>2, <2>1
    <2>3. Late(e)' = Late(e)
      BY <1>2, <2>1, <2>2 DEF Late, Idle
    <2>4. e \in task[t].batch => e <= cursor'
      BY <1>6 DEF Save, LastOf
    <2>5. e <= cursor => e <= cursor'
      <3>1. CASE task[t].batch = {}
        BY <1>6, <3>1 DEF Save
      <3>2. CASE task[t].batch # {}
        <4>1. cursor' \in task[t].batch
          BY <1>6, <3>2 DEF Save, LastOf
        <4>2. cursor' \in Events /\ cursor' > cursor
          BY <1>2, <2>1, <4>1 DEF BatchOK, Run
        <4> QED
          BY <4>2 DEF Events, TypeOK
      <3> QED
        BY <3>1, <3>2
    <2> QED
      BY <2>1, <2>3, <2>4, <2>5 DEF Secured
  <1> QED
    BY <1>3, <1>4, <1>5, <1>6

LEMMA LogBatchCopies == ASSUME Inv, CopiesOK, NEW t \in Tasks, LogBatch(t) PROVE CopiesOK'
  <1> USE DEF Inv
  <1>1. UNCHANGED <<cursor, lock, failures>> /\ task[t].phase = "read"
        /\ logged' = [e \in Events |-> IF e \in task[t].batch THEN logged[e] + 1 ELSE logged[e]]
        /\ task' = [task EXCEPT ![t].phase = "logged"]
    BY DEF LogBatch
  <1>2. task \in [Tasks -> Run]
    BY DEF TypeOK
  <1>3. /\ task'[t].phase = "logged" /\ task'[t].batch = task[t].batch
        /\ \A u \in Tasks : u # t => task'[u] = task[u]
    BY <1>1, <1>2 DEF Run
  <1> SUFFICES ASSUME NEW e \in Events
               PROVE  logged'[e] + Cardinality(Late(e)') <= failures' + IF Secured(e)' THEN 1 ELSE 0
    BY DEF CopiesOK
  <1>4. logged[e] \in Nat /\ failures \in Int /\ IsFiniteSet(Late(e)) /\ Cardinality(Late(e)) \in Nat
    BY LateIsFinite, ShipperAssumption DEF TypeOK
  <1>5. logged[e] + Cardinality(Late(e)) <= failures + IF Secured(e) THEN 1 ELSE 0
    BY DEF CopiesOK
  <1>6. Secured(e) => Secured(e)'
    BY <1>1, <1>3 DEF Secured
  <1>7. CASE e \notin task[t].batch
    <2>1. Late(e)' = Late(e) /\ logged'[e] = logged[e]
      BY <1>1, <1>3, <1>7 DEF Late
    <2> QED
      BY <1>1, <1>4, <1>5, <1>6, <2>1
  <1>8. CASE e \in task[t].batch /\ lock = t
    <2>1. Late(e)' = Late(e) /\ logged'[e] = logged[e] + 1
      BY <1>1, <1>3, <1>8 DEF Late
    <2>2. ~Secured(e)
      BY <1>1, <1>8 DEF Secured, BatchOK, Events, TypeOK
    <2>3. Secured(e)'
      BY <1>1, <1>3, <1>8 DEF Secured
    <2> QED
      BY <1>1, <1>4, <1>5, <2>1, <2>2, <2>3
  <1>9. CASE e \in task[t].batch /\ lock # t
    <2>1. Late(e)' = Late(e) \ {t} /\ t \in Late(e) /\ logged'[e] = logged[e] + 1
      BY <1>1, <1>3, <1>9 DEF Late
    <2>2. Cardinality(Late(e)') = Cardinality(Late(e)) - 1
      BY <1>4, <2>1, FS_RemoveElement
    <2> QED
      BY <1>1, <1>4, <1>5, <1>6, <2>1, <2>2
  <1> QED
    BY <1>7, <1>8, <1>9

LEMMA RolledBackCopies == ASSUME Inv, CopiesOK, NEW t \in Tasks, RolledBack(t) PROVE CopiesOK'
  <1> USE DEF Inv
  <1>1. UNCHANGED <<cursor, task, logged>> /\ lock = t /\ lock' = NoTask /\ failures' = failures + 1
    BY DEF RolledBack
  <1> SUFFICES ASSUME NEW e \in Events
               PROVE  logged'[e] + Cardinality(Late(e)') <= failures' + IF Secured(e)' THEN 1 ELSE 0
    BY DEF CopiesOK
  <1>2. logged[e] \in Nat /\ failures \in Int /\ IsFiniteSet(Late(e)) /\ Cardinality(Late(e)) \in Nat
        /\ NoTask \notin Tasks
    BY LateIsFinite, ShipperAssumption DEF TypeOK
  <1>3. logged[e] + Cardinality(Late(e)) <= failures + IF Secured(e) THEN 1 ELSE 0
    BY DEF CopiesOK
  <1>4. CASE task[t].phase = "read" /\ e \in task[t].batch
    <2>1. Late(e)' = Late(e) \union {t} /\ t \notin Late(e)
      BY <1>1, <1>2, <1>4 DEF Late
    <2>2. Cardinality(Late(e)') = Cardinality(Late(e)) + 1
      BY <1>2, <2>1, FS_AddElement
    <2>3. Secured(e) => Secured(e)'
      BY <1>1, <1>4 DEF Secured
    <2> QED
      BY <1>1, <1>2, <1>3, <2>2, <2>3
  <1>5. CASE ~(task[t].phase = "read" /\ e \in task[t].batch)
    <2>1. Late(e)' = Late(e)
      BY <1>1, <1>2, <1>5 DEF Late
    <2> QED
      BY <1>1, <1>2, <1>3, <2>1
  <1> QED
    BY <1>4, <1>5

LEMMA GiveUpCopies == ASSUME Inv, CopiesOK, NEW t \in Tasks, GiveUp(t) PROVE CopiesOK'
  <1> USE DEF Inv
  <1>1. /\ UNCHANGED <<cursor, logged>> /\ task' = [task EXCEPT ![t] = Idle]
        /\ lock' = (IF lock = t THEN NoTask ELSE lock)
        /\ failures' = (IF lock = t THEN failures + 1 ELSE failures)
    BY DEF GiveUp, Release
  <1>2. task \in [Tasks -> Run]
    BY DEF TypeOK
  <1>3. task'[t].phase = "idle" /\ \A u \in Tasks : u # t => task'[u] = task[u]
    BY <1>1, <1>2 DEF Idle
  <1> SUFFICES ASSUME NEW e \in Events
               PROVE  logged'[e] + Cardinality(Late(e)') <= failures' + IF Secured(e)' THEN 1 ELSE 0
    BY DEF CopiesOK
  <1>4. logged[e] \in Nat /\ failures \in Int /\ IsFiniteSet(Late(e)) /\ Cardinality(Late(e)) \in Nat
        /\ NoTask \notin Tasks
    BY LateIsFinite, ShipperAssumption DEF TypeOK
  <1>5. logged[e] + Cardinality(Late(e)) <= failures + IF Secured(e) THEN 1 ELSE 0
    BY DEF CopiesOK
  <1>6. Late(e)' \subseteq Late(e)
    BY <1>1, <1>3, <1>4 DEF Late
  <1>7. Cardinality(Late(e)') <= Cardinality(Late(e)) /\ Cardinality(Late(e)') \in Nat
    BY <1>4, <1>6, FS_Subset, FS_CardinalityType
  <1>8. CASE lock = t
    BY <1>1, <1>4, <1>5, <1>7, <1>8
  <1>9. CASE lock # t
    <2>1. Secured(e) => Secured(e)'
      BY <1>1, <1>3, <1>9 DEF Secured
    <2> QED
      BY <1>1, <1>4, <1>5, <1>7, <1>9, <2>1
  <1> QED
    BY <1>8, <1>9

LEMMA IInvInductive == (Init => IInv) /\ (IInv /\ [Next]_vars => IInv')
  <1>1. Init => CopiesOK
    <2> SUFFICES ASSUME Init, NEW e \in Events
                 PROVE  logged[e] + Cardinality(Late(e)) <= failures + IF Secured(e) THEN 1 ELSE 0
      BY DEF CopiesOK
    <2>1. Late(e) = {} /\ logged[e] = 0 /\ failures = 0
      BY DEF Init, Late, Idle
    <2> QED
      BY <2>1, FS_EmptySet
  <1>2. ASSUME IInv, [Next]_vars PROVE CopiesOK'
    <2> USE <1>2 DEF IInv
    <2>1. CASE UNCHANGED vars \/ Tick \/ \E e \in Events : Insert(e) \/ End(e)
      <3>1. UNCHANGED <<cursor, lock, task, logged, failures>>
        BY <2>1 DEF vars, Tick, Insert, End
      <3> QED
        BY <3>1, QuietCopies
    <2>2. ASSUME NEW t \in Tasks, Ship(t) \/ RolledBack(t) \/ GiveUp(t) PROVE CopiesOK'
      BY <2>2, QuietCopies, LogBatchCopies, RolledBackCopies, GiveUpCopies DEF Ship
    <2> QED
      BY <2>1, <2>2 DEF Next
  <1> QED
    BY <1>1, <1>2, InitInv, NextInv DEF IInv

\* For any number of tasks, events and failures: an event has at most one line in the logs more
\* than shipping transactions failed, so while none fails each is logged once.
THEOREM RepeatsBounded == Spec => []RepeatsAreFailures
  <1>1. IInv => RepeatsAreFailures
    <2> SUFFICES ASSUME IInv, NEW e \in Events PROVE logged[e] <= 1 + failures
      BY DEF RepeatsAreFailures
    <2>1. logged[e] + Cardinality(Late(e)) <= failures + IF Secured(e) THEN 1 ELSE 0
      BY DEF IInv, CopiesOK
    <2>2. logged[e] \in Nat /\ failures \in Int /\ Cardinality(Late(e)) \in Nat
      BY LateIsFinite, ShipperAssumption DEF IInv, Inv, TypeOK
    <2> QED
      BY <2>1, <2>2
  <1> QED
    BY <1>1, IInvInductive, PTL DEF Spec
============================================================================
