------------------------- MODULE BudgetLedgerProofs -------------------------
(***************************************************************************)
(* Proofs about BudgetLedger, for any number of sessions, reservations and   *)
(* months, any limit and any costs.                                          *)
(***************************************************************************)
EXTENDS BudgetLedger, Sums, TLAPS

\* A reserve() that has not committed carries a cost callers reserve, and an
\* identifier that no row and no other transaction has.
ReserverOK ==
    \A s \in Sessions : tx[s].step \in {"insert", "lock", "decide"} =>
        /\ tx[s].id \in Reservations
        /\ tx[s].month \in Months
        /\ tx[s].cost \in Costs
        /\ rows[tx[s].id].state = "absent"
        /\ \A t \in Sessions \ {s} : tx[t].id # tx[s].id
        /\ tx[s].step # "insert" => tx[s].month \in opened \cup tx[s].inserted

\* A transaction that works on a reservation finds its row, and once it holds
\* the row it goes for the month the row names; its cost is within the amount.
SettlerOK ==
    \A s \in Sessions : tx[s].step \in {"return"} \cup SettleSteps =>
        /\ tx[s].id \in Reservations
        /\ rows[tx[s].id].state # "absent"
        /\ tx[s].step \in SettleSteps => tx[s].cost \in (0..rows[tx[s].id].amount) \cup {None}
        /\ tx[s].step \in {"lockMonth", "charge"} => tx[s].month = rows[tx[s].id].month

\* Nothing is charged before it is settled.
UnsettledUncharged == \A r \in Reservations : rows[r].state # "settled" => charged[r] = 0

IInv ==
    /\ TypeOK
    /\ LocksProtect
    /\ KnownIsBooked
    /\ Ceiling
    /\ ReserverOK
    /\ SettlerOK
    /\ UnsettledUncharged

USE MonthsAssumption, LimitAssumption, CostsAssumption, NoneAssumption

\* It holds initially.
LEMMA InitIInv == Init => IInv
<1> SUFFICES ASSUME Init PROVE IInv
    OBVIOUS
<1>1. TypeOK
    BY DEF Init, TypeOK, Zero, Money, Absent, Row, Idle, Begin, Transaction
<1>2. LocksProtect /\ ReserverOK /\ SettlerOK
    BY DEF Init, LocksProtect, HoldsMonth, HoldsInsert, HoldsReservation, ReserverOK, SettlerOK,
           SettleSteps, Idle, Begin
<1>3. KnownIsBooked /\ Ceiling /\ UnsettledUncharged
    BY DEF Init, KnownIsBooked, Ceiling, UnsettledUncharged, Absent, Zero
<1> QED BY <1>1, <1>2, <1>3 DEF IInv

\* What a statement of session s may do to the transaction of s and to nothing else.
LEMMA AdvanceTyped ==
    ASSUME TypeOK, NEW s \in Sessions, NEW t \in Transaction, tx' = [tx EXCEPT ![s] = t]
    PROVE  tx' \in [Sessions -> Transaction]
BY DEF TypeOK

\* A transaction that has not begun is of its type.
LEMMA IdleTyped == Idle \in Transaction
BY DEF Idle, Begin, Transaction, Zero, Money

\* Every step keeps the types.
LEMMA StepTypeOK == IInv /\ [Next]_vars => TypeOK'
<1> SUFFICES ASSUME IInv, [Next]_vars PROVE TypeOK'
    OBVIOUS
<1> USE DEF IInv, TypeOK
<1> \A s \in Sessions : tx[s] \in Transaction
    OBVIOUS
<1>1. ASSUME NEW s \in Sessions, NEW r \in Reservations, NEW cost \in Costs,
             BeginReserve(s, r, cost)
      PROVE  TypeOK'
    <2>1. Begin("insert", r, month, cost) \in Transaction
        BY DEF Begin, Transaction, Zero, Money, ReserveSteps
    <2> QED BY <1>1, <2>1 DEF BeginReserve
<1>2. ASSUME NEW s \in Sessions, InsertMonth(s) PROVE TypeOK'
    <2>1. {tx[s].month} \ opened \in SUBSET Months
        BY <1>2 DEF InsertMonth, ReserverOK
    <2>2. [tx[s] EXCEPT !.step = "lock", !.inserted = {tx[s].month} \ opened] \in Transaction
        BY <2>1 DEF Transaction, ReserveSteps
    <2>3. tx' = [tx EXCEPT ![s] =
                     [tx[s] EXCEPT !.step = "lock", !.inserted = {tx[s].month} \ opened]]
        BY <1>2 DEF InsertMonth
    <2> QED BY <1>2, <2>2, <2>3, AdvanceTyped DEF InsertMonth
<1>3. ASSUME NEW s \in Sessions, LockToReserve(s) PROVE TypeOK'
    <2>1. budget[tx[s].month] \in Money
        BY <1>3 DEF LockToReserve, ReserverOK
    <2>2. [tx[s] EXCEPT !.step = "decide", !.seen = budget[tx[s].month]] \in Transaction
        BY <2>1 DEF Transaction, ReserveSteps
    <2>3. tx' = [tx EXCEPT ![s] =
                     [tx[s] EXCEPT !.step = "decide", !.seen = budget[tx[s].month]]]
        BY <1>3 DEF LockToReserve
    <2> QED BY <1>3, <2>2, <2>3, AdvanceTyped DEF LockToReserve
<1>4. ASSUME NEW s \in Sessions, RefuseReserve(s) PROVE TypeOK'
    BY <1>4, IdleTyped DEF RefuseReserve, End
<1>5. ASSUME NEW s \in Sessions, CommitReserve(s) PROVE TypeOK'
    <2> DEFINE t == tx[s]
    <2>1. t.month \in Months /\ t.id \in Reservations /\ t.cost \in Nat
        BY <1>5 DEF CommitReserve, ReserverOK
    <2>2. t.seen.reserved \in Nat /\ t.inserted \subseteq Months
        BY DEF Transaction, Money
    <2>3. [state |-> "open", month |-> t.month, amount |-> t.cost] \in Row
        BY <2>1 DEF Row
    <2>4. [budget[t.month] EXCEPT !.reserved = t.seen.reserved + t.cost] \in Money
        BY <2>1, <2>2 DEF Money
    <2>5. [t EXCEPT !.step = "return", !.inserted = {}] \in Transaction
        BY DEF Transaction, ReserveSteps
    <2>6. tx' = [tx EXCEPT ![s] = [t EXCEPT !.step = "return", !.inserted = {}]]
        BY <1>5 DEF CommitReserve
    <2>7. budget' \in [Months -> Money] /\ rows' \in [Reservations -> Row]
        BY <1>5, <2>1, <2>3, <2>4 DEF CommitReserve
    <2> QED BY <1>5, <2>2, <2>5, <2>6, <2>7, AdvanceTyped DEF CommitReserve
<1>6. ASSUME NEW s \in Sessions, ReturnReserve(s) PROVE TypeOK'
    BY <1>6, IdleTyped DEF ReturnReserve, End, SettlerOK
<1>7. ASSUME NEW s \in Sessions, NEW r \in Reservations,
             NEW actual \in (0..rows[r].amount) \cup {None}, BeginSettle(s, r, actual)
      PROVE  TypeOK'
    <2>1. Begin("find", r, 0, actual) \in Transaction
        BY DEF Begin, Transaction, Zero, Money, SettleSteps
    <2> QED BY <1>7, <2>1 DEF BeginSettle
<1>8. ASSUME NEW s \in Sessions, LockReservation(s) PROVE TypeOK'
    <2> DEFINE t == [tx[s] EXCEPT !.step = "lockMonth", !.month = rows[tx[s].id].month]
    <2>1. rows[tx[s].id] \in Row
        BY <1>8 DEF LockReservation, SettlerOK, SettleSteps
    <2>2. t \in Transaction
        BY <2>1 DEF Transaction, SettleSteps, Row
    <2>3. tx' = [tx EXCEPT ![s] = Idle] \/ tx' = [tx EXCEPT ![s] = t]
        BY <1>8 DEF LockReservation, End
    <2> QED BY <1>8, <2>2, <2>3, IdleTyped, AdvanceTyped DEF LockReservation
<1>9. ASSUME NEW s \in Sessions, LockToSettle(s) PROVE TypeOK'
    <2>1. tx[s].month \in Months
        BY <1>9 DEF LockToSettle, SettlerOK, SettleSteps, KnownIsBooked
    <2>2. [tx[s] EXCEPT !.step = "charge", !.seen = budget[tx[s].month]] \in Transaction
        BY <2>1 DEF Transaction, SettleSteps
    <2>3. tx' = [tx EXCEPT ![s] =
                     [tx[s] EXCEPT !.step = "charge", !.seen = budget[tx[s].month]]]
        BY <1>9 DEF LockToSettle
    <2> QED BY <1>9, <2>2, <2>3, AdvanceTyped DEF LockToSettle
<1>10. ASSUME NEW s \in Sessions, CommitSettle(s) PROVE TypeOK'
    <2> DEFINE t == tx[s]
    <2>1. /\ t.id \in Reservations /\ rows[t.id] \in Row
          /\ t.cost \in Nat \cup {None}
        BY <1>10 DEF CommitSettle, SettlerOK, SettleSteps, Transaction
    <2>2. rows[t.id].amount \in Nat /\ t.seen.reserved \in Nat /\ t.seen.spent \in Nat
        BY <2>1 DEF Transaction, Money, Row
    <2>3. Charge(s) \in Nat
        BY <2>1, <2>2 DEF Charge
    <2>4. [spent    |-> t.seen.spent + Charge(s),
           reserved |-> t.seen.reserved - rows[t.id].amount] \in Money
        BY <1>10, <2>2, <2>3 DEF CommitSettle, Money
    <2>5. budget' \in [Months -> Money]
        BY <1>10, <2>4 DEF CommitSettle
    <2>6. [rows[t.id] EXCEPT !.state = "settled"] \in Row
        BY <2>1 DEF Row
    <2>7. rows' \in [Reservations -> Row]
        BY <1>10, <2>6 DEF CommitSettle
    <2> QED BY <1>10, <2>3, <2>5, <2>7, IdleTyped DEF CommitSettle, End
<1>11. ASSUME NEW s \in Sessions, Abort(s) PROVE TypeOK'
    BY <1>11, IdleTyped DEF Abort, End
<1>12. CASE Crash
    BY <1>12, IdleTyped DEF Crash
<1>13. CASE TurnMonth
    BY <1>13 DEF TurnMonth
<1>14. CASE UNCHANGED vars
    BY <1>14 DEF vars
<1> QED
    BY <1>1, <1>2, <1>3, <1>4, <1>5, <1>6, <1>7, <1>8, <1>9, <1>10, <1>11, <1>12, <1>13, <1>14
    DEF Next, ReserveStep, SettleStep
\* Every step keeps a locked row from the others.
LEMMA StepLocksProtect == IInv /\ [Next]_vars => LocksProtect'
<1> SUFFICES ASSUME IInv, [Next]_vars PROVE LocksProtect'
    OBVIOUS
<1> TypeOK'
    BY StepTypeOK
<1> USE DEF IInv, TypeOK, Transaction, LocksProtect, HoldsInsert, HoldsMonth, HoldsReservation, ReserverOK, SettlerOK, SettleSteps
<1>1. ASSUME NEW s \in Sessions, NEW r \in Reservations, NEW cost \in Costs,
             BeginReserve(s, r, cost)
      PROVE  LocksProtect'
    BY <1>1 DEF BeginReserve, Begin, Zero, Fresh
<1>2. ASSUME NEW s \in Sessions, InsertMonth(s) PROVE LocksProtect'
    BY <1>2 DEF InsertMonth, FreeToInsert
<1>3. ASSUME NEW s \in Sessions, LockToReserve(s) PROVE LocksProtect'
    BY <1>3 DEF LockToReserve, FreeMonth
<1>4. ASSUME NEW s \in Sessions, RefuseReserve(s) PROVE LocksProtect'
    BY <1>4 DEF RefuseReserve, End, Idle, Begin, Zero
<1>5. ASSUME NEW s \in Sessions, CommitReserve(s) PROVE LocksProtect'
    BY <1>5 DEF CommitReserve
<1>6. ASSUME NEW s \in Sessions, ReturnReserve(s) PROVE LocksProtect'
    BY <1>6 DEF ReturnReserve, End, Idle, Begin, Zero
<1>7. ASSUME NEW s \in Sessions, NEW r \in Reservations,
             NEW actual \in (0..rows[r].amount) \cup {None}, BeginSettle(s, r, actual)
      PROVE  LocksProtect'
    BY <1>7 DEF BeginSettle, Begin, Zero
<1>8. ASSUME NEW s \in Sessions, LockReservation(s) PROVE LocksProtect'
    BY <1>8 DEF LockReservation, End, Idle, Begin, Zero, FreeReservation
<1>9. ASSUME NEW s \in Sessions, LockToSettle(s) PROVE LocksProtect'
    BY <1>9 DEF LockToSettle, FreeMonth
<1>10. ASSUME NEW s \in Sessions, CommitSettle(s) PROVE LocksProtect'
    BY <1>10 DEF CommitSettle, End, Idle, Begin, Zero, Charge
<1>11. ASSUME NEW s \in Sessions, Abort(s) PROVE LocksProtect'
    BY <1>11 DEF Abort, End, Idle, Begin, Zero
<1>12. CASE Crash
    BY <1>12 DEF Crash, Idle, Begin
<1>13. CASE TurnMonth
    BY <1>13 DEF TurnMonth
<1>14. CASE UNCHANGED vars
    BY <1>14 DEF vars
<1> QED
    BY <1>1, <1>2, <1>3, <1>4, <1>5, <1>6, <1>7, <1>8, <1>9, <1>10, <1>11, <1>12, <1>13, <1>14
    DEF Next, ReserveStep, SettleStep

\* Every step keeps what a reserving transaction has read true.
LEMMA StepReserverOK == IInv /\ [Next]_vars => ReserverOK'
<1> SUFFICES ASSUME IInv, [Next]_vars PROVE ReserverOK'
    OBVIOUS
<1> TypeOK'
    BY StepTypeOK
<1> USE DEF IInv, TypeOK, Transaction, ReserverOK, SettlerOK, KnownIsBooked, SettleSteps
<1>1. ASSUME NEW s \in Sessions, NEW r \in Reservations, NEW cost \in Costs,
             BeginReserve(s, r, cost)
      PROVE  ReserverOK'
    BY <1>1 DEF BeginReserve, Begin, Zero, Fresh
<1>2. ASSUME NEW s \in Sessions, InsertMonth(s) PROVE ReserverOK'
    BY <1>2 DEF InsertMonth, FreeToInsert
<1>3. ASSUME NEW s \in Sessions, LockToReserve(s) PROVE ReserverOK'
    BY <1>3 DEF LockToReserve, FreeMonth
<1>4. ASSUME NEW s \in Sessions, RefuseReserve(s) PROVE ReserverOK'
    BY <1>4 DEF RefuseReserve, End, Idle, Begin, Zero
<1>5. ASSUME NEW s \in Sessions, CommitReserve(s) PROVE ReserverOK'
    BY <1>5 DEF CommitReserve
<1>6. ASSUME NEW s \in Sessions, ReturnReserve(s) PROVE ReserverOK'
    BY <1>6 DEF ReturnReserve, End, Idle, Begin, Zero
<1>7. ASSUME NEW s \in Sessions, NEW r \in Reservations,
             NEW actual \in (0..rows[r].amount) \cup {None}, BeginSettle(s, r, actual)
      PROVE  ReserverOK'
    BY <1>7 DEF BeginSettle, Begin, Zero
<1>8. ASSUME NEW s \in Sessions, LockReservation(s) PROVE ReserverOK'
    BY <1>8 DEF LockReservation, End, Idle, Begin, Zero, FreeReservation
<1>9. ASSUME NEW s \in Sessions, LockToSettle(s) PROVE ReserverOK'
    BY <1>9 DEF LockToSettle, FreeMonth
<1>10. ASSUME NEW s \in Sessions, CommitSettle(s) PROVE ReserverOK'
    BY <1>10 DEF CommitSettle, End, Idle, Begin, Zero, Charge
<1>11. ASSUME NEW s \in Sessions, Abort(s) PROVE ReserverOK'
    BY <1>11 DEF Abort, End, Idle, Begin, Zero
<1>12. CASE Crash
    BY <1>12 DEF Crash, Idle, Begin
<1>13. CASE TurnMonth
    BY <1>13 DEF TurnMonth
<1>14. CASE UNCHANGED vars
    BY <1>14 DEF vars
<1> QED
    BY <1>1, <1>2, <1>3, <1>4, <1>5, <1>6, <1>7, <1>8, <1>9, <1>10, <1>11, <1>12, <1>13, <1>14
    DEF Next, ReserveStep, SettleStep

\* Every step keeps what a settling transaction has read true.
LEMMA StepSettlerOK == IInv /\ [Next]_vars => SettlerOK'
<1> SUFFICES ASSUME IInv, [Next]_vars PROVE SettlerOK'
    OBVIOUS
<1> TypeOK'
    BY StepTypeOK
<1> USE DEF IInv, TypeOK, Transaction, ReserverOK, SettlerOK, KnownIsBooked, SettleSteps
<1>1. ASSUME NEW s \in Sessions, NEW r \in Reservations, NEW cost \in Costs,
             BeginReserve(s, r, cost)
      PROVE  SettlerOK'
    BY <1>1 DEF BeginReserve, Begin, Zero, Fresh
<1>2. ASSUME NEW s \in Sessions, InsertMonth(s) PROVE SettlerOK'
    BY <1>2 DEF InsertMonth, FreeToInsert
<1>3. ASSUME NEW s \in Sessions, LockToReserve(s) PROVE SettlerOK'
    BY <1>3 DEF LockToReserve, FreeMonth
<1>4. ASSUME NEW s \in Sessions, RefuseReserve(s) PROVE SettlerOK'
    BY <1>4 DEF RefuseReserve, End, Idle, Begin, Zero
<1>5. ASSUME NEW s \in Sessions, CommitReserve(s) PROVE SettlerOK'
    BY <1>5 DEF CommitReserve
<1>6. ASSUME NEW s \in Sessions, ReturnReserve(s) PROVE SettlerOK'
    BY <1>6 DEF ReturnReserve, End, Idle, Begin, Zero
<1>7. ASSUME NEW s \in Sessions, NEW r \in Reservations,
             NEW actual \in (0..rows[r].amount) \cup {None}, BeginSettle(s, r, actual)
      PROVE  SettlerOK'
    BY <1>7 DEF BeginSettle, Begin, Zero
<1>8. ASSUME NEW s \in Sessions, LockReservation(s) PROVE SettlerOK'
    BY <1>8 DEF LockReservation, End, Idle, Begin, Zero, FreeReservation
<1>9. ASSUME NEW s \in Sessions, LockToSettle(s) PROVE SettlerOK'
    BY <1>9 DEF LockToSettle, FreeMonth
<1>10. ASSUME NEW s \in Sessions, CommitSettle(s) PROVE SettlerOK'
    BY <1>10 DEF CommitSettle, End, Idle, Begin, Zero, Charge
<1>11. ASSUME NEW s \in Sessions, Abort(s) PROVE SettlerOK'
    BY <1>11 DEF Abort, End, Idle, Begin, Zero
<1>12. CASE Crash
    BY <1>12 DEF Crash, Idle, Begin
<1>13. CASE TurnMonth
    BY <1>13 DEF TurnMonth
<1>14. CASE UNCHANGED vars
    BY <1>14 DEF vars
<1> QED
    BY <1>1, <1>2, <1>3, <1>4, <1>5, <1>6, <1>7, <1>8, <1>9, <1>10, <1>11, <1>12, <1>13, <1>14
    DEF Next, ReserveStep, SettleStep

\* Every step keeps what the rows and the totals say of each other.
LEMMA StepBooked == IInv /\ [Next]_vars => (KnownIsBooked /\ Ceiling /\ UnsettledUncharged)'
<1> SUFFICES ASSUME IInv, [Next]_vars PROVE (KnownIsBooked /\ Ceiling /\ UnsettledUncharged)'
    OBVIOUS
<1> TypeOK'
    BY StepTypeOK
<1> USE DEF IInv, TypeOK, Transaction, Money, Row, ReserverOK, SettlerOK, KnownIsBooked, Ceiling, UnsettledUncharged, SettleSteps, LocksProtect
<1>1. ASSUME NEW s \in Sessions, NEW r \in Reservations, NEW cost \in Costs,
             BeginReserve(s, r, cost)
      PROVE  (KnownIsBooked /\ Ceiling /\ UnsettledUncharged)'
    BY <1>1 DEF BeginReserve, Begin, Zero, Fresh
<1>2. ASSUME NEW s \in Sessions, InsertMonth(s) PROVE (KnownIsBooked /\ Ceiling /\ UnsettledUncharged)'
    BY <1>2 DEF InsertMonth, FreeToInsert
<1>3. ASSUME NEW s \in Sessions, LockToReserve(s) PROVE (KnownIsBooked /\ Ceiling /\ UnsettledUncharged)'
    BY <1>3 DEF LockToReserve, FreeMonth
<1>4. ASSUME NEW s \in Sessions, RefuseReserve(s) PROVE (KnownIsBooked /\ Ceiling /\ UnsettledUncharged)'
    BY <1>4 DEF RefuseReserve, End, Idle, Begin, Zero
<1>5. ASSUME NEW s \in Sessions, CommitReserve(s)
      PROVE  (KnownIsBooked /\ Ceiling /\ UnsettledUncharged)'
    <2> DEFINE t == tx[s]
    <2>1. /\ t.id \in Reservations /\ t.month \in Months /\ t.cost \in Nat
          /\ rows[t.id].state = "absent" /\ t.month \in opened \cup t.inserted
        BY <1>5 DEF CommitReserve
    <2>2. t.seen = budget[t.month] /\ t.seen.spent \in Nat /\ t.seen.reserved \in Nat
        BY <1>5 DEF CommitReserve
    <2>3. /\ budget'[t.month].spent = t.seen.spent
          /\ budget'[t.month].reserved = t.seen.reserved + t.cost
          /\ \A m \in Months \ {t.month} : budget'[m] = budget[m]
        BY <1>5, <2>1, <2>2 DEF CommitReserve
    <2>4. /\ rows'[t.id] = [state |-> "open", month |-> t.month, amount |-> t.cost]
          /\ \A r \in Reservations \ {t.id} : rows'[r] = rows[r]
        BY <1>5, <2>1 DEF CommitReserve
    <2>5. Ceiling'
        BY <1>5, <2>1, <2>2, <2>3 DEF CommitReserve, Fits
    <2>6. KnownIsBooked'
        BY <1>5, <2>1, <2>3, <2>4 DEF CommitReserve
    <2>7. UnsettledUncharged'
        BY <1>5, <2>1, <2>4 DEF CommitReserve
    <2> QED BY <2>5, <2>6, <2>7
<1>6. ASSUME NEW s \in Sessions, ReturnReserve(s) PROVE (KnownIsBooked /\ Ceiling /\ UnsettledUncharged)'
    BY <1>6 DEF ReturnReserve, End, Idle, Begin, Zero
<1>7. ASSUME NEW s \in Sessions, NEW r \in Reservations,
             NEW actual \in (0..rows[r].amount) \cup {None}, BeginSettle(s, r, actual)
      PROVE  (KnownIsBooked /\ Ceiling /\ UnsettledUncharged)'
    BY <1>7 DEF BeginSettle, Begin, Zero
<1>8. ASSUME NEW s \in Sessions, LockReservation(s) PROVE (KnownIsBooked /\ Ceiling /\ UnsettledUncharged)'
    BY <1>8 DEF LockReservation, End, Idle, Begin, Zero, FreeReservation
<1>9. ASSUME NEW s \in Sessions, LockToSettle(s) PROVE (KnownIsBooked /\ Ceiling /\ UnsettledUncharged)'
    BY <1>9 DEF LockToSettle, FreeMonth
<1>10. ASSUME NEW s \in Sessions, CommitSettle(s) PROVE (KnownIsBooked /\ Ceiling /\ UnsettledUncharged)'
    BY <1>10 DEF CommitSettle, End, Idle, Begin, Zero, Charge
<1>11. ASSUME NEW s \in Sessions, Abort(s) PROVE (KnownIsBooked /\ Ceiling /\ UnsettledUncharged)'
    BY <1>11 DEF Abort, End, Idle, Begin, Zero
<1>12. CASE Crash
    BY <1>12 DEF Crash, Idle, Begin
<1>13. CASE TurnMonth
    BY <1>13 DEF TurnMonth
<1>14. CASE UNCHANGED vars
    BY <1>14 DEF vars
<1> QED
    BY <1>1, <1>2, <1>3, <1>4, <1>5, <1>6, <1>7, <1>8, <1>9, <1>10, <1>11, <1>12, <1>13, <1>14
    DEF Next, ReserveStep, SettleStep

\* IInv is inductive: it holds initially and every step preserves it.
THEOREM Inductive == Spec => []IInv
<1>1. IInv /\ [Next]_vars => IInv'
    BY StepTypeOK, StepLocksProtect, StepReserverOK, StepSettlerOK, StepBooked DEF IInv
<1> QED BY InitIInv, <1>1, PTL DEF Spec

-----------------------------------------------------------------------------

\* Type correctness of the SQL-level ledger: no balance ever goes negative.
THEOREM TypeCorrect == Spec => []TypeOK
<1>1. IInv => TypeOK
    BY DEF IInv
<1> QED BY <1>1, Inductive, PTL

\* The monthly ceiling holds in every interleaving of PostgresBudgetLedger's
\* transactions, with any number of connections, crashes and lost commits.
THEOREM CeilingHolds == Spec => []Ceiling
<1>1. IInv => Ceiling
    BY DEF IInv
<1> QED BY <1>1, Inductive, PTL

\* The row locks exclude one another, and what was read under one is current
\* when it is written back: no update of a month's totals is ever lost.
THEOREM LocksHold == Spec => []LocksProtect
<1>1. IInv => LocksProtect
    BY DEF IInv
<1> QED BY <1>1, Inductive, PTL

\* Every identifier reserve() has returned names a row settle() finds.
THEOREM BookingsHold == Spec => []KnownIsBooked
<1>1. IInv => KnownIsBooked
    BY DEF IInv
<1> QED BY <1>1, Inductive, PTL

\* Of the fields the ledger's promise is about, only the two commits change any.
LEMMA OnlyCommitsWrite ==
    ASSUME [Next]_vars, ~(\E s \in Sessions : CommitReserve(s) \/ CommitSettle(s))
    PROVE  UNCHANGED <<budget, rows, charged>>
BY DEF Next, vars, ReserveStep, SettleStep, BeginReserve, InsertMonth, LockToReserve,
       RefuseReserve, ReturnReserve, BeginSettle, LockReservation, LockToSettle, Abort,
       Crash, TurnMonth

\* What a committing reserve() did, for the totals and for its row.
LEMMA CommitReserveEffect ==
    ASSUME IInv, NEW s \in Sessions, CommitReserve(s)
    PROVE  LET t == tx[s] IN
           /\ t.id \in Reservations /\ t.month \in Months /\ t.cost \in Costs
           /\ rows[t.id].state = "absent"
           /\ budget[t.month].spent + budget[t.month].reserved + t.cost =< Limit
           /\ budget' = [budget EXCEPT ![t.month].reserved = @ + t.cost]
           /\ rows' = [rows EXCEPT ![t.id] =
                          [state |-> "open", month |-> t.month, amount |-> t.cost]]
           /\ charged' = charged /\ charged[t.id] = 0
<1>1. /\ tx[s].id \in Reservations /\ tx[s].month \in Months /\ tx[s].cost \in Costs
      /\ rows[tx[s].id].state = "absent"
    BY DEF CommitReserve, IInv, ReserverOK
<1>2. tx[s].seen = budget[tx[s].month]
    BY DEF CommitReserve, IInv, LocksProtect
<1>3. charged[tx[s].id] = 0
    BY <1>1 DEF IInv, UnsettledUncharged
<1> QED BY <1>1, <1>2, <1>3 DEF CommitReserve, Fits

\* What a committing settle() did: it moved at most the held amount of one open
\* reservation from reserved to spent, in the month of the reservation.
LEMMA CommitSettleEffect ==
    ASSUME IInv, NEW s \in Sessions, CommitSettle(s)
    PROVE  LET t == tx[s] IN
           /\ t.id \in Reservations /\ rows[t.id].month \in Months
           /\ rows[t.id].state = "open"
           /\ Charge(s) \in 0..rows[t.id].amount
           /\ budget' = [budget EXCEPT ![rows[t.id].month] =
                  [spent |-> @.spent + Charge(s), reserved |-> @.reserved - rows[t.id].amount]]
           /\ rows' = [rows EXCEPT ![t.id].state = "settled"]
           /\ charged' = [charged EXCEPT ![t.id] = Charge(s)]
<1>1. /\ tx[s].id \in Reservations /\ tx[s].month = rows[tx[s].id].month
      /\ tx[s].cost \in (0..rows[tx[s].id].amount) \cup {None}
    BY DEF CommitSettle, IInv, SettlerOK, SettleSteps
<1>2. rows[tx[s].id].state = "open" /\ tx[s].seen = budget[tx[s].month]
    BY DEF CommitSettle, IInv, LocksProtect
<1>3. rows[tx[s].id].month \in Months
    BY <1>1, <1>2 DEF IInv, KnownIsBooked, TypeOK
<1>4. rows[tx[s].id].amount \in Nat
    BY <1>1 DEF IInv, TypeOK, Row
<1>5. Charge(s) \in 0..rows[tx[s].id].amount
    BY <1>1, <1>4 DEF Charge
<1> QED BY <1>1, <1>2, <1>3, <1>5 DEF CommitSettle

-----------------------------------------------------------------------------
(* The totals are sums over the reservation rows.                           *)

\* The reservations in one state are finitely many.
LEMMA ThoseFinite == \A state, m : IsFiniteSet(Those(state, m))
BY FS_Subset, ReservationsAssumption DEF Those

\* What is summed are natural numbers.
LEMMA AmountsTyped ==
    ASSUME IInv
    PROVE  /\ \A r \in Reservations : /\ Amounts[r] = rows[r].amount /\ rows[r].amount \in Nat
                                      /\ charged[r] \in Nat
           /\ \A state, m : \A r \in Those(state, m) : r \in Reservations
BY DEF IInv, TypeOK, Row, Amounts, Those

\* Nothing is booked at first, and the totals are zero.
LEMMA InitReconciled == Init => Reconciled
<1> SUFFICES ASSUME Init, NEW m \in Months
             PROVE  /\ budget[m].reserved = SumFunctionOnSet(Amounts, Those("open", m))
                    /\ budget[m].spent = SumFunctionOnSet(charged, Those("settled", m))
    BY DEF Reconciled
<1>1. Those("open", m) = {} /\ Those("settled", m) = {}
    BY DEF Init, Those, Absent
<1>2. budget[m].reserved = 0 /\ budget[m].spent = 0
    BY DEF Init, Zero
<1> QED BY <1>1, <1>2, SumEmpty

\* A committed reserve() adds its row to the open ones of its month.
LEMMA ReserveReconciles ==
    ASSUME IInv, Reconciled, NEW s \in Sessions, CommitReserve(s), NEW m \in Months
    PROVE  /\ budget'[m].reserved = SumFunctionOnSet(Amounts', Those("open", m)')
           /\ budget'[m].spent = SumFunctionOnSet(charged', Those("settled", m)')
<1> DEFINE r == tx[s].id
           opens == Those("open", m)
<1>1. /\ r \in Reservations /\ tx[s].month \in Months /\ tx[s].cost \in Nat
      /\ rows[r].state = "absent"
      /\ budget' = [budget EXCEPT ![tx[s].month].reserved = @ + tx[s].cost]
      /\ rows' = [rows EXCEPT ![r] =
                     [state |-> "open", month |-> tx[s].month, amount |-> tx[s].cost]]
      /\ charged' = charged
    BY CommitReserveEffect
<1>2. budget \in [Months -> Money] /\ rows \in [Reservations -> Row]
    BY DEF IInv, TypeOK
<1>3. /\ rows'[r].state = "open" /\ rows'[r].month = tx[s].month /\ rows'[r].amount = tx[s].cost
      /\ \A q \in Reservations : q # r => rows'[q] = rows[q]
    BY <1>1, <1>2
<1>4. Those("settled", m)' = Those("settled", m)
    BY <1>1, <1>3 DEF Those
<1>5. r \notin opens
    BY <1>1 DEF Those
<1>6. \A q \in opens : Amounts'[q] = Amounts[q] /\ Amounts[q] \in Nat
    BY <1>3, <1>5, AmountsTyped DEF Amounts, Those
<1>7. Amounts'[r] = tx[s].cost
    BY <1>1, <1>3 DEF Amounts
<1>8. IsFiniteSet(opens)
    BY ThoseFinite
<1>9. budget[m].reserved = SumFunctionOnSet(Amounts, opens) /\ budget[m].spent = SumFunctionOnSet(charged, Those("settled", m))
    BY DEF Reconciled
<1>10. budget'[m].spent = budget[m].spent
    BY <1>1, <1>2
<1>11. CASE m = tx[s].month
    <2>1. Those("open", m)' = opens \cup {r}
        BY <1>1, <1>3, <1>11 DEF Those
    <2>2. budget'[m].reserved = budget[m].reserved + tx[s].cost
        BY <1>1, <1>2, <1>11
    <2> HIDE DEF opens, r
    <2>3. SumFunctionOnSet(Amounts', opens \cup {r}) = SumFunctionOnSet(Amounts, opens) + Amounts'[r]
        BY <1>1, <1>5, <1>6, <1>7, <1>8, SumGrows
    <2> QED BY <1>1, <1>4, <1>7, <1>9, <1>10, <2>1, <2>2, <2>3
<1>12. CASE m # tx[s].month
    <2>1. Those("open", m)' = opens
        BY <1>1, <1>3, <1>12 DEF Those
    <2>2. budget'[m].reserved = budget[m].reserved
        BY <1>1, <1>2, <1>12
    <2> HIDE DEF opens, r
    <2>3. SumFunctionOnSet(Amounts', opens) = SumFunctionOnSet(Amounts, opens)
        BY <1>6, <1>8, SumSame
    <2> QED BY <1>1, <1>4, <1>9, <1>10, <2>1, <2>2, <2>3
<1> QED BY <1>11, <1>12

\* A committed settle() moves its row from the open to the settled ones of its month.
LEMMA SettleReconciles ==
    ASSUME IInv, Reconciled, NEW s \in Sessions, CommitSettle(s), NEW m \in Months
    PROVE  /\ budget'[m].reserved = SumFunctionOnSet(Amounts', Those("open", m)')
           /\ budget'[m].spent = SumFunctionOnSet(charged', Those("settled", m)')
<1> DEFINE r == tx[s].id
           opens == Those("open", m)
           settled == Those("settled", m)
<1>1. /\ r \in Reservations /\ rows[r].month \in Months /\ rows[r].state = "open"
      /\ Charge(s) \in 0..rows[r].amount
      /\ budget' = [budget EXCEPT ![rows[r].month] =
             [spent |-> @.spent + Charge(s), reserved |-> @.reserved - rows[r].amount]]
      /\ rows' = [rows EXCEPT ![r].state = "settled"]
      /\ charged' = [charged EXCEPT ![r] = Charge(s)]
    BY CommitSettleEffect
<1>2. /\ budget \in [Months -> Money] /\ rows \in [Reservations -> Row]
      /\ charged \in [Reservations -> Nat]
    BY DEF IInv, TypeOK
<1>3. /\ rows'[r].state = "settled" /\ rows'[r].month = rows[r].month
      /\ rows'[r].amount = rows[r].amount
      /\ \A q \in Reservations : q # r => rows'[q] = rows[q]
    BY <1>1, <1>2 DEF Row
<1>4. rows[r].amount \in Nat /\ Charge(s) \in Nat
    BY <1>1, <1>2 DEF Row
<1>5. \A q \in Reservations : Amounts'[q] = Amounts[q] /\ Amounts[q] \in Nat
    BY <1>3, AmountsTyped DEF Amounts
<1>6. r \notin settled /\ charged'[r] = Charge(s) /\ Amounts[r] = rows[r].amount
    BY <1>1, <1>2 DEF Those, Amounts
<1>7. \A q \in settled : charged'[q] = charged[q] /\ charged[q] \in Nat
    BY <1>1, <1>2, <1>6 DEF Those
<1>8. IsFiniteSet(opens) /\ IsFiniteSet(settled) /\ opens \subseteq Reservations
    BY ThoseFinite DEF Those
<1>9. /\ budget[m].reserved = SumFunctionOnSet(Amounts, opens)
      /\ budget[m].spent = SumFunctionOnSet(charged, settled)
    BY DEF Reconciled
<1>10. CASE m = rows[r].month
    <2>1. r \in opens /\ Those("open", m)' = opens \ {r} /\ Those("settled", m)' = settled \cup {r}
        BY <1>1, <1>3, <1>10 DEF Those
    <2>2. /\ budget'[m].reserved = budget[m].reserved - rows[r].amount
          /\ budget'[m].spent = budget[m].spent + Charge(s)
        BY <1>1, <1>2, <1>10
    <2> HIDE DEF opens, settled, r
    <2>3. SumFunctionOnSet(Amounts', opens \ {r}) = SumFunctionOnSet(Amounts, opens) - Amounts[r]
        BY <1>5, <1>8, <2>1, SumShrinks
    <2>4. SumFunctionOnSet(charged', settled \cup {r}) = SumFunctionOnSet(charged, settled) + charged'[r]
        <3>1. charged'[r] \in Nat /\ r \notin settled /\ IsFiniteSet(settled)
            BY <1>4, <1>6, <1>8
        <3>2. (\A q \in settled : charged'[q] = charged[q]) /\ \A q \in settled : charged[q] \in Nat
            BY <1>7
        <3> QED BY <3>1, <3>2, SumGrows
    <2> QED BY <1>6, <1>9, <2>1, <2>2, <2>3, <2>4
<1>11. CASE m # rows[r].month
    <2>1. Those("open", m)' = opens /\ Those("settled", m)' = settled
        BY <1>1, <1>3, <1>11 DEF Those
    <2>2. budget'[m] = budget[m]
        BY <1>1, <1>2, <1>11
    <2> HIDE DEF opens, settled, r
    <2>3. SumFunctionOnSet(Amounts', opens) = SumFunctionOnSet(Amounts, opens)
        BY <1>5, <1>8, SumSame
    <2>4. SumFunctionOnSet(charged', settled) = SumFunctionOnSet(charged, settled)
        BY <1>7, <1>8, SumSame
    <2> QED BY <1>9, <2>1, <2>2, <2>3, <2>4
<1> QED BY <1>10, <1>11

\* The totals of every month agree with its reservation rows, in every interleaving of
\* the transactions, with aborts, lost acknowledgements, crashes and turns of the month.
THEOREM TotalsReconcile == Spec => []Reconciled
<1>1. ASSUME IInv, Reconciled, [Next]_vars PROVE Reconciled'
    <2>1. ASSUME NEW s \in Sessions, CommitReserve(s) PROVE Reconciled'
        BY <1>1, <2>1, ReserveReconciles DEF Reconciled
    <2>2. ASSUME NEW s \in Sessions, CommitSettle(s) PROVE Reconciled'
        BY <1>1, <2>2, SettleReconciles DEF Reconciled
    <2>3. CASE ~(\E s \in Sessions : CommitReserve(s) \/ CommitSettle(s))
        <3>1. budget' = budget /\ rows' = rows /\ charged' = charged
            BY <1>1, <2>3, OnlyCommitsWrite
        <3>2. Amounts' = Amounts /\ \A state, m : Those(state, m)' = Those(state, m)
            BY <3>1 DEF Amounts, Those
        <3> QED BY <1>1, <3>1, <3>2 DEF Reconciled
    <2> QED BY <2>1, <2>2, <2>3
<1> QED BY <1>1, InitReconciled, Inductive, PTL DEF Spec

\* A reservation is charged once and money spent stays spent, whoever settles
\* again and whenever.
THEOREM ChargedOnceHolds == Spec => ChargedOnce
<1> DEFINE Once == /\ \A r \in Reservations : rows[r].state = "settled" =>
                          rows'[r] = rows[r] /\ charged'[r] = charged[r]
                   /\ \A m \in Months : budget'[m].spent >= budget[m].spent
<1>1. ASSUME IInv, [Next]_vars PROVE Once
    <2>0. TypeOK
        BY <1>1 DEF IInv
    <2>1. ASSUME NEW s \in Sessions, CommitReserve(s) PROVE Once
        <3> DEFINE t == tx[s]
        <3>1. /\ t.id \in Reservations /\ t.month \in Months /\ rows[t.id].state = "absent"
              /\ budget' = [budget EXCEPT ![t.month].reserved = @ + t.cost]
              /\ rows' = [rows EXCEPT ![t.id] =
                             [state |-> "open", month |-> t.month, amount |-> t.cost]]
              /\ charged' = charged
            BY <1>1, <2>1, CommitReserveEffect
        <3>2. \A r \in Reservations : r # t.id => rows'[r] = rows[r]
            BY <2>0, <3>1 DEF TypeOK
        <3>3. \A m \in Months : budget'[m].spent = budget[m].spent /\ budget[m].spent \in Nat
            BY <2>0, <3>1 DEF TypeOK, Money
        <3> QED BY <3>1, <3>2, <3>3
    <2>2. ASSUME NEW s \in Sessions, CommitSettle(s) PROVE Once
        <3> DEFINE t == tx[s]
        <3>1. \A r \in Reservations : rows[r].state = "settled" => r # t.id
            BY <1>1, <2>2, CommitSettleEffect
        <3>2. \A m \in Months : budget'[m].spent >= budget[m].spent
            <4>1. /\ rows[t.id].month \in Months /\ rows[t.id].amount \in Nat
                  /\ Charge(s) \in 0..rows[t.id].amount
                  /\ budget' = [budget EXCEPT ![rows[t.id].month] =
                         [spent    |-> @.spent + Charge(s),
                          reserved |-> @.reserved - rows[t.id].amount]]
                BY <1>1, <2>0, <2>2, CommitSettleEffect DEF TypeOK, Row
            <4>2. budget'[rows[t.id].month].spent = budget[rows[t.id].month].spent + Charge(s)
                BY <2>0, <4>1 DEF TypeOK
            <4>3. \A m \in Months : m # rows[t.id].month => budget'[m] = budget[m]
                BY <2>0, <4>1 DEF TypeOK
            <4>4. \A m \in Months : budget[m].spent \in Nat
                BY <2>0 DEF TypeOK, Money
            <4> QED BY <4>1, <4>2, <4>3, <4>4
        <3> QED BY <1>1, <2>0, <2>2, <3>1, <3>2, CommitSettleEffect DEF TypeOK
    <2>3. CASE ~(\E s \in Sessions : CommitReserve(s) \/ CommitSettle(s))
        <3>1. budget' = budget /\ rows' = rows /\ charged' = charged
            BY <1>1, <2>3, OnlyCommitsWrite
        <3>2. \A m \in Months : budget[m].spent \in Nat
            BY <2>0 DEF TypeOK, Money
        <3>3. \A m \in Months : budget[m].spent >= budget[m].spent
            <4>1. \A n \in Nat : n >= n
                OBVIOUS
            <4> QED BY <3>2, <4>1
        <3> QED BY <3>1, <3>3
    <2> QED BY <2>1, <2>2, <2>3
<1>2. IInv /\ [Next]_vars => [Once]_vars
    BY <1>1
<1> QED BY <1>2, Inductive, PTL DEF ChargedOnce, Spec

\* PostgresBudgetLedger implements the indivisible ledger: a transaction takes
\* effect at its commit, as one reservation or one settlement, and every other
\* statement, failure, crash or turn of the month is invisible.
THEOREM Implementation == Spec => ImplementsLedger
<1>1. Init => Ledger!LedgerInit
    BY DEF Init, Ledger!LedgerInit, Ledger!Absent, Booked, Absent, Zero
<1>2. ASSUME IInv, [Next]_vars PROVE [Ledger!LedgerNext]_(Ledger!ledgerVars)
    <2>0. TypeOK
        BY <1>2 DEF IInv
    <2>1. ASSUME NEW s \in Sessions, CommitReserve(s)
          PROVE  Ledger!LedgerNext
        <3> DEFINE t == tx[s]
        <3> DEFINE new == [state |-> "open", month |-> t.month, amount |-> t.cost, charged |-> 0]
        <3>1. /\ t.id \in Reservations /\ t.month \in Months /\ t.cost \in Costs
              /\ rows[t.id].state = "absent"
              /\ budget[t.month].spent + budget[t.month].reserved + t.cost =< Limit
              /\ budget' = [budget EXCEPT ![t.month].reserved = @ + t.cost]
              /\ rows' = [rows EXCEPT ![t.id] =
                             [state |-> "open", month |-> t.month, amount |-> t.cost]]
              /\ charged' = charged /\ charged[t.id] = 0
            BY <1>2, <2>1, CommitReserveEffect
        <3>2. Booked' = [Booked EXCEPT ![t.id] = new]
            BY <2>0, <3>1 DEF Booked, TypeOK
        <3>3. Booked[t.id].state = "absent"
            BY <3>1 DEF Booked
        <3>4. Ledger!Reserve(t.id, t.month, t.cost)
            BY <3>1, <3>2, <3>3 DEF Ledger!Reserve, Ledger!Affordable
        <3> QED BY <3>1, <3>4 DEF Ledger!LedgerNext
    <2>2. ASSUME NEW s \in Sessions, CommitSettle(s)
          PROVE  Ledger!LedgerNext
        <3> DEFINE r == tx[s].id
        <3>1. /\ r \in Reservations /\ rows[r].state = "open"
              /\ Charge(s) \in 0..rows[r].amount
              /\ budget' = [budget EXCEPT ![rows[r].month] =
                     [spent |-> @.spent + Charge(s), reserved |-> @.reserved - rows[r].amount]]
              /\ rows' = [rows EXCEPT ![r].state = "settled"]
              /\ charged' = [charged EXCEPT ![r] = Charge(s)]
            BY <1>2, <2>2, CommitSettleEffect
        <3>2. rows[r] \in Row
            BY <2>0, <3>1 DEF TypeOK
        <3>3. Booked' = [Booked EXCEPT ![r].state = "settled", ![r].charged = Charge(s)]
            BY <2>0, <3>1, <3>2 DEF Booked, TypeOK, Row
        <3>4. Booked[r] = [state |-> "open", month |-> rows[r].month,
                           amount |-> rows[r].amount, charged |-> charged[r]]
            BY <3>1 DEF Booked
        <3>5. Ledger!Settle(r, Charge(s))
            BY <3>1, <3>2, <3>3, <3>4 DEF Ledger!Settle, Row
        <3> QED BY <3>1, <3>4, <3>5 DEF Ledger!LedgerNext
    <2>3. CASE ~(\E s \in Sessions : CommitReserve(s) \/ CommitSettle(s))
        BY <1>2, <2>3, OnlyCommitsWrite DEF Ledger!ledgerVars, Booked
    <2> QED BY <2>1, <2>2, <2>3
<1> QED BY <1>1, <1>2, Inductive, PTL DEF Spec, ImplementsLedger, Ledger!LedgerSpec
=============================================================================
