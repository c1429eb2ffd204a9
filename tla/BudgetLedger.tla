---------------------------- MODULE BudgetLedger ----------------------------
(***************************************************************************)
(* PostgresBudgetLedger (adapters/operations.py) at the level of its SQL     *)
(* statements.  Every reserve() and settle() is a READ COMMITTED             *)
(* transaction of several statements; transactions of different sessions     *)
(* interleave between statements and are ordered only by the row locks that  *)
(* `with_for_update` and the month insert take.  A transaction writes what   *)
(* it computed from the values it read when it took the lock, so an update   *)
(* is lost whenever a lock is missing.                                       *)
(*                                                                           *)
(* A session is a database connection used by a thread of the web server, of *)
(* the benchmark or of the judge.  A transaction may end early at any        *)
(* statement (statement_timeout, a broken connection), and the               *)
(* acknowledgement of a commit may be lost.                                  *)
(***************************************************************************)
EXTENDS Naturals, FiniteSets, Functions

CONSTANTS
    Sessions,       \* database connections
    Reservations,   \* the identifiers uuid4 can draw
    Months,         \* calendar months, ordered
    Limit,          \* monthly_limit, in the smallest unit of money
    Costs,          \* the maximum costs callers reserve
    None            \* Python's None: no identifier, or an unknown actual_cost

ASSUME MonthsAssumption == Months \subseteq Nat
ASSUME LimitAssumption == Limit \in Nat \ {0}
ASSUME CostsAssumption == Costs \subseteq Nat \ {0}
\* uuid4 draws from 2^122 identifiers.
ASSUME ReservationsAssumption == IsFiniteSet(Reservations)
ASSUME NoneAssumption == None \notin Nat /\ None \notin Reservations

VARIABLES
    month,          \* the current month of the clock
    opened,         \* the months with a committed budget_months row
    budget,         \* the committed budget_months rows
    rows,           \* the committed budget_reservations rows
    tx,             \* the transaction each session is in
    known,          \* the identifiers reserve() has returned and settle() may get
    charged         \* history: what settle() charged for each reservation

vars == <<month, opened, budget, rows, tx, known, charged>>

Money == [spent : Nat, reserved : Nat]
Row == [state : {"absent", "open", "settled"}, month : Nat, amount : Nat]

\* The steps name the statement a transaction executes next.
ReserveSteps == {"insert", "lock", "decide", "return"}
SettleSteps == {"find", "lockMonth", "charge"}
Transaction ==
    [step : {"idle"} \cup ReserveSteps \cup SettleSteps,
     id : Reservations \cup {None},
     month : Nat,
     cost : Nat \cup {None},  \* maximum_cost of reserve(), actual_cost of settle()
     inserted : SUBSET Months,   \* budget_months rows it inserted, uncommitted
     seen : Money]               \* the budget_months row as read under the lock

Absent == [state |-> "absent", month |-> 0, amount |-> 0]
Zero == [spent |-> 0, reserved |-> 0]
Begin(step, id, m, cost) ==
    [step |-> step, id |-> id, month |-> m, cost |-> cost, inserted |-> {}, seen |-> Zero]
Idle == Begin("idle", None, 0, 0)

TypeOK ==
    /\ month \in Months
    /\ opened \subseteq Months
    /\ budget \in [Months -> Money]
    /\ rows \in [Reservations -> Row]
    /\ tx \in [Sessions -> Transaction]
    /\ known \subseteq Reservations
    /\ charged \in [Reservations -> Nat]

Init ==
    /\ month \in Months
    /\ opened = {}
    /\ budget = [m \in Months |-> Zero]
    /\ rows = [r \in Reservations |-> Absent]
    /\ tx = [s \in Sessions |-> Idle]
    /\ known = {}
    /\ charged = [r \in Reservations |-> 0]

-----------------------------------------------------------------------------
(* The locks a transaction holds until it ends.                             *)

\* An uncommitted insert of the month makes other inserts of it wait.
HoldsInsert(s, m) == m \in tx[s].inserted
\* SELECT ... FOR UPDATE of the budget_months row.
HoldsMonth(s, m) == tx[s].step \in {"decide", "charge"} /\ tx[s].month = m
\* SELECT ... FOR UPDATE of the budget_reservations row.
HoldsReservation(s, r) == tx[s].step \in {"lockMonth", "charge"} /\ tx[s].id = r

FreeToInsert(s, m) == \A t \in Sessions \ {s} : ~HoldsInsert(t, m)
\* Mutant: the update does not lock the month's row.
FreeMonthUnlocked(s, m) == TRUE
\* Mutant: the row is locked through a second connection, which waits for the first.
FreeMonthElsewhere(s, m) == \A t \in Sessions : ~HoldsMonth(t, m) /\ ~HoldsInsert(t, m)
FreeMonth(s, m) == \A t \in Sessions \ {s} : ~HoldsMonth(t, m)
\* Mutant: settle() reads the reservation without locking it.
FreeReservationUnlocked(s, r) == TRUE
FreeReservation(s, r) == \A t \in Sessions \ {s} : ~HoldsReservation(t, r)

Advance(s, step) == tx' = [tx EXCEPT ![s].step = step]
End(s) == tx' = [tx EXCEPT ![s] = Idle]

-----------------------------------------------------------------------------
(* reserve(maximum_cost)                                                    *)

Fresh(r) == rows[r].state = "absent" /\ \A s \in Sessions : tx[s].id # r

\* The month is read from the clock before the transaction starts.
BeginReserve(s, r, cost) ==
    /\ tx[s].step = "idle"
    /\ Fresh(r)
    /\ tx' = [tx EXCEPT ![s] = Begin("insert", r, month, cost)]
    /\ UNCHANGED <<month, opened, budget, rows, known, charged>>

\* INSERT ... ON CONFLICT DO NOTHING
InsertMonth(s) ==
    /\ tx[s].step = "insert"
    /\ FreeToInsert(s, tx[s].month)
    /\ tx' = [tx EXCEPT ![s].step = "lock", ![s].inserted = {tx[s].month} \ opened]
    /\ UNCHANGED <<month, opened, budget, rows, known, charged>>

LockToReserve(s) ==
    /\ tx[s].step = "lock"
    /\ FreeMonth(s, tx[s].month)
    /\ tx' = [tx EXCEPT ![s].step = "decide", ![s].seen = budget[tx[s].month]]
    /\ UNCHANGED <<month, opened, budget, rows, known, charged>>

\* Mutant: what is reserved for calls in flight is not counted.
FitsSpentOnly(s) == tx[s].seen.spent + tx[s].cost =< Limit
Fits(s) == tx[s].seen.spent + tx[s].seen.reserved + tx[s].cost =< Limit

\* Mutant: the caller gets the identifier although nothing was booked.
RefuseReserveReturns(s) ==
    /\ tx[s].step = "decide"
    /\ ~Fits(s)
    /\ known' = known \cup {tx[s].id}
    /\ End(s)
    /\ UNCHANGED <<month, opened, budget, rows, charged>>
\* BudgetExceeded rolls back the whole transaction, the inserted month included.
RefuseReserve(s) ==
    /\ tx[s].step = "decide"
    /\ ~Fits(s)
    /\ End(s)
    /\ UNCHANGED <<month, opened, budget, rows, known, charged>>

\* The flush updates only the column that changed, to a value computed by the client.
CommitReserve(s) ==
    LET t == tx[s] IN
    /\ t.step = "decide"
    /\ Fits(s)
    /\ budget' = [budget EXCEPT ![t.month].reserved = t.seen.reserved + t.cost]
    /\ rows' = [rows EXCEPT ![t.id] = [state |-> "open", month |-> t.month, amount |-> t.cost]]
    /\ opened' = opened \cup t.inserted
    /\ tx' = [tx EXCEPT ![s].step = "return", ![s].inserted = {}]
    /\ UNCHANGED <<month, known, charged>>

ReturnReserve(s) ==
    /\ tx[s].step = "return"
    /\ known' = known \cup {tx[s].id}
    /\ End(s)
    /\ UNCHANGED <<month, opened, budget, rows, charged>>

-----------------------------------------------------------------------------
(* settle(reservation_id, actual_cost)                                      *)

\* Callers price a call from its token counts, and the maximum bounds those.
BeginSettle(s, r, actual) ==
    /\ tx[s].step = "idle"
    /\ r \in known
    /\ tx' = [tx EXCEPT ![s] = Begin("find", r, 0, actual)]
    /\ UNCHANGED <<month, opened, budget, rows, known, charged>>

\* Mutant: a settled reservation is settled again.
LockReservationAgain(s) ==
    /\ tx[s].step = "find"
    /\ FreeReservation(s, tx[s].id)
    /\ tx' = [tx EXCEPT ![s].step = "lockMonth", ![s].month = rows[tx[s].id].month]
    /\ UNCHANGED <<month, opened, budget, rows, known, charged>>
\* Mutant: the charge goes to the month of the clock, not of the reservation.
LockReservationNow(s) ==
    /\ tx[s].step = "find"
    /\ FreeReservation(s, tx[s].id)
    /\ \/ rows[tx[s].id].state = "settled" /\ End(s)
       \/ /\ rows[tx[s].id].state = "open"
          /\ tx' = [tx EXCEPT ![s].step = "lockMonth", ![s].month = month]
    /\ UNCHANGED <<month, opened, budget, rows, known, charged>>

LockReservation(s) ==
    /\ tx[s].step = "find"
    /\ FreeReservation(s, tx[s].id)
    /\ \/ rows[tx[s].id].state = "settled" /\ End(s)
       \/ /\ rows[tx[s].id].state = "open"
          /\ tx' = [tx EXCEPT ![s].step = "lockMonth", ![s].month = rows[tx[s].id].month]
    /\ UNCHANGED <<month, opened, budget, rows, known, charged>>

LockToSettle(s) ==
    /\ tx[s].step = "lockMonth"
    /\ FreeMonth(s, tx[s].month)
    /\ tx' = [tx EXCEPT ![s].step = "charge", ![s].seen = budget[tx[s].month]]
    /\ UNCHANGED <<month, opened, budget, rows, known, charged>>

\* Mutant: spent is corrected by the difference to the amount held.
ChargeDifference(s) == IF tx[s].cost = None THEN 0 ELSE tx[s].cost - rows[tx[s].id].amount
\* An unknown outcome is charged in full: a call that timed out may still be billed.
Charge(s) == IF tx[s].cost = None THEN rows[tx[s].id].amount ELSE tx[s].cost

\* The CHECK constraint of budget_months refuses a negative balance.
CommitSettle(s) ==
    LET t == tx[s] IN
    /\ t.step = "charge"
    /\ t.seen.reserved >= rows[t.id].amount
    /\ budget' = [budget EXCEPT ![t.month] =
                      [spent    |-> t.seen.spent + Charge(s),
                       reserved |-> t.seen.reserved - rows[t.id].amount]]
    /\ rows' = [rows EXCEPT ![t.id].state = "settled"]
    /\ charged' = [charged EXCEPT ![t.id] = Charge(s)]
    /\ End(s)
    /\ UNCHANGED <<month, opened, known>>

-----------------------------------------------------------------------------
(* Failures and the clock.                                                  *)

\* A statement fails or times out, or the connection breaks: everything the
\* transaction wrote is undone.  At "return" the commit already happened and
\* only its acknowledgement is lost: nobody will ever learn the identifier.
Abort(s) ==
    /\ tx[s].step # "idle"
    /\ End(s)
    /\ UNCHANGED <<month, opened, budget, rows, known, charged>>

\* The application stops: the identifiers its threads held are gone.
Crash ==
    /\ tx' = [s \in Sessions |-> Idle]
    /\ known' = {}
    /\ UNCHANGED <<month, opened, budget, rows, charged>>

TurnMonth ==
    /\ \E later \in Months : later > month /\ month' = later
    /\ UNCHANGED <<opened, budget, rows, tx, known, charged>>

ReserveStep(s) ==
    \/ InsertMonth(s)
    \/ LockToReserve(s)
    \/ RefuseReserve(s)
    \/ CommitReserve(s)
    \/ ReturnReserve(s)

SettleStep(s) == LockReservation(s) \/ LockToSettle(s) \/ CommitSettle(s)

Next ==
    \/ \E s \in Sessions :
        \/ \E r \in Reservations, cost \in Costs : BeginReserve(s, r, cost)
        \/ \E r \in Reservations : \E actual \in (0..rows[r].amount) \cup {None} :
               BeginSettle(s, r, actual)
        \/ ReserveStep(s)
        \/ SettleStep(s)
        \/ Abort(s)
    \/ Crash
    \/ TurnMonth

Spec == Init /\ [][Next]_vars

\* A client thread always runs its next statement, and PostgreSQL queues the
\* waiters of a lock: no transaction is passed over for ever.
Fairness == \A s \in Sessions : SF_vars(ReserveStep(s)) /\ SF_vars(SettleStep(s))
FairSpec == Spec /\ Fairness
-----------------------------------------------------------------------------
(* What makes the ledger correct.                                           *)

\* Whatever reserve() and settle() calls overlap, what a month has spent and
\* what it holds for calls in flight never exceed monthly_limit together.
Ceiling == \A m \in Months : budget[m].spent + budget[m].reserved =< Limit

Those(state, m) == {r \in Reservations : rows[r].state = state /\ rows[r].month = m}
Amounts == [r \in Reservations |-> rows[r].amount]

\* The two totals of a month always agree with the reservation rows: reserved is
\* the sum of the open amounts, spent the sum of what settle() charged, each in
\* the month the reservation was made in, whatever the clock says by then.
Reconciled ==
    \A m \in Months :
        /\ budget[m].reserved = SumFunctionOnSet(Amounts, Those("open", m))
        /\ budget[m].spent = SumFunctionOnSet(charged, Those("settled", m))

\* Two transactions never hold the same row, and a value read under a lock is
\* still the committed one when the transaction writes back what it computed
\* from it; so no update is lost and no reservation is refused on a stale total.
LocksProtect ==
    /\ \A s, t \in Sessions : s # t =>
           /\ \A m \in Months : ~(HoldsMonth(s, m) /\ HoldsMonth(t, m))
           /\ \A m \in Months : ~(HoldsInsert(s, m) /\ HoldsInsert(t, m))
           /\ \A r \in Reservations : ~(HoldsReservation(s, r) /\ HoldsReservation(t, r))
    /\ \A s \in Sessions :
           /\ tx[s].step \in {"decide", "charge"} => tx[s].seen = budget[tx[s].month]
           /\ tx[s].step \in {"lockMonth", "charge"} => rows[tx[s].id].state = "open"

\* A caller always gets an identifier that settle() will find, and a month that
\* was never opened carries no money.
KnownIsBooked ==
    /\ \A r \in known : rows[r].state # "absent"
    /\ \A r \in Reservations : rows[r].state # "absent" => rows[r].month \in opened
    /\ \A m \in Months \ opened : budget[m] = Zero

\* A reservation is charged once: no later settle() of it, from a retry or from
\* another thread, changes its row, and money spent is never handed back.
ChargedOnce ==
    [][/\ \A r \in Reservations : rows[r].state = "settled" =>
              rows'[r] = rows[r] /\ charged'[r] = charged[r]
       /\ \A m \in Months : budget'[m].spent >= budget[m].spent]_vars

\* Every reserve() and settle() comes to an end: the order in which transactions
\* take their locks leaves no cycle of waiters.
TransactionsEnd == \A s \in Sessions : tx[s].step # "idle" ~> tx[s].step = "idle"

\* The transactions implement the indivisible operations of SpendingLedger.
Booked == [r \in Reservations |-> [state   |-> rows[r].state,
                                   month   |-> rows[r].month,
                                   amount  |-> rows[r].amount,
                                   charged |-> charged[r]]]

Ledger == INSTANCE SpendingLedger WITH account <- budget, booking <- Booked

\* reserve() and settle() are atomic: each step of a transaction is one
\* indivisible reservation, one settlement, or invisible.
ImplementsLedger == Ledger!LedgerSpec
=============================================================================
