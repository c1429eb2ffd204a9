--------------------------- MODULE SpendingLedger ---------------------------
(***************************************************************************)
(* What the budget ledger promises to the code that pays for model calls:   *)
(* the protocol `BudgetLedger` of application/ports.py, each operation       *)
(* one indivisible step.  A reservation sets money of one month aside, and   *)
(* only when the month can still afford it; settling it turns the held       *)
(* amount into a charge that is never larger.                                *)
(*                                                                           *)
(* BudgetLedger.tla shows that the SQL transactions of                       *)
(* PostgresBudgetLedger implement this, and ProviderCalls.tla uses it.       *)
(***************************************************************************)
EXTENDS Naturals, FiniteSets

CONSTANTS
    Reservations,   \* the identifiers uuid4 can draw
    Months,         \* calendar months, ordered
    Limit,          \* monthly_limit, in the smallest unit of money
    Costs           \* the maximum costs callers reserve

ASSUME MonthsAssumption == Months \subseteq Nat
ASSUME LimitAssumption == Limit \in Nat \ {0}
ASSUME CostsAssumption == Costs \subseteq Nat \ {0}
\* uuid4 draws from 2^122 identifiers.
ASSUME ReservationsAssumption == IsFiniteSet(Reservations)

VARIABLES
    account,        \* money of each month: spent and reserved
    booking         \* what became of each reservation

ledgerVars == <<account, booking>>

Account == [spent : Nat, reserved : Nat]
Booking == [state : {"absent", "open", "settled"}, month : Nat, amount : Nat, charged : Nat]

Absent == [state |-> "absent", month |-> 0, amount |-> 0, charged |-> 0]

LedgerTypeOK ==
    /\ account \in [Months -> Account]
    /\ booking \in [Reservations -> Booking]

LedgerInit ==
    /\ account = [m \in Months |-> [spent |-> 0, reserved |-> 0]]
    /\ booking = [r \in Reservations |-> Absent]

Affordable(m, cost) == account[m].spent + account[m].reserved + cost =< Limit

Reserve(r, m, cost) ==
    /\ booking[r].state = "absent"
    /\ Affordable(m, cost)
    /\ account' = [account EXCEPT ![m].reserved = @ + cost]
    /\ booking' = [booking EXCEPT ![r] = [state |-> "open", month |-> m,
                                          amount |-> cost, charged |-> 0]]

Settle(r, charge) ==
    /\ booking[r].state = "open"
    /\ charge =< booking[r].amount
    /\ account' = [account EXCEPT ![booking[r].month] =
                       [spent    |-> @.spent + charge,
                        reserved |-> @.reserved - booking[r].amount]]
    /\ booking' = [booking EXCEPT ![r].state = "settled", ![r].charged = charge]

LedgerNext ==
    \E r \in Reservations :
        \/ \E m \in Months, cost \in Costs : Reserve(r, m, cost)
        \/ \E charge \in 0..booking[r].amount : Settle(r, charge)

LedgerSpec == LedgerInit /\ [][LedgerNext]_ledgerVars
=============================================================================
