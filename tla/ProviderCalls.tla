---------------------------- MODULE ProviderCalls ---------------------------
(***************************************************************************)
(* The paid calls of the application: MistralGenerator.generate              *)
(* (adapters/generation.py), called by the threads that answer questions,    *)
(* and the loop of run_judge (adapters/judging.py), a second process on the  *)
(* same ledger that rates one held-out item after the other.                 *)
(*                                                                           *)
(* A call books its maximum cost, sends one request (max_retries=0), and in  *)
(* a `finally` settles what it knows of the cost.  The provider is external: *)
(* it may answer, break off, or work on after the client timed out, and it   *)
(* bills what it used.  Pricing.tla shows why a bill is at most the maximum. *)
(***************************************************************************)
EXTENDS SpendingLedger, FiniteSets, Functions

CONSTANTS
    Answers,        \* calls for questions, one per request
    Items,          \* calls of the judge, numbered in the order it makes them
    AnswerMaximum,  \* MistralGenerator.MAXIMUM_COST
    JudgeMaximum,   \* what run_judge reserves for an item
    None

Calls == Answers \cup Items
Maximum(c) == IF c \in Items THEN JudgeMaximum ELSE AnswerMaximum

ASSUME ItemsAssumption == Items \subseteq Nat
ASSUME MaximumAssumption == Costs = {AnswerMaximum, JudgeMaximum}
ASSUME NoneAssumption == None \notin Nat /\ None \notin Reservations

VARIABLES
    month,          \* the current month of the clock
    call,           \* how far each call is
    atProvider,     \* the calls whose request the provider is working on
    billed,         \* what the provider bills for each call
    reported,       \* history: the calls whose reply carried usage metadata
    metered         \* the counter Metrics.cost of the web process

vars == <<account, booking, month, call, atProvider, billed, reported, metered>>

Steps == {"idle", "reserve", "send", "wait", "settle", "deliver", "done"}
\* "draft" is the only outcome before "deliver" that can still become an answer.
Outcomes == {"none", "draft", "answered", "rated", "invalid", "unavailable",
             "budget", "failed", "lost"}
Call == [step : Steps,
         reservation : Reservations \cup {None},
         actual : Nat \cup {None},     \* actual_cost, None while it is unknown
         outcome : Outcomes]

TypeOK ==
    /\ LedgerTypeOK
    /\ month \in Months
    /\ call \in [Calls -> Call]
    /\ atProvider \subseteq Calls
    /\ billed \in [Calls -> Nat]
    /\ reported \subseteq Calls
    /\ metered \in Nat

Init ==
    /\ LedgerInit
    /\ month \in Months
    /\ call = [c \in Calls |-> [step |-> "idle", reservation |-> None,
                                actual |-> None, outcome |-> "none"]]
    /\ atProvider = {}
    /\ billed = [c \in Calls |-> 0]
    /\ reported = {}
    /\ metered = 0

Go(c, step) == call' = [call EXCEPT ![c].step = step]
End(c, outcome) == call' = [call EXCEPT ![c].step = "done", ![c].outcome = outcome]
\* Mutant: the reservation is settled after a draft only, not in a `finally`.
LeaveUnsettled(c, actual, outcome) ==
    call' = [call EXCEPT ![c].step = IF outcome = "draft" THEN "settle" ELSE "deliver",
                         ![c].actual = actual, ![c].outcome = outcome]
\* What is left of the try block: `finally` settles with what is known by now.
Leave(c, actual, outcome) ==
    call' = [call EXCEPT ![c].step = "settle", ![c].actual = actual, ![c].outcome = outcome]

ledgerUnchanged == UNCHANGED ledgerVars

-----------------------------------------------------------------------------
(* Before the request is sent.                                              *)

\* The judge starts an item when the one before it was rated.
Begin(c) ==
    /\ call[c].step = "idle"
    /\ c \in Items => \A i \in Items : i < c => call[i].outcome = "rated"
    /\ Go(c, "reserve")
    /\ UNCHANGED <<month, atProvider, billed, reported, metered>> /\ ledgerUnchanged

\* The payload exceeds its byte limit: nothing is booked.
Oversized(c) ==
    /\ call[c].step = "reserve"
    /\ End(c, "invalid")
    /\ UNCHANGED <<month, atProvider, billed, reported, metered>> /\ ledgerUnchanged

BookCall(c) ==
    /\ call[c].step = "reserve"
    /\ \E r \in Reservations :
        /\ Reserve(r, month, Maximum(c))
        /\ call' = [call EXCEPT ![c].step = "send", ![c].reservation = r]
    /\ UNCHANGED <<month, atProvider, billed, reported, metered>>

RefuseCall(c) ==
    /\ call[c].step = "reserve"
    /\ ~Affordable(month, Maximum(c))
    /\ End(c, "budget")
    /\ UNCHANGED <<month, atProvider, billed, reported, metered>> /\ ledgerUnchanged

\* reserve() fails in the database, perhaps after its commit: then the money is
\* held and no caller knows the identifier.
BookingFails(c) ==
    /\ call[c].step = "reserve"
    /\ End(c, "failed")
    /\ ledgerUnchanged \/ \E r \in Reservations : Reserve(r, month, Maximum(c))
    /\ UNCHANGED <<month, atProvider, billed, reported, metered>>

-----------------------------------------------------------------------------
(* The request.                                                             *)

Send(c) ==
    /\ call[c].step = "send"
    /\ Go(c, "wait")
    /\ atProvider' = atProvider \cup {c}
    /\ UNCHANGED <<month, billed, reported, metered>> /\ ledgerUnchanged

\* The request never reached the provider.
SendFails(c) ==
    /\ call[c].step = "send"
    /\ Leave(c, None, "unavailable")
    /\ UNCHANGED <<month, atProvider, billed, reported, metered>> /\ ledgerUnchanged

\* The provider finishes and bills, and its reply reaches the waiting client.  A
\* reply with usage metadata makes the bill the actual cost.  Without it, _usage
\* takes the maximum and the judge leaves the cost unknown.  A reply that breaks
\* the code that reads it leaves the cost unknown too.
\* Mutant: the cost is read after the parsing error is raised.
ReplyForgetsCost(c, bill) ==
    /\ call[c].step = "wait"
    /\ atProvider' = atProvider \ {c}
    /\ billed' = [billed EXCEPT ![c] = bill]
    /\ Leave(c, None, "invalid")
    /\ reported' = reported \cup {c}
    /\ UNCHANGED <<month, metered>> /\ ledgerUnchanged
Reply(c, bill) ==
    /\ call[c].step = "wait"
    /\ atProvider' = atProvider \ {c}
    /\ billed' = [billed EXCEPT ![c] = bill]
    /\ \/ /\ \E outcome \in {"draft", "invalid"} : Leave(c, bill, outcome)
          /\ reported' = reported \cup {c}
       \/ /\ \E outcome \in {"draft", "invalid"} :
                 Leave(c, IF c \in Items THEN None ELSE Maximum(c), outcome)
          /\ UNCHANGED reported
       \/ /\ Leave(c, None, "unavailable")
          /\ UNCHANGED reported
    /\ UNCHANGED <<month, metered>> /\ ledgerUnchanged

\* Mutant: a call that timed out is taken to cost nothing.
TimeoutFree(c) ==
    /\ call[c].step = "wait"
    /\ Leave(c, 0, "unavailable")
    /\ UNCHANGED <<month, atProvider, billed, reported, metered>> /\ ledgerUnchanged

\* The client gives up; the provider does not know.
Timeout(c) ==
    /\ call[c].step = "wait"
    /\ Leave(c, None, "unavailable")
    /\ UNCHANGED <<month, atProvider, billed, reported, metered>> /\ ledgerUnchanged

\* The provider finishes a request nobody waits for any more, and bills it.
LateBill(c, bill) ==
    /\ c \in atProvider
    /\ call[c].step # "wait"
    /\ atProvider' = atProvider \ {c}
    /\ billed' = [billed EXCEPT ![c] = bill]
    /\ UNCHANGED <<month, call, reported, metered>> /\ ledgerUnchanged

-----------------------------------------------------------------------------
(* After the request.                                                       *)

\* Mutant: an unknown cost settles as zero.
ChargeOfKnown(c) == IF call[c].actual = None THEN 0 ELSE call[c].actual
ChargeOf(c) == IF call[c].actual = None THEN booking[call[c].reservation].amount
                                        ELSE call[c].actual

SettleCall(c) ==
    /\ call[c].step = "settle"
    /\ Settle(call[c].reservation, ChargeOf(c))
    /\ Go(c, "deliver")
    /\ UNCHANGED <<month, atProvider, billed, reported, metered>>

\* settle() raises inside `finally` and its error replaces whatever the call
\* had; the database may have committed before the connection broke.
SettleFails(c) ==
    /\ call[c].step = "settle"
    /\ End(c, "failed")
    /\ ledgerUnchanged \/ Settle(call[c].reservation, ChargeOf(c))
    /\ UNCHANGED <<month, atProvider, billed, reported, metered>>

\* The error of the call reaches the client, and is not metered.
DeliverError(c) ==
    /\ call[c].step = "deliver"
    /\ call[c].outcome # "draft"
    /\ End(c, call[c].outcome)
    /\ UNCHANGED <<month, atProvider, billed, reported, metered>> /\ ledgerUnchanged

\* A draft is lost after it was paid: validate_citations rejects it, or cache.put
\* fails in the database.
LoseAnswer(c) ==
    /\ call[c].step = "deliver"
    /\ call[c].outcome = "draft"
    /\ c \in Answers
    /\ \E outcome \in {"invalid", "failed"} : End(c, outcome)
    /\ UNCHANGED <<month, atProvider, billed, reported, metered>> /\ ledgerUnchanged

\* _run_answer counts the usage of a complete answer, the maximum when the reply
\* had none; the judge goes on to its next item.
Deliver(c) ==
    /\ call[c].step = "deliver"
    /\ call[c].outcome = "draft"
    /\ IF c \in Answers THEN End(c, "answered") /\ metered' = metered + ChargeOf(c)
                        ELSE End(c, "rated") /\ UNCHANGED metered
    /\ UNCHANGED <<month, atProvider, billed, reported>> /\ ledgerUnchanged

\* A process stops in the middle of its calls; no `finally` runs, and the
\* counters of the web process start again from zero.
Stop(process) ==
    /\ \E c \in process : call[c].step \notin {"idle", "done"}
    /\ call' = [c \in Calls |->
                   IF c \in process /\ call[c].step \notin {"idle", "done"}
                   THEN [call[c] EXCEPT !.step = "done", !.outcome = "lost"]
                   ELSE call[c]]
    /\ metered' = IF process = Answers THEN 0 ELSE metered
    /\ UNCHANGED <<month, atProvider, billed, reported>> /\ ledgerUnchanged

TurnMonth ==
    /\ \E later \in Months : later > month /\ month' = later
    /\ UNCHANGED <<call, atProvider, billed, reported, metered>> /\ ledgerUnchanged

ClientStep(c) ==
    \/ Oversized(c) \/ BookCall(c) \/ RefuseCall(c) \/ BookingFails(c)
    \/ Send(c) \/ SendFails(c) \/ Timeout(c)
    \/ SettleCall(c) \/ SettleFails(c)
    \/ DeliverError(c) \/ LoseAnswer(c) \/ Deliver(c)

Next ==
    \/ \E c \in Calls :
        \/ Begin(c)
        \/ ClientStep(c)
        \/ \E bill \in 0..Maximum(c) : Reply(c, bill) \/ LateBill(c, bill)
    \/ Stop(Answers)
    \/ Stop(Items)
    \/ TurnMonth

Spec == Init /\ [][Next]_vars

-----------------------------------------------------------------------------
(* What makes the calls affordable.                                         *)

BookedIn(m) == {c \in Calls : \E r \in Reservations : call[c].reservation = r /\ booking[r].month = m}

\* The provider's bills for the calls booked in a month never exceed the monthly
\* limit, not even while some are in flight, timed out or lost in a crash.
BillsWithinLimit ==
    \A m \in Months : SumFunctionOnSet(billed, BookedIn(m)) =< Limit

\* Each call is covered by its own reservation: a request the provider has, or
\* has billed, is held or charged for at least that much; and a call the
\* provider is still working on is held or charged at its maximum.
EveryBillCovered ==
    \A c \in Calls :
        c \in atProvider \/ billed[c] > 0 =>
            LET b == booking[call[c].reservation] IN
            /\ call[c].reservation # None
            /\ b.state = "open" \/ b.charged >= billed[c]
            /\ c \in atProvider => b.state = "open" \/ b.charged = Maximum(c)

\* A reported usage is settled exactly: the month pays what the provider billed,
\* no more and no less, also when the reply was useless or the answer was lost.
ReportedUsageExact ==
    \A c \in reported : LET b == booking[call[c].reservation] IN
        b.state = "settled" => b.charged = billed[c]

\* The open reservations that no call is working on, and the calls that failed in the
\* database or whose process stopped.
Working == {c \in Calls : call[c].step \in {"send", "wait", "settle"}}
Held == {r \in Reservations : booking[r].state = "open"} \ {call[c].reservation : c \in Working}
Failed == {c \in Calls : call[c].outcome \in {"failed", "lost"}}

\* Money stays held for good only after a failure, and once per failure.
HeldOnlyAfterFailure == Cardinality(Held) =< Cardinality(Failed)

\* "Prometheus metrics expose ... provider token/cost totals" (docs/deployment.md):
\* when no question is in progress, no process stopped and the database did not
\* fail, the counter holds at least what the provider reported for the questions.
ReportedCostIsMetered ==
    (\A c \in Answers : call[c].step \in {"idle", "done"} /\ call[c].outcome \notin {"failed", "lost"}) =>
        metered >= SumFunctionOnSet(billed, Answers \cap reported)
=============================================================================
