------------------------- MODULE ProviderCallsProofs -------------------------
(***************************************************************************)
(* Proofs about ProviderCalls: for any number of calls, reservations and     *)
(* months and any prices.                                                    *)
(***************************************************************************)
EXTENDS ProviderCalls, Pricing, Sums, TLAPS

\* The types of what the bills depend on; the totals of the months are
\* BudgetLedger's subject.
Typed ==
    /\ booking \in [Reservations -> Booking]
    /\ month \in Months
    /\ call \in [Calls -> Call]
    /\ billed \in [Calls -> Nat]
    /\ reported \subseteq Calls

\* Two calls never share a reservation.
OwnReservation ==
    \A c, d \in Calls : call[c].reservation # None /\ call[c].reservation = call[d].reservation => c = d

\* What is known of a call k with the maximum m, its booking b, its bill, and whether
\* the provider is working on it and has reported its usage.
CallOK(k, m, b, bill, working, known) ==
    /\ k.step \in {"idle", "reserve"} => k.reservation = None
    /\ k.step \in {"idle", "reserve", "send"} => ~working /\ bill = 0
    /\ k.step \in {"idle", "reserve", "send", "wait"} => ~known /\ bill = 0
    /\ k.step \in {"send", "wait", "settle"} => k.reservation # None /\ b.state = "open"
    /\ k.reservation # None => b.state # "absent" /\ b.amount = m
    /\ bill > 0 => k.reservation # None /\ (b.state = "open" \/ b.charged >= bill)
    /\ working => /\ k.reservation # None /\ bill = 0 /\ ~known
                  /\ b.state = "open" \/ b.charged = m
                  /\ k.step = "settle" => k.actual = None
    /\ k.step = "settle" /\ k.actual # None => k.actual >= bill /\ k.actual =< m
    /\ known => k.reservation # None
    /\ known /\ k.step = "settle" => k.actual = None \/ k.actual = bill
    /\ known /\ k.step = "settle" => k.actual # None
    /\ known /\ b.state = "settled" => b.charged = bill
    /\ bill =< m

\* The booking of a call; Absent for one that has none.
BookingOf(c) == IF call[c].reservation = None THEN Absent ELSE booking[call[c].reservation]

CallsOK == \A c \in Calls :
    CallOK(call[c], Maximum(c), BookingOf(c), billed[c], c \in atProvider, c \in reported)

IInv == Typed /\ OwnReservation /\ CallsOK

\* What a call reserves is a positive sum.
LEMMA MaximumType == \A c \in Calls : Maximum(c) \in Nat \ {0} /\ Maximum(c) \in Costs
BY MaximumAssumption, CostsAssumption DEF Maximum

\* It holds initially.
LEMMA InitIInv == Init => IInv
<1> SUFFICES ASSUME Init PROVE IInv
  OBVIOUS
<1>1. [step |-> "idle", reservation |-> None, actual |-> None, outcome |-> "none"] \in Call
  BY DEF Call, Steps, Outcomes
<1>2. Absent \in Booking
  BY DEF Absent, Booking
<1>3. Typed
  BY <1>1, <1>2 DEF Init, LedgerInit, Typed
<1>4. OwnReservation
  BY DEF Init, OwnReservation
<1>5. ASSUME NEW c \in Calls
      PROVE CallOK(call[c], Maximum(c), BookingOf(c), billed[c], c \in atProvider, c \in reported)
  <2>1. call[c].step = "idle" /\ call[c].reservation = None /\ call[c].actual = None
        /\ billed[c] = 0 /\ c \notin atProvider /\ c \notin reported
    BY DEF Init
  <2>2. Maximum(c) \in Nat
    BY MaximumType
  <2>3. BookingOf(c) = Absent
    BY <2>1 DEF BookingOf
  <2> QED
    BY <2>1, <2>2, <2>3 DEF CallOK, Absent
<1> QED
  BY <1>3, <1>4, <1>5 DEF IInv, CallsOK

-----------------------------------------------------------------------------
(* Most steps change one call and nothing of the others.                    *)

\* The step of one call: what others booked and what they are billed stays as it is.
Advances(c, k) ==
    /\ call' = [call EXCEPT ![c] = k] /\ k \in Call
    /\ \/ k.reservation = call[c].reservation
       \/ k.reservation \in Reservations /\ booking[k.reservation].state = "absent"
    /\ \A r \in Reservations :
           r # k.reservation /\ booking[r].state # "absent" => booking'[r] = booking[r]
    /\ \A d \in Calls \ {c} : /\ billed'[d] = billed[d]
                              /\ d \in atProvider' <=> d \in atProvider
                              /\ d \in reported' <=> d \in reported

\* A step of one call that leaves it right keeps the invariant.
LEMMA AdvanceSound ==
    ASSUME IInv, NEW c \in Calls, NEW k, Advances(c, k),
           booking' \in [Reservations -> Booking], month' \in Months,
           billed' \in [Calls -> Nat], reported' \subseteq Calls,
           CallOK(k, Maximum(c), IF k.reservation = None THEN Absent ELSE booking'[k.reservation],
                  billed'[c], c \in atProvider', c \in reported')
    PROVE  IInv'
<1>1. \A d \in Calls : call'[d] = IF d = c THEN k ELSE call[d]
  BY DEF Advances, IInv, Typed
<1>2. Typed'
  BY DEF Advances, IInv, Typed
<1>3. \A d \in Calls : call[d].reservation # None =>
          call[d].reservation \in Reservations /\ booking[call[d].reservation].state # "absent"
  BY DEF IInv, Typed, Call, CallsOK, CallOK, BookingOf
<1>4. \A d \in Calls \ {c} : call[d].reservation # None => call[d].reservation # k.reservation
  BY <1>3 DEF Advances, IInv, OwnReservation
<1>5. OwnReservation'
  <2> SUFFICES ASSUME NEW d \in Calls, NEW e \in Calls, call'[d].reservation # None,
                      call'[d].reservation = call'[e].reservation
               PROVE  d = e
    BY DEF OwnReservation
  <2> QED
    BY <1>1, <1>4 DEF IInv, OwnReservation
<1>6. ASSUME NEW d \in Calls
      PROVE CallOK(call'[d], Maximum(d), BookingOf(d)', billed'[d], d \in atProvider', d \in reported')
  <2>1. CASE d = c
    BY <1>1, <2>1 DEF BookingOf
  <2>2. CASE d # c
    <3>1. call'[d] = call[d] /\ billed'[d] = billed[d]
          /\ (d \in atProvider' <=> d \in atProvider) /\ (d \in reported' <=> d \in reported)
      BY <1>1, <2>2 DEF Advances
    <3>2. BookingOf(d)' = BookingOf(d)
      BY <1>3, <1>4, <2>2, <3>1 DEF Advances, BookingOf
    <3>3. CallOK(call[d], Maximum(d), BookingOf(d), billed[d], d \in atProvider, d \in reported)
      BY DEF IInv, CallsOK
    <3> QED
      BY <3>1, <3>2, <3>3 DEF CallOK
  <2> QED
    BY <2>1, <2>2
<1>7. CallsOK'
  BY <1>6 DEF CallsOK, Maximum
<1> QED
  BY <1>2, <1>5, <1>7 DEF IInv

\* What is known of a call before its step.
LEMMA Known ==
    ASSUME IInv, NEW c \in Calls
    PROVE  /\ call[c] \in Call /\ billed[c] \in Nat /\ BookingOf(c) \in Booking
           /\ CallOK(call[c], Maximum(c), BookingOf(c), billed[c], c \in atProvider, c \in reported)
           /\ call[c].reservation # None =>
                  call[c].reservation \in Reservations /\ BookingOf(c) = booking[call[c].reservation]
           /\ Maximum(c) \in Nat \ {0}
<1>1. call[c] \in Call /\ billed[c] \in Nat /\ Maximum(c) \in Nat \ {0}
  BY MaximumType DEF IInv, Typed
<1>2. call[c].reservation \in Reservations \cup {None}
  BY <1>1 DEF Call
<1>3. BookingOf(c) \in Booking
  BY <1>2 DEF BookingOf, IInv, Typed, Absent, Booking
<1> QED
  BY <1>1, <1>2, <1>3 DEF BookingOf, IInv, CallsOK

\* A call that only goes on, or ends.
LEMMA MoveSound ==
    ASSUME IInv, NEW c \in Calls, NEW step \in {"reserve", "deliver", "done"}, NEW outcome \in Outcomes,
           call' = [call EXCEPT ![c].step = step, ![c].outcome = outcome],
           step = "reserve" => call[c].step = "idle",
           UNCHANGED <<month, billed, atProvider, reported>>,
           booking' \in [Reservations -> Booking],
           \A r \in Reservations : booking[r].state # "absent" => booking'[r] = booking[r]
    PROVE  IInv'
<1> DEFINE k == [call[c] EXCEPT !.step = step, !.outcome = outcome]
<1>1. call[c] \in Call
      /\ CallOK(call[c], Maximum(c), BookingOf(c), billed[c], c \in atProvider, c \in reported)
  BY Known
<1>2. call' = [call EXCEPT ![c] = k]
  BY DEF IInv, Typed
<1>3. k \in Call
  BY <1>1 DEF Call, Steps
<1>4. k.step = step /\ k.reservation = call[c].reservation /\ k.actual = call[c].actual
  BY <1>1 DEF Call
<1> HIDE DEF k
<1>5. (IF k.reservation = None THEN Absent ELSE booking'[k.reservation]) = BookingOf(c)
  BY <1>1, <1>4, Known DEF BookingOf, CallOK
<1>6. CallOK(k, Maximum(c), BookingOf(c), billed[c], c \in atProvider, c \in reported)
  BY <1>1, <1>4 DEF CallOK
<1>7. Advances(c, k)
  BY <1>2, <1>3, <1>4 DEF Advances
<1> QED
  BY <1>5, <1>6, <1>7, AdvanceSound DEF IInv, Typed

-----------------------------------------------------------------------------
(* The ledger's operations.                                                 *)

\* A reservation books the amount on a row that was absent.
LEMMA ReserveBooks ==
    ASSUME IInv, NEW r \in Reservations, NEW c \in Calls, Reserve(r, month, Maximum(c))
    PROVE  /\ booking' \in [Reservations -> Booking] /\ booking[r].state = "absent"
           /\ booking'[r].state = "open" /\ booking'[r].amount = Maximum(c)
           /\ \A q \in Reservations : booking[q].state # "absent" => booking'[q] = booking[q]
<1>1. [state |-> "open", month |-> month, amount |-> Maximum(c), charged |-> 0] \in Booking
  BY MaximumType, MonthsAssumption DEF IInv, Typed, Booking
<1> QED
  BY <1>1 DEF Reserve, IInv, Typed

\* A settlement charges the row it was given and no other.
LEMMA SettleCharges ==
    ASSUME IInv, NEW c \in Calls, call[c].step = "settle", Settle(call[c].reservation, ChargeOf(c))
    PROVE  LET r == call[c].reservation IN
           /\ r \in Reservations /\ booking' \in [Reservations -> Booking]
           /\ booking'[r].state = "settled" /\ booking'[r].amount = Maximum(c)
           /\ booking'[r].charged = IF call[c].actual = None THEN Maximum(c) ELSE call[c].actual
           /\ \A q \in Reservations : q # r => booking'[q] = booking[q]
<1> DEFINE r == call[c].reservation
<1>1. /\ call[c] \in Call /\ r \in Reservations /\ booking[r] \in Booking
      /\ booking[r].amount = Maximum(c) /\ Maximum(c) \in Nat
  BY Known DEF CallOK
<1>2. ChargeOf(c) = (IF call[c].actual = None THEN Maximum(c) ELSE call[c].actual)
      /\ ChargeOf(c) \in Nat
  BY <1>1 DEF ChargeOf, Call
<1>3. booking' = [booking EXCEPT ![r] = [booking[r] EXCEPT !.state = "settled", !.charged = ChargeOf(c)]]
  BY DEF Settle, IInv, Typed
<1>4. [booking[r] EXCEPT !.state = "settled", !.charged = ChargeOf(c)] \in Booking
  BY <1>1, <1>2 DEF Booking
<1> QED
  BY <1>1, <1>2, <1>3, <1>4 DEF Booking, IInv, Typed

-----------------------------------------------------------------------------
(* The steps of a call.                                                     *)

\* A step of a call changes its place and nothing else.
LEMMA GoMoves ==
    ASSUME IInv, NEW c \in Calls, NEW step, Go(c, step)
    PROVE  /\ call' = [call EXCEPT ![c].step = step, ![c].outcome = call[c].outcome]
           /\ call[c].outcome \in Outcomes
BY Known DEF Go, Call, IInv, Typed

\* The steps of a call that book nothing and bill nothing.
LEMMA MovesSound ==
    ASSUME IInv, NEW c \in Calls,
           \/ Begin(c) \/ Oversized(c) \/ RefuseCall(c)
           \/ DeliverError(c) \/ LoseAnswer(c) \/ Deliver(c)
    PROVE  IInv'
<1>1. UNCHANGED <<month, billed, atProvider, reported, booking>>
  BY DEF Begin, Oversized, RefuseCall, DeliverError, LoseAnswer, Deliver, ledgerUnchanged, ledgerVars
<1>2. booking' \in [Reservations -> Booking]
  BY <1>1 DEF IInv, Typed
<1>3. ASSUME NEW outcome \in Outcomes, End(c, outcome) PROVE IInv'
  BY <1>1, <1>2, <1>3, MoveSound DEF End
<1>4. CASE Begin(c)
  <2>1. Go(c, "reserve") /\ call[c].step = "idle"
    BY <1>4 DEF Begin
  <2>2. call' = [call EXCEPT ![c].step = "reserve", ![c].outcome = call[c].outcome]
        /\ call[c].outcome \in Outcomes
    BY <2>1, GoMoves
  <2> QED
    BY <1>1, <1>2, <2>1, <2>2, MoveSound
<1>5. CASE Oversized(c) \/ RefuseCall(c) \/ LoseAnswer(c) \/ Deliver(c)
  BY <1>3, <1>5 DEF Oversized, RefuseCall, LoseAnswer, Deliver, Outcomes
<1>6. CASE DeliverError(c)
  <2>1. call[c].outcome \in Outcomes
    BY Known DEF Call
  <2> QED
    BY <1>3, <1>6, <2>1 DEF DeliverError
<1> QED
  BY <1>4, <1>5, <1>6

\* A booking that was made but never acknowledged belongs to no call.
LEMMA BookingFailsSound == ASSUME IInv, NEW c \in Calls, BookingFails(c) PROVE IInv'
<1>1. /\ booking' \in [Reservations -> Booking]
      /\ \A r \in Reservations : booking[r].state # "absent" => booking'[r] = booking[r]
  <2>1. CASE ledgerUnchanged
    BY <2>1 DEF ledgerUnchanged, ledgerVars, IInv, Typed
  <2>2. ASSUME NEW r \in Reservations, Reserve(r, month, Maximum(c))
        PROVE /\ booking' \in [Reservations -> Booking]
              /\ \A q \in Reservations : booking[q].state # "absent" => booking'[q] = booking[q]
    BY <2>2, ReserveBooks
  <2> QED
    BY <2>1, <2>2 DEF BookingFails
<1>2. /\ call' = [call EXCEPT ![c].step = "done", ![c].outcome = "failed"]
      /\ UNCHANGED <<month, billed, atProvider, reported>>
  BY DEF BookingFails, End
<1> QED
  BY <1>1, <1>2, MoveSound DEF Outcomes

\* A call that has its reservation.
LEMMA BookCallSound == ASSUME IInv, NEW c \in Calls, BookCall(c) PROVE IInv'
<1>1. PICK r \in Reservations :
          /\ Reserve(r, month, Maximum(c))
          /\ call' = [call EXCEPT ![c].step = "send", ![c].reservation = r]
  BY DEF BookCall
<1> DEFINE k == [call[c] EXCEPT !.step = "send", !.reservation = r]
<1>2. call[c] \in Call /\ call[c].step = "reserve" /\ Maximum(c) \in Nat
      /\ CallOK(call[c], Maximum(c), BookingOf(c), billed[c], c \in atProvider, c \in reported)
  BY Known DEF BookCall
<1>3. call' = [call EXCEPT ![c] = k]
  BY <1>1 DEF IInv, Typed
<1>4. k \in Call /\ k.step = "send" /\ k.reservation = r
  BY <1>2 DEF Call, Steps
<1>5. /\ booking' \in [Reservations -> Booking] /\ booking[r].state = "absent"
      /\ booking'[r].state = "open" /\ booking'[r].amount = Maximum(c)
      /\ \A q \in Reservations : booking[q].state # "absent" => booking'[q] = booking[q]
  BY <1>1, ReserveBooks
<1>6. UNCHANGED <<month, billed, atProvider, reported>> /\ r # None
  BY NoneAssumption DEF BookCall
<1> HIDE DEF k
<1>7. CallOK(k, Maximum(c), booking'[r], billed[c], c \in atProvider, c \in reported)
  BY <1>2, <1>4, <1>5, <1>6 DEF CallOK
<1>8. Advances(c, k)
  BY <1>3, <1>4, <1>5, <1>6 DEF Advances
<1> QED
  BY <1>4, <1>5, <1>6, <1>7, <1>8, AdvanceSound DEF IInv, Typed

\* The request goes out to the provider.
LEMMA SendSound == ASSUME IInv, NEW c \in Calls, Send(c) PROVE IInv'
<1> DEFINE k == [call[c] EXCEPT !.step = "wait"]
<1>1. call[c] \in Call /\ call[c].step = "send" /\ Maximum(c) \in Nat
      /\ CallOK(call[c], Maximum(c), BookingOf(c), billed[c], c \in atProvider, c \in reported)
  BY Known DEF Send
<1>2. /\ call' = [call EXCEPT ![c] = k] /\ atProvider' = atProvider \cup {c}
      /\ UNCHANGED <<month, billed, reported, booking>>
  BY DEF Send, Go, IInv, Typed, ledgerUnchanged, ledgerVars
<1>3. k \in Call /\ k.step = "wait" /\ k.reservation = call[c].reservation
  BY <1>1 DEF Call, Steps
<1> HIDE DEF k
<1>4. CallOK(k, Maximum(c), BookingOf(c), billed[c], TRUE, c \in reported)
  BY <1>1, <1>3 DEF CallOK
<1>5. Advances(c, k)
  BY <1>2, <1>3 DEF Advances
<1>6. (IF k.reservation = None THEN Absent ELSE booking'[k.reservation]) = BookingOf(c)
  BY <1>2, <1>3 DEF BookingOf
<1>7. c \in atProvider' <=> TRUE
  BY <1>2
<1>8. CallOK(k, Maximum(c), BookingOf(c), billed'[c], c \in atProvider', c \in reported')
  BY <1>2, <1>4, <1>7 DEF CallOK
<1> QED
  BY <1>2, <1>5, <1>6, <1>8, AdvanceSound DEF IInv, Typed

\* The try block is left, with a bill or without, and `finally` comes next.
LEMMA LeaveSound ==
    ASSUME IInv, NEW c \in Calls, call[c].step \in {"send", "wait"},
           NEW actual \in Nat \cup {None}, NEW outcome \in Outcomes, Leave(c, actual, outcome),
           UNCHANGED <<month, booking>>, billed' \in [Calls -> Nat], reported' \subseteq Calls,
           \A d \in Calls \ {c} : /\ billed'[d] = billed[d]
                                  /\ d \in atProvider' <=> d \in atProvider
                                  /\ d \in reported' <=> d \in reported,
           \/ actual = None /\ c \notin reported' /\ billed'[c] = 0
              /\ (c \in atProvider' => c \in atProvider)
           \/ c \notin atProvider' /\ billed'[c] =< Maximum(c) /\ c \notin reported' /\ actual = None
           \/ c \notin atProvider' /\ billed'[c] =< Maximum(c) /\ c \notin reported' /\ actual = Maximum(c)
           \/ c \notin atProvider' /\ billed'[c] =< Maximum(c) /\ actual = billed'[c]
    PROVE  IInv'
<1> DEFINE k == [call[c] EXCEPT !.step = "settle", !.actual = actual, !.outcome = outcome]
<1>1. call[c] \in Call /\ Maximum(c) \in Nat /\ billed'[c] \in Nat
      /\ CallOK(call[c], Maximum(c), BookingOf(c), billed[c], c \in atProvider, c \in reported)
  BY Known
<1>2. call' = [call EXCEPT ![c] = k]
  BY DEF Leave, IInv, Typed
<1>3. k \in Call /\ k.step = "settle" /\ k.reservation = call[c].reservation /\ k.actual = actual
  BY <1>1 DEF Call, Steps
<1> HIDE DEF k
<1>4. /\ BookingOf(c).state = "open" /\ BookingOf(c).amount = Maximum(c)
      /\ k.reservation # None
  BY <1>1, <1>3 DEF CallOK
<1>5. CallOK(k, Maximum(c), BookingOf(c), billed'[c], c \in atProvider', c \in reported')
  BY <1>1, <1>3, <1>4, NoneAssumption DEF CallOK
<1>6. Advances(c, k)
  BY <1>2, <1>3 DEF Advances
<1>7. (IF k.reservation = None THEN Absent ELSE booking'[k.reservation]) = BookingOf(c)
  BY <1>3 DEF BookingOf
<1> QED
  BY <1>5, <1>6, <1>7, AdvanceSound DEF IInv, Typed

\* The request never left, or no answer came in time.
LEMMA SilenceSound == ASSUME IInv, NEW c \in Calls, SendFails(c) \/ Timeout(c) PROVE IInv'
<1>1. call[c].step \in {"send", "wait"} /\ Leave(c, None, "unavailable")
      /\ UNCHANGED <<month, booking, billed, atProvider, reported>>
  BY DEF SendFails, Timeout, ledgerUnchanged, ledgerVars
<1>2. billed[c] = 0 /\ c \notin reported
  BY <1>1, Known DEF CallOK
<1> QED
  BY <1>1, <1>2, LeaveSound DEF Outcomes, IInv, Typed

\* A reply with usage metadata makes the bill the actual cost; one without makes it
\* the maximum or leaves it unknown.
LEMMA ReplySound ==
    ASSUME IInv, NEW c \in Calls, NEW bill \in 0..Maximum(c), Reply(c, bill) PROVE IInv'
<1>1. call[c].step = "wait" /\ Maximum(c) \in Nat /\ c \notin reported
  BY Known DEF Reply, CallOK
<1>2. /\ atProvider' = atProvider \ {c} /\ billed' = [billed EXCEPT ![c] = bill]
      /\ UNCHANGED <<month, booking>>
  BY DEF Reply, ledgerUnchanged, ledgerVars
<1>3. bill \in Nat /\ bill =< Maximum(c)
  BY <1>1
<1>4. billed' \in [Calls -> Nat] /\ billed'[c] = bill
      /\ \A d \in Calls \ {c} : billed'[d] = billed[d] /\ (d \in atProvider' <=> d \in atProvider)
  BY <1>2, <1>3 DEF IInv, Typed
<1>5. ASSUME NEW outcome \in {"draft", "invalid"}, Leave(c, bill, outcome), reported' = reported \cup {c}
      PROVE IInv'
  <2>1. reported' \subseteq Calls /\ \A d \in Calls \ {c} : d \in reported' <=> d \in reported
    BY <1>5 DEF IInv, Typed
  <2> QED
    BY <1>1, <1>2, <1>3, <1>4, <1>5, <2>1, LeaveSound DEF Outcomes
<1>6. ASSUME NEW outcome \in Outcomes, NEW actual \in {None, Maximum(c)},
             Leave(c, actual, outcome), UNCHANGED reported
      PROVE IInv'
  BY <1>1, <1>2, <1>3, <1>4, <1>6, LeaveSound DEF IInv, Typed
<1> QED
  BY <1>5, <1>6 DEF Reply, Outcomes

\* A late bill finds its reservation held, or charged at the maximum.
LEMMA LateBillSound ==
    ASSUME IInv, NEW c \in Calls, NEW bill \in 0..Maximum(c), LateBill(c, bill) PROVE IInv'
<1>1. call[c] \in Call /\ Maximum(c) \in Nat /\ BookingOf(c) \in Booking
      /\ CallOK(call[c], Maximum(c), BookingOf(c), billed[c], c \in atProvider, c \in reported)
  BY Known
<1>2. /\ c \in atProvider /\ call[c].step # "wait" /\ atProvider' = atProvider \ {c}
      /\ billed' = [billed EXCEPT ![c] = bill] /\ UNCHANGED <<month, call, reported, booking>>
  BY DEF LateBill, ledgerUnchanged, ledgerVars
<1>3. bill \in Nat /\ bill =< Maximum(c)
  BY <1>1
<1>4. billed' \in [Calls -> Nat] /\ billed'[c] = bill
      /\ \A d \in Calls \ {c} : billed'[d] = billed[d] /\ (d \in atProvider' <=> d \in atProvider)
  BY <1>2, <1>3 DEF IInv, Typed
<1>5. CallOK(call[c], Maximum(c), BookingOf(c), bill, FALSE, c \in reported)
  BY <1>1, <1>2, <1>3 DEF CallOK
<1>6. CallOK(call[c], Maximum(c), BookingOf(c), billed'[c], c \in atProvider', c \in reported')
  BY <1>2, <1>4, <1>5 DEF CallOK
<1>7. call' = [call EXCEPT ![c] = call[c]]
  BY <1>2 DEF IInv, Typed
<1>8. Advances(c, call[c])
  BY <1>1, <1>2, <1>4, <1>7 DEF Advances
<1> QED
  BY <1>2, <1>4, <1>6, <1>8, AdvanceSound DEF IInv, Typed, BookingOf

-----------------------------------------------------------------------------
(* Settlement.                                                              *)

\* The call goes on, or ends, with its reservation charged.
LEMMA ChargedSound ==
    ASSUME IInv, NEW c \in Calls, NEW step \in {"deliver", "done"}, NEW outcome \in Outcomes,
           call[c].step = "settle", Settle(call[c].reservation, ChargeOf(c)),
           call' = [call EXCEPT ![c].step = step, ![c].outcome = outcome],
           UNCHANGED <<month, billed, atProvider, reported>>
    PROVE  IInv'
<1> DEFINE k == [call[c] EXCEPT !.step = step, !.outcome = outcome]
           r == call[c].reservation
<1>1. call[c] \in Call /\ Maximum(c) \in Nat /\ billed[c] \in Nat
      /\ CallOK(call[c], Maximum(c), BookingOf(c), billed[c], c \in atProvider, c \in reported)
  BY Known
<1>2. /\ r \in Reservations /\ booking' \in [Reservations -> Booking]
      /\ booking'[r].state = "settled" /\ booking'[r].amount = Maximum(c)
      /\ booking'[r].charged = IF call[c].actual = None THEN Maximum(c) ELSE call[c].actual
      /\ \A q \in Reservations : q # r => booking'[q] = booking[q]
  BY SettleCharges
<1>3. call' = [call EXCEPT ![c] = k]
  BY DEF IInv, Typed
<1>4. k \in Call /\ k.step = step /\ k.reservation = r
  BY <1>1 DEF Call, Steps
<1>5. r # None
  BY <1>2, NoneAssumption
<1> HIDE DEF k
<1>6. CallOK(k, Maximum(c), booking'[r], billed[c], c \in atProvider, c \in reported)
  BY <1>1, <1>2, <1>4, <1>5 DEF CallOK
<1>7. Advances(c, k)
  BY <1>2, <1>3, <1>4 DEF Advances
<1> QED
  BY <1>2, <1>4, <1>5, <1>6, <1>7, AdvanceSound DEF IInv, Typed

\* The settlement, with or without its acknowledgement.
LEMMA SettleSound == ASSUME IInv, NEW c \in Calls, SettleCall(c) \/ SettleFails(c) PROVE IInv'
<1>1. call[c].step = "settle" /\ UNCHANGED <<month, billed, atProvider, reported>>
  BY DEF SettleCall, SettleFails
<1>2. CASE SettleCall(c)
  <2>1. Go(c, "deliver") /\ Settle(call[c].reservation, ChargeOf(c))
    BY <1>2 DEF SettleCall
  <2> QED
    BY <1>1, <2>1, GoMoves, ChargedSound
<1>3. CASE SettleFails(c) /\ ledgerUnchanged
  <2>1. call' = [call EXCEPT ![c].step = "done", ![c].outcome = "failed"] /\ UNCHANGED booking
    BY <1>3 DEF SettleFails, End, ledgerUnchanged, ledgerVars
  <2> QED
    BY <1>1, <2>1, MoveSound DEF Outcomes, IInv, Typed
<1>4. CASE SettleFails(c) /\ Settle(call[c].reservation, ChargeOf(c))
  BY <1>1, <1>4, ChargedSound DEF SettleFails, End, Outcomes
<1> QED
  BY <1>2, <1>3, <1>4 DEF SettleFails

\* A process that stops leaves its reservations as they are.
LEMMA StopSound == ASSUME IInv, NEW process, Stop(process) PROVE IInv'
<1> DEFINE k(c) == [call[c] EXCEPT !.step = "done", !.outcome = "lost"]
<1>1. /\ call' = [c \in Calls |-> IF c \in process /\ call[c].step \notin {"idle", "done"}
                                 THEN k(c) ELSE call[c]]
      /\ UNCHANGED <<month, booking, billed, atProvider, reported>>
  BY DEF Stop, ledgerUnchanged, ledgerVars
<1>2. ASSUME NEW c \in Calls
      PROVE /\ k(c) \in Call /\ k(c).step = "done" /\ k(c).reservation = call[c].reservation
  BY Known DEF Call, Steps, Outcomes
<1> HIDE DEF k
<1>3. \A c \in Calls : call'[c] \in Call /\ call'[c].reservation = call[c].reservation
                       /\ (call'[c] = call[c] \/ call'[c].step = "done")
  BY <1>1, <1>2 DEF IInv, Typed
<1>4. Typed' /\ OwnReservation'
  BY <1>1, <1>3 DEF IInv, Typed, OwnReservation
<1>5. ASSUME NEW c \in Calls
      PROVE CallOK(call'[c], Maximum(c), BookingOf(c)', billed[c], c \in atProvider, c \in reported)
  <2>1. CallOK(call[c], Maximum(c), BookingOf(c), billed[c], c \in atProvider, c \in reported)
    BY Known
  <2>2. BookingOf(c)' = BookingOf(c)
    BY <1>1, <1>3 DEF BookingOf
  <2> QED
    BY <1>3, <2>1, <2>2 DEF CallOK
<1>6. CallsOK'
  BY <1>1, <1>5 DEF CallsOK, Maximum
<1> QED
  BY <1>4, <1>6 DEF IInv

-----------------------------------------------------------------------------
(* The theorems.                                                            *)

\* Every step keeps the invariant.
LEMMA StepIInv == ASSUME IInv, [Next]_vars PROVE IInv'
<1>1. CASE UNCHANGED vars \/ TurnMonth
  <2>1. UNCHANGED <<booking, call, billed, atProvider, reported>> /\ month' \in Months
    BY <1>1 DEF vars, TurnMonth, ledgerUnchanged, ledgerVars, IInv, Typed
  <2> QED
    BY <2>1 DEF IInv, Typed, OwnReservation, CallsOK, BookingOf, Maximum, CallOK
<1>2. ASSUME NEW c \in Calls, ClientStep(c) PROVE IInv'
  BY <1>2, MovesSound, BookCallSound, BookingFailsSound, SendSound, SilenceSound, SettleSound
     DEF ClientStep
<1> QED
  BY <1>1, <1>2, MovesSound, ReplySound, LateBillSound, StopSound DEF Next

\* So it holds throughout.
LEMMA InvariantHolds == Spec => []IInv
<1> QED
  BY InitIInv, StepIInv, PTL DEF Spec

\* Whatever times out, breaks or stops: what the provider has or has billed is covered
\* by the call's own reservation, for any number of calls and any prices.
THEOREM BillsAreCovered == Spec => []EveryBillCovered
<1>1. IInv => EveryBillCovered
  <2> SUFFICES ASSUME IInv, NEW c \in Calls, c \in atProvider \/ billed[c] > 0
               PROVE  LET b == booking[call[c].reservation] IN
                      /\ call[c].reservation # None
                      /\ b.state = "open" \/ b.charged >= billed[c]
                      /\ c \in atProvider => b.state = "open" \/ b.charged = Maximum(c)
    BY DEF EveryBillCovered
  <2>1. call[c].reservation # None
    BY Known DEF CallOK
  <2> QED
    BY <2>1, Known DEF CallOK
<1> QED
  BY InvariantHolds, <1>1, PTL

\* What the provider reported is what the month is charged.
THEOREM UsageIsExact == Spec => []ReportedUsageExact
<1>1. IInv => ReportedUsageExact
  <2> SUFFICES ASSUME IInv, NEW c \in reported, booking[call[c].reservation].state = "settled"
               PROVE  booking[call[c].reservation].charged = billed[c]
    BY DEF ReportedUsageExact
  <2>1. c \in Calls
    BY DEF IInv, Typed
  <2> QED
    BY <2>1, Known DEF CallOK
<1> QED
  BY InvariantHolds, <1>1, PTL

-----------------------------------------------------------------------------
(* The ledger's totals, which bound the bills.                              *)

Those(state, m) == {r \in Reservations : booking[r].state = state /\ booking[r].month = m}
Amounts == [r \in Reservations |-> booking[r].amount]
Charges == [r \in Reservations |-> booking[r].charged]

\* The totals of a month are the sums over its reservations, within the limit.
LedgerOK ==
    /\ account \in [Months -> Account]
    /\ \A r \in Reservations : booking[r].state # "absent" => booking[r].month \in Months
    /\ \A m \in Months :
           /\ account[m].spent + account[m].reserved =< Limit
           /\ account[m].reserved = SumFunctionOnSet(Amounts, Those("open", m))
           /\ account[m].spent = SumFunctionOnSet(Charges, Those("settled", m))

\* The reservations in one state are finitely many.
LEMMA ThoseFinite == \A state, m : IsFiniteSet(Those(state, m))
BY FS_Subset, ReservationsAssumption DEF Those

\* What is summed are natural numbers.
LEMMA ValuesTyped ==
    ASSUME IInv
    PROVE  \A r \in Reservations : Amounts[r] \in Nat /\ Charges[r] \in Nat
BY DEF IInv, Typed, Booking, Amounts, Charges

\* Nothing is booked at first, and the totals are zero.
LEMMA InitLedgerOK == Init => LedgerOK
<1> SUFFICES ASSUME Init PROVE LedgerOK
  OBVIOUS
<1>1. account \in [Months -> Account] /\ \A m \in Months : account[m].spent = 0 /\ account[m].reserved = 0
  BY DEF Init, LedgerInit, Account
<1>2. \A r \in Reservations : booking[r].state = "absent"
  BY DEF Init, LedgerInit, Absent
<1>3. \A m \in Months : Those("open", m) = {} /\ Those("settled", m) = {}
  BY <1>2 DEF Those
<1>4. SumFunctionOnSet(Amounts, {}) = 0 /\ SumFunctionOnSet(Charges, {}) = 0
  BY SumEmpty
<1>5. \A m \in Months : account[m].spent + account[m].reserved =< Limit
  BY <1>1, LimitAssumption
<1>6. \A m \in Months : /\ account[m].reserved = SumFunctionOnSet(Amounts, Those("open", m))
                       /\ account[m].spent = SumFunctionOnSet(Charges, Those("settled", m))
  BY <1>1, <1>3, <1>4
<1> QED
  BY <1>1, <1>2, <1>5, <1>6 DEF LedgerOK

\* A reservation joins the open ones of its month, which can afford it.
LEMMA ReserveKeeps ==
    ASSUME IInv, LedgerOK, NEW r \in Reservations, NEW c \in Calls, Reserve(r, month, Maximum(c))
    PROVE  LedgerOK'
<1> DEFINE cost == Maximum(c)
<1>1. /\ month \in Months /\ cost \in Nat /\ booking[r].state = "absent"
      /\ account[month].spent + account[month].reserved + cost =< Limit
      /\ account' = [account EXCEPT ![month].reserved = @ + cost]
      /\ booking' = [booking EXCEPT ![r] = [state |-> "open", month |-> month,
                                            amount |-> cost, charged |-> 0]]
  BY MaximumType DEF Reserve, Affordable, IInv, Typed
<1> HIDE DEF cost
<1>2. account \in [Months -> Account] /\ booking \in [Reservations -> Booking]
  BY DEF LedgerOK, IInv, Typed
<1>3. /\ booking'[r].state = "open" /\ booking'[r].month = month
      /\ booking'[r].amount = cost /\ booking'[r].charged = 0
      /\ \A q \in Reservations : q # r => booking'[q] = booking[q]
  BY <1>1, <1>2
<1>4. /\ account'[month].spent = account[month].spent
      /\ account'[month].reserved = account[month].reserved + cost
      /\ \A m \in Months : m # month => account'[m] = account[m]
  BY <1>1, <1>2 DEF Account
<1>5. account' \in [Months -> Account]
  <2>1. [account[month] EXCEPT !.reserved = @ + cost] \in Account
    BY <1>1, <1>2 DEF Account
  <2> QED
    BY <1>1, <1>2, <2>1
<1>6. \A q \in Reservations : booking'[q].state # "absent" => booking'[q].month \in Months
  BY <1>1, <1>3 DEF LedgerOK
<1>7. \A q \in Reservations : q # r => Amounts'[q] = Amounts[q] /\ Charges'[q] = Charges[q]
  BY <1>3 DEF Amounts, Charges
<1>8. Amounts'[r] = cost
  BY <1>3 DEF Amounts
<1>9. ASSUME NEW m \in Months
      PROVE  /\ account'[m].spent + account'[m].reserved =< Limit
             /\ account'[m].reserved = SumFunctionOnSet(Amounts', Those("open", m)')
             /\ account'[m].spent = SumFunctionOnSet(Charges', Those("settled", m)')
  <2> DEFINE opens == Those("open", m)
             settled == Those("settled", m)
  <2>0. IsFiniteSet(opens) /\ IsFiniteSet(settled)
    BY ThoseFinite
  <2>1. /\ r \notin opens /\ r \notin settled
        /\ opens \subseteq Reservations /\ settled \subseteq Reservations
    BY <1>1 DEF Those
  <2>2. /\ account[m].spent + account[m].reserved =< Limit
        /\ account[m].reserved = SumFunctionOnSet(Amounts, opens)
        /\ account[m].spent = SumFunctionOnSet(Charges, settled)
        /\ account[m].spent \in Nat /\ account[m].reserved \in Nat /\ Limit \in Nat
    BY <1>2, LimitAssumption DEF LedgerOK, Account
  <2>3. Those("settled", m)' = settled
    BY <1>1, <1>3 DEF Those
  <2>4. \A q \in opens : Amounts'[q] = Amounts[q] /\ Amounts[q] \in Nat
    BY <1>7, <2>1, ValuesTyped
  <2>5. SumFunctionOnSet(Charges', settled) = SumFunctionOnSet(Charges, settled)
    <3>1. \A q \in settled : Charges'[q] = Charges[q]
      BY <1>7, <2>1
    <3> HIDE DEF settled
    <3> QED
      BY <2>0, <2>1, <3>1, SumSame
  <2>6. CASE m = month
    <3>1. Those("open", m)' = opens \cup {r}
      BY <1>1, <1>3, <2>6 DEF Those
    <3>2. SumFunctionOnSet(Amounts', opens \cup {r}) = SumFunctionOnSet(Amounts, opens) + Amounts'[r]
      <4> HIDE DEF opens
      <4>1. \A q \in opens : Amounts'[q] = Amounts[q]
        BY <2>4
      <4>2. \A q \in opens : Amounts[q] \in Nat
        BY <2>4
      <4> QED
        BY <1>1, <1>8, <2>0, <2>1, <4>1, <4>2, SumGrows
    <3>3. account'[m].spent = account[m].spent /\ account'[m].reserved = account[m].reserved + cost
      BY <1>4, <2>6
    <3>4. account'[m].spent + account'[m].reserved =< Limit
      BY <1>1, <2>2, <2>6, <3>3
    <3> QED
      BY <1>8, <2>2, <2>3, <2>5, <3>1, <3>2, <3>3, <3>4
  <2>7. CASE m # month
    <3>1. Those("open", m)' = opens
      BY <1>1, <1>3, <2>7 DEF Those
    <3>2. SumFunctionOnSet(Amounts', opens) = SumFunctionOnSet(Amounts, opens)
      <4> HIDE DEF opens
      <4> QED
        BY <2>0, <2>4, SumSame
    <3> QED
      BY <1>4, <2>2, <2>3, <2>5, <2>7, <3>1, <3>2
  <2> QED
    BY <2>6, <2>7
<1> QED
  BY <1>5, <1>6, <1>9 DEF LedgerOK

\* A settled reservation leaves the open ones of its month for the settled ones, with
\* a charge within what was held.
LEMMA SettleKeeps ==
    ASSUME IInv, LedgerOK, NEW r \in Reservations, NEW charge \in Nat, Settle(r, charge)
    PROVE  LedgerOK'
<1> DEFINE home == booking[r].month
           held == booking[r].amount
<1>1. /\ booking[r].state = "open" /\ charge =< held
      /\ account' = [account EXCEPT ![home] = [spent |-> @.spent + charge, reserved |-> @.reserved - held]]
      /\ booking' = [booking EXCEPT ![r].state = "settled", ![r].charged = charge]
  BY DEF Settle
<1>2. account \in [Months -> Account] /\ booking \in [Reservations -> Booking]
      /\ home \in Months
  BY <1>1 DEF LedgerOK, IInv, Typed
<1>3. held \in Nat
  BY <1>2 DEF Booking
<1>4. /\ booking'[r].state = "settled" /\ booking'[r].month = home
      /\ booking'[r].amount = held /\ booking'[r].charged = charge
      /\ \A q \in Reservations : q # r => booking'[q] = booking[q]
  BY <1>1, <1>2 DEF Booking
<1> HIDE DEF home, held
<1>5. /\ account'[home].spent = account[home].spent + charge
      /\ account'[home].reserved = account[home].reserved - held
      /\ \A m \in Months : m # home => account'[m] = account[m]
  BY <1>1, <1>2
<1>6. \A q \in Reservations : q # r => Amounts'[q] = Amounts[q] /\ Charges'[q] = Charges[q]
  BY <1>4 DEF Amounts, Charges
<1>7. Amounts'[r] = held /\ Charges'[r] = charge /\ Amounts[r] = held
  BY <1>4 DEF Amounts, Charges, held
<1>8. \A q \in Reservations : booking'[q].state # "absent" => booking'[q].month \in Months
  BY <1>2, <1>4 DEF LedgerOK
<1>9. account[home].reserved >= held
  <2> DEFINE opens == Those("open", home)
  <2>0. IsFiniteSet(opens) /\ IsFiniteSet(opens \ {r})
    BY ThoseFinite, FS_Subset
  <2>1. r \in opens
    BY <1>1 DEF Those, home
  <2>2. \A q \in opens : Amounts[q] \in Nat
    BY ValuesTyped DEF Those
  <2>5. account[home].reserved = SumFunctionOnSet(Amounts, opens)
    BY <1>2 DEF LedgerOK
  <2> HIDE DEF opens
  <2>3. SumFunctionOnSet(Amounts, opens) = Amounts[r] + SumFunctionOnSet(Amounts, opens \ {r})
    BY <2>0, <2>1, <2>2, SumRemove
  <2>4. SumFunctionOnSet(Amounts, opens \ {r}) \in Nat
    BY <2>0, <2>2, SumType
  <2> QED
    BY <1>3, <1>7, <2>3, <2>4, <2>5
<1>10. account' \in [Months -> Account]
  <2>1. [spent |-> account[home].spent + charge, reserved |-> account[home].reserved - held] \in Account
    BY <1>2, <1>3, <1>9 DEF Account
  <2> QED
    BY <1>1, <1>2, <2>1
<1>11. ASSUME NEW m \in Months
       PROVE  /\ account'[m].spent + account'[m].reserved =< Limit
              /\ account'[m].reserved = SumFunctionOnSet(Amounts', Those("open", m)')
              /\ account'[m].spent = SumFunctionOnSet(Charges', Those("settled", m)')
  <2> DEFINE opens == Those("open", m)
             settled == Those("settled", m)
  <2>0. IsFiniteSet(opens) /\ IsFiniteSet(settled)
    BY ThoseFinite
  <2>1. r \notin settled /\ opens \subseteq Reservations /\ settled \subseteq Reservations
    BY <1>1 DEF Those
  <2>2. /\ account[m].spent + account[m].reserved =< Limit
        /\ account[m].reserved = SumFunctionOnSet(Amounts, opens)
        /\ account[m].spent = SumFunctionOnSet(Charges, settled)
        /\ account[m].spent \in Nat /\ account[m].reserved \in Nat /\ Limit \in Nat
    BY <1>2, LimitAssumption DEF LedgerOK, Account
  <2>3. \A q \in opens \cup settled : Amounts[q] \in Nat /\ Charges[q] \in Nat
    BY <2>1, ValuesTyped
  <2>4. /\ \A q \in opens \ {r} : Amounts'[q] = Amounts[q]
        /\ \A q \in settled : Charges'[q] = Charges[q]
    BY <1>6, <2>1
  <2>5. CASE m = home
    <3>1. r \in opens /\ Those("open", m)' = opens \ {r} /\ Those("settled", m)' = settled \cup {r}
      BY <1>1, <1>4, <2>5 DEF Those, home
    <3> HIDE DEF opens, settled
    <3>2. SumFunctionOnSet(Amounts', opens \ {r}) = SumFunctionOnSet(Amounts, opens) - Amounts[r]
      BY <2>0, <2>3, <2>4, <3>1, SumShrinks
    <3>3. SumFunctionOnSet(Charges', settled \cup {r}) = SumFunctionOnSet(Charges, settled) + Charges'[r]
      <4>1. \A q \in settled : Charges[q] \in Nat
        BY <2>3
      <4>2. \A q \in settled : Charges'[q] = Charges[q]
        BY <2>4
      <4>3. Charges'[r] \in Nat
        BY <1>7
      <4> QED
        BY <2>0, <2>1, <4>1, <4>2, <4>3, SumGrows
    <3>4. account'[m].reserved = account[m].reserved - held /\ account'[m].spent = account[m].spent + charge
      BY <1>5, <2>5
    <3>5. account'[m].spent + account'[m].reserved =< Limit
      BY <1>1, <1>3, <1>9, <2>2, <2>5, <3>4 DEF held
    <3> QED
      BY <1>7, <2>2, <3>1, <3>2, <3>3, <3>4, <3>5
  <2>6. CASE m # home
    <3>1. Those("open", m)' = opens /\ Those("settled", m)' = settled /\ r \notin opens
      BY <1>1, <1>4, <2>6 DEF Those, home
    <3> HIDE DEF opens, settled
    <3>2. SumFunctionOnSet(Amounts', opens) = SumFunctionOnSet(Amounts, opens)
      BY <2>0, <2>4, <3>1, SumSame
    <3>3. SumFunctionOnSet(Charges', settled) = SumFunctionOnSet(Charges, settled)
      BY <2>0, <2>4, SumSame
    <3> QED
      BY <1>5, <2>2, <2>6, <3>1, <3>2, <3>3
  <2> QED
    BY <2>5, <2>6
<1> QED
  BY <1>8, <1>10, <1>11 DEF LedgerOK

\* The ledger changes by a booking or by a settlement.
LEMMA LedgerSteps ==
    ASSUME IInv, [Next]_vars
    PROVE  \/ UNCHANGED ledgerVars
           \/ \E r \in Reservations, c \in Calls : Reserve(r, month, Maximum(c))
           \/ \E c \in Calls : /\ call[c].step = "settle"
                               /\ Settle(call[c].reservation, ChargeOf(c))
<1> DEFINE goal == \/ UNCHANGED ledgerVars
                   \/ \E r \in Reservations, c \in Calls : Reserve(r, month, Maximum(c))
                   \/ \E c \in Calls : /\ call[c].step = "settle"
                                       /\ Settle(call[c].reservation, ChargeOf(c))
<1>1. CASE UNCHANGED vars \/ TurnMonth \/ Stop(Answers) \/ Stop(Items)
  BY <1>1 DEF vars, ledgerVars, TurnMonth, Stop, ledgerUnchanged
<1>2. ASSUME NEW c \in Calls, ClientStep(c) PROVE goal
  BY <1>2 DEF ClientStep, Oversized, BookCall, RefuseCall, BookingFails, Send, SendFails, Timeout,
              SettleCall, SettleFails, DeliverError, LoseAnswer, Deliver, ledgerUnchanged
<1>3. ASSUME NEW c \in Calls, NEW bill \in 0..Maximum(c), Reply(c, bill) \/ LateBill(c, bill) PROVE goal
  BY <1>3 DEF Reply, LateBill, ledgerUnchanged
<1>4. ASSUME NEW c \in Calls, Begin(c) PROVE goal
  BY <1>4 DEF Begin, ledgerUnchanged
<1> QED
  BY <1>1, <1>2, <1>3, <1>4 DEF Next

\* Every step keeps the totals those of the rows.
LEMMA StepLedgerOK == ASSUME IInv, LedgerOK, [Next]_vars PROVE LedgerOK'
<1>1. CASE UNCHANGED ledgerVars
  <2>1. account' = account /\ booking' = booking
    BY <1>1 DEF ledgerVars
  <2>2. Amounts' = Amounts /\ Charges' = Charges /\ \A state, m : Those(state, m)' = Those(state, m)
    BY <2>1 DEF Amounts, Charges, Those
  <2> QED
    BY <2>1, <2>2 DEF LedgerOK
<1>2. ASSUME NEW c \in Calls, call[c].step = "settle", Settle(call[c].reservation, ChargeOf(c))
      PROVE  LedgerOK'
  <2>1. call[c].reservation \in Reservations /\ booking[call[c].reservation].amount \in Nat
    BY <1>2, Known DEF CallOK, Booking
  <2>2. ChargeOf(c) \in Nat
    BY <2>1, Known DEF ChargeOf, Call
  <2> QED
    BY <1>2, <2>1, <2>2, SettleKeeps
<1> QED
  BY <1>1, <1>2, LedgerSteps, ReserveKeeps

\* What the provider bills for the calls booked in a month stays within the limit: each
\* call's bill is within what its own reservation holds or was charged, and the month's
\* totals, which are the sums of those, are within the limit.
THEOREM BillsHoldTheLimit == Spec => []BillsWithinLimit
<1>1. ASSUME IInv, LedgerOK, NEW m \in Months PROVE SumFunctionOnSet(billed, BookedIn(m)) =< Limit
  <2> DEFINE S == BookedIn(m)
             opens == Those("open", m)
             settled == Those("settled", m)
             T == opens \cup settled
             h == [c \in S |-> call[c].reservation]
             g == [r \in Reservations |-> IF booking[r].state = "open" THEN Amounts[r] ELSE Charges[r]]
  <2>0. /\ S \subseteq Calls /\ T \subseteq Reservations
        /\ \A c \in S : call[c].reservation \in Reservations /\ booking[call[c].reservation].month = m
    BY <1>1 DEF BookedIn, Those
  <2>1. IsFiniteSet(opens) /\ IsFiniteSet(settled)
    BY ThoseFinite
  <2>2. IsFiniteSet(T)
    BY <2>1, FS_Union
  <2>3. opens \cap settled = {}
    BY DEF Those
  <2>4. \A r \in Reservations : g[r] \in Nat
    BY <1>1, ValuesTyped
  <2>5. /\ \A r \in opens : g[r] = Amounts[r]
        /\ \A r \in settled : g[r] = Charges[r]
    BY DEF Those
  <2>6. h \in [S -> T] /\ \A c, d \in S : h[c] = h[d] => c = d
    <3>1. ASSUME NEW c \in S PROVE call[c].reservation \in T
      <4>1. call[c].reservation # None
        BY <2>0, NoneAssumption
      <4>2. booking[call[c].reservation].state # "absent"
        BY <1>1, <2>0, <4>1, Known DEF CallOK
      <4>3. booking[call[c].reservation] \in Booking
        BY <1>1, <2>0 DEF IInv, Typed
      <4> QED
        BY <2>0, <4>2, <4>3 DEF Those, Booking
    <3>2. ASSUME NEW c \in S, NEW d \in S, call[c].reservation = call[d].reservation PROVE c = d
      <4>1. call[c].reservation # None /\ c \in Calls /\ d \in Calls
        BY <2>0, NoneAssumption
      <4> QED
        BY <1>1, <3>2, <4>1 DEF IInv, OwnReservation
    <3> HIDE DEF S, T
    <3> QED
      BY <3>1, <3>2
  <2>7. ASSUME NEW c \in S PROVE billed[c] \in Nat /\ billed[c] =< g[h[c]]
    <3>1. /\ c \in Calls /\ call[c].reservation \in Reservations /\ call[c].reservation # None
      BY <2>0, NoneAssumption
    <3>2. /\ billed[c] \in Nat /\ Maximum(c) \in Nat
          /\ CallOK(call[c], Maximum(c), booking[call[c].reservation], billed[c],
                    c \in atProvider, c \in reported)
      BY <1>1, <3>1, Known
    <3>3. /\ Amounts[call[c].reservation] = booking[call[c].reservation].amount
          /\ Charges[call[c].reservation] = booking[call[c].reservation].charged
          /\ Charges[call[c].reservation] \in Nat
      BY <1>1, <3>1, ValuesTyped DEF Amounts, Charges
    <3>4. h[c] = call[c].reservation
      OBVIOUS
    <3>5. billed[c] =< Maximum(c) /\ booking[call[c].reservation].amount = Maximum(c)
      BY <3>1, <3>2 DEF CallOK
    <3>6. booking[call[c].reservation].state = "open" \/ booking[call[c].reservation].charged >= billed[c]
      BY <3>2, <3>3 DEF CallOK
    <3>7. g[call[c].reservation] = IF booking[call[c].reservation].state = "open"
                                   THEN booking[call[c].reservation].amount
                                   ELSE booking[call[c].reservation].charged
      BY <3>1, <3>3
    <3> QED
      BY <3>2, <3>3, <3>4, <3>5, <3>6, <3>7
  <2>8. IsFiniteSet(S)
    <3> HIDE DEF S, T, h
    <3>1. h \in Injection(S, T)
      BY <2>6 DEF Injection, IsInjective
    <3> QED
      BY <2>2, <3>1, FS_Injection
  <2>9. SumFunctionOnSet(billed, S) =< SumFunctionOnSet(g, T)
    <3>1. \A r \in T : g[r] \in Nat
      BY <2>0, <2>4
    <3>2. (\A c \in S : billed[c] \in Nat) /\ \A c \in S : billed[c] =< g[h[c]]
      BY <2>7
    <3> HIDE DEF S, T, g, h
    <3> QED
      BY <2>2, <2>6, <2>8, <3>1, <3>2, SumInjection
  <2>10. SumFunctionOnSet(g, T) = SumFunctionOnSet(Amounts, opens) + SumFunctionOnSet(Charges, settled)
    <3>1. \A r \in opens \cup settled : g[r] \in Nat
      BY <2>0, <2>4
    <3> HIDE DEF g, opens, settled
    <3>2. SumFunctionOnSet(g, opens \cup settled) = SumFunctionOnSet(g, opens) + SumFunctionOnSet(g, settled)
      BY <2>1, <2>3, <3>1, SumUnion
    <3>3. SumFunctionOnSet(g, opens) = SumFunctionOnSet(Amounts, opens)
      BY <2>1, <2>5, SumSame
    <3>4. SumFunctionOnSet(g, settled) = SumFunctionOnSet(Charges, settled)
      BY <2>1, <2>5, SumSame
    <3> QED
      BY <3>2, <3>3, <3>4
  <2>11. /\ account[m].reserved = SumFunctionOnSet(Amounts, opens)
         /\ account[m].spent = SumFunctionOnSet(Charges, settled)
         /\ account[m].spent + account[m].reserved =< Limit
         /\ account[m].spent \in Nat /\ account[m].reserved \in Nat /\ Limit \in Nat
    BY <1>1, LimitAssumption DEF LedgerOK, Account
  <2>12. SumFunctionOnSet(billed, S) \in Nat
    <3>1. \A c \in S : billed[c] \in Nat
      BY <2>7
    <3> HIDE DEF S
    <3> QED
      BY <2>8, <3>1, SumType
  <2> HIDE DEF S, T, g, opens, settled
  <2>13. SumFunctionOnSet(billed, S) =< Limit
    BY <2>9, <2>10, <2>11, <2>12
  <2> QED
    BY <2>13 DEF S
<1>2. IInv /\ LedgerOK => BillsWithinLimit
  BY <1>1 DEF BillsWithinLimit
<1>3. IInv /\ LedgerOK /\ [Next]_vars => LedgerOK'
  BY StepLedgerOK
<1> QED
  BY InvariantHolds, InitLedgerOK, <1>2, <1>3, PTL DEF Spec

-----------------------------------------------------------------------------
(* The money that stays held.                                               *)

\* Each member of H has a member of F of its own.
Matched(H, F) == \E f \in [H -> F] : \A q, r \in H : f[q] = f[r] => q = r

\* The calls that have begun are finitely many, a call that failed is over, and every
\* reservation that no call is working on has a failed call of its own.
HeldOK ==
    /\ IsFiniteSet({c \in Calls : call[c].step # "idle"})
    /\ \A c \in Failed : call[c].step = "done"
    /\ Matched(Held, Failed)

\* Nothing is held and nothing has failed at first.
LEMMA InitHeldOK == Init => HeldOK
<1> SUFFICES ASSUME Init PROVE HeldOK
  OBVIOUS
<1>1. {c \in Calls : call[c].step # "idle"} = {} /\ Failed = {}
  BY DEF Init, Failed
<1>2. Held = {}
  BY DEF Init, LedgerInit, Absent, Held
<1>3. Matched({}, {})
  <2>1. [r \in {} |-> r] \in [{} -> {}]
    OBVIOUS
  <2> QED
    BY <2>1 DEF Matched
<1> QED
  BY <1>1, <1>2, <1>3, FS_EmptySet DEF HeldOK

\* New failures may each bring one reservation along.
LEMMA MatchMore ==
    ASSUME NEW H, NEW F, Matched(H, F), NEW N, N \cap F = {}, NEW h,
           NEW H1, \A r \in H1 : r \in H \/ \E c \in N : r = h[c],
           NEW F1, F \cup N \subseteq F1
    PROVE  Matched(H1, F1)
<1>1. PICK f \in [H -> F] : \A q, r \in H : f[q] = f[r] => q = r
  BY DEF Matched
<1> DEFINE new(r) == CHOOSE c \in N : r = h[c]
           g == [r \in H1 |-> IF r \in H THEN f[r] ELSE new(r)]
<1>2. ASSUME NEW r \in H1, r \notin H PROVE new(r) \in N /\ r = h[new(r)]
  BY <1>2
<1> HIDE DEF new
<1>3. g \in [H1 -> F1]
  BY <1>1, <1>2
<1>4. ASSUME NEW q \in H1, NEW r \in H1, g[q] = g[r] PROVE q = r
  <2>1. CASE q \in H /\ r \in H
    BY <1>1, <1>4, <2>1
  <2>2. CASE q \notin H /\ r \notin H
    BY <1>2, <1>4, <2>2
  <2>3. CASE q \in H /\ r \notin H
    BY <1>1, <1>2, <1>4, <2>3
  <2>4. CASE q \notin H /\ r \in H
    BY <1>1, <1>2, <1>4, <2>4
  <2> QED
    BY <2>1, <2>2, <2>3, <2>4
<1> QED
  BY <1>3, <1>4 DEF Matched

Ended == {"failed", "lost"}
AtWork == {"send", "wait", "settle"}

\* A step of one call that leaves the reservations and its own identifier alone keeps
\* HeldOK, if it fails whenever it stops working on its reservation.
LEMMA MoveHeld ==
    ASSUME IInv, HeldOK, NEW c \in Calls, call[c].step # "done",
           UNCHANGED booking, \A d \in Calls \ {c} : call'[d] = call[d],
           call'[c].reservation = call[c].reservation, call'[c].step # "idle",
           call'[c].outcome \in Ended => call'[c].step = "done",
           call[c].step \in AtWork => call'[c].step \in AtWork \/ call'[c].outcome \in Ended
    PROVE  HeldOK'
<1> DEFINE N == {d \in {c} : call[c].step \in AtWork /\ call'[c].step \notin AtWork}
           h == [d \in Calls |-> call[d].reservation]
           begun == {d \in Calls : call[d].step # "idle"}
<1>1. \A d \in Failed : d \in Calls /\ d # c /\ call'[d] = call[d] /\ call[d].step = "done"
  BY DEF HeldOK, Failed
<1>2. N \cap Failed = {}
  BY <1>1
<1>3. Failed \cup N \subseteq Failed'
  BY <1>1 DEF Failed, Ended
<1>4. ASSUME NEW r \in Held', r \notin Held PROVE \E d \in N : r = h[d]
  <2>1. r \in Reservations /\ booking[r].state = "open" /\ \A d \in Working' : r # call'[d].reservation
    BY <1>4 DEF Held
  <2>2. PICK d \in Working : r = call[d].reservation
    BY <1>4, <2>1 DEF Held
  <2>3. d = c
    BY <2>1, <2>2 DEF Working
  <2>4. call[c].step \in AtWork /\ call'[c].step \notin AtWork
    BY <2>1, <2>2, <2>3 DEF Working, AtWork
  <2> QED
    BY <2>2, <2>3, <2>4
<1>5. \A d \in Failed' : call'[d].step = "done"
  BY <1>1 DEF HeldOK, Failed, Ended
<1>6. IsFiniteSet(begun')
  <2>1. begun' \subseteq begun \cup {c}
    OBVIOUS
  <2>2. IsFiniteSet(begun \cup {c})
    BY FS_AddElement DEF HeldOK
  <2> QED
    BY <2>1, <2>2, FS_Subset
<1>7. Matched(Held', Failed')
  <2> HIDE DEF N, h
  <2> QED
    BY <1>2, <1>3, <1>4, MatchMore DEF HeldOK
<1>8. Matched(Held, Failed)'
  BY <1>7 DEF Matched
<1> QED
  BY <1>5, <1>6, <1>8 DEF HeldOK

\* The steps that leave the reservations alone.
LEMMA MovesHeld ==
    ASSUME IInv, HeldOK, NEW c \in Calls,
           \/ Begin(c) \/ Oversized(c) \/ RefuseCall(c) \/ (BookingFails(c) /\ ledgerUnchanged)
           \/ Send(c) \/ SendFails(c) \/ Timeout(c) \/ (SettleFails(c) /\ ledgerUnchanged)
           \/ DeliverError(c) \/ LoseAnswer(c) \/ Deliver(c)
           \/ \E bill \in 0..Maximum(c) : Reply(c, bill)
    PROVE  HeldOK'
<1>1. call \in [Calls -> Call] /\ call[c] \in Call
  BY DEF IInv, Typed
<1>2. call[c].outcome \in Ended => call[c].step = "done"
  BY DEF HeldOK, Failed, Ended
<1>3. ASSUME UNCHANGED booking, NEW step \in Steps \ {"idle"}, NEW outcome \in Outcomes,
             NEW actual \in Nat \cup {None},
             call' = [call EXCEPT ![c].step = step, ![c].actual = actual, ![c].outcome = outcome],
             call[c].step # "done", outcome \in Ended => step = "done",
             call[c].step \in AtWork => step \in AtWork \/ outcome \in Ended
      PROVE  HeldOK'
  <2>1. /\ \A d \in Calls \ {c} : call'[d] = call[d]
        /\ call'[c].reservation = call[c].reservation
        /\ call'[c].step = step /\ call'[c].outcome = outcome
    BY <1>1, <1>3 DEF Call
  <2> QED
    BY <1>3, <2>1, MoveHeld
<1>4. ASSUME UNCHANGED booking, NEW step \in Steps \ {"idle"}, Go(c, step), call[c].step # "done",
             call[c].step \in AtWork => step \in AtWork
      PROVE  HeldOK'
  <2>1. /\ \A d \in Calls \ {c} : call'[d] = call[d]
        /\ call'[c].reservation = call[c].reservation
        /\ call'[c].step = step /\ call'[c].outcome = call[c].outcome
    BY <1>1, <1>4 DEF Call, Go
  <2> QED
    BY <1>2, <1>4, <2>1, MoveHeld
<1>5. ASSUME UNCHANGED booking, NEW outcome, End(c, outcome), call[c].step # "done",
             call[c].step \in AtWork => outcome \in Ended
      PROVE  HeldOK'
  <2>1. /\ \A d \in Calls \ {c} : call'[d] = call[d]
        /\ call'[c].reservation = call[c].reservation
        /\ call'[c].step = "done" /\ call'[c].outcome = outcome
    BY <1>1, <1>5 DEF Call, End
  <2> QED
    BY <1>5, <2>1, MoveHeld
<1>6. ASSUME UNCHANGED booking, NEW actual, NEW outcome \in Outcomes \ Ended, Leave(c, actual, outcome),
             call[c].step # "done"
      PROVE  HeldOK'
  <2>1. /\ \A d \in Calls \ {c} : call'[d] = call[d]
        /\ call'[c].reservation = call[c].reservation
        /\ call'[c].step = "settle" /\ call'[c].outcome = outcome
    BY <1>1, <1>6 DEF Call, Leave
  <2> QED
    BY <1>6, <2>1, MoveHeld DEF AtWork
<1>7. CASE Begin(c)
  BY <1>4, <1>7 DEF Begin, Steps, AtWork, ledgerUnchanged, ledgerVars
<1>8. CASE Oversized(c) \/ RefuseCall(c) \/ (BookingFails(c) /\ ledgerUnchanged)
  BY <1>5, <1>8 DEF Oversized, RefuseCall, BookingFails, AtWork, ledgerUnchanged, ledgerVars
<1>9. CASE Send(c)
  BY <1>4, <1>9 DEF Send, Steps, AtWork, ledgerUnchanged, ledgerVars
<1>10. CASE SendFails(c) \/ Timeout(c)
  BY <1>6, <1>10 DEF SendFails, Timeout, Outcomes, Ended, ledgerUnchanged, ledgerVars
<1>11. CASE SettleFails(c) /\ ledgerUnchanged
  BY <1>5, <1>11 DEF SettleFails, Ended, ledgerUnchanged, ledgerVars
<1>12. CASE DeliverError(c) \/ LoseAnswer(c) \/ Deliver(c)
  BY <1>5, <1>12 DEF DeliverError, LoseAnswer, Deliver, AtWork, ledgerUnchanged, ledgerVars
<1>13. ASSUME NEW bill \in 0..Maximum(c), Reply(c, bill) PROVE HeldOK'
  BY <1>6, <1>13 DEF Reply, Outcomes, Ended, ledgerUnchanged, ledgerVars
<1> QED
  BY <1>7, <1>8, <1>9, <1>10, <1>11, <1>12, <1>13

\* A reservation made for a call is worked on; one whose acknowledgement was lost comes
\* with the failed call.
LEMMA BookingHeld ==
    ASSUME IInv, HeldOK, NEW c \in Calls, call[c].step = "reserve",
           NEW r \in Reservations, Reserve(r, month, Maximum(c)),
           \/ call' = [call EXCEPT ![c].step = "send", ![c].reservation = r]
           \/ End(c, "failed")
    PROVE  HeldOK'
<1> DEFINE N == {d \in {c} : call'[c].step = "done"}
           h == [d \in Calls |-> r]
           begun == {d \in Calls : call[d].step # "idle"}
<1>1. call \in [Calls -> Call] /\ call[c] \in Call /\ booking[r].state = "absent"
      /\ \A q \in Reservations : q # r => booking'[q] = booking[q]
  BY DEF IInv, Typed, Reserve
<1>2. /\ \A d \in Calls \ {c} : call'[d] = call[d]
      /\ \/ call'[c].step = "send" /\ call'[c].reservation = r /\ call'[c].outcome = call[c].outcome
         \/ call'[c].step = "done" /\ call'[c].outcome = "failed"
  BY <1>1 DEF End, Call
<1>3. \A d \in Failed : d \in Calls /\ d # c /\ call'[d] = call[d] /\ call[d].step = "done"
  BY <1>2 DEF HeldOK, Failed
<1>4. Failed \cup N \subseteq Failed' /\ N \cap Failed = {}
  BY <1>2, <1>3 DEF Failed
<1>5. call[c].outcome \notin Ended
  BY DEF HeldOK, Failed, Ended
<1>6. \A d \in Failed' : call'[d].step = "done"
  BY <1>2, <1>3, <1>5 DEF HeldOK, Failed, Ended
<1>7. ASSUME NEW q \in Held', q \notin Held PROVE \E d \in N : q = h[d]
  <2>1. q \in Reservations /\ booking'[q].state = "open" /\ \A d \in Working' : q # call'[d].reservation
    BY <1>7 DEF Held
  <2>2. CASE q = r
    BY <1>2, <2>1, <2>2 DEF Working
  <2>3. CASE q # r
    <3>1. booking[q].state = "open"
      BY <1>1, <2>1, <2>3
    <3>2. PICK d \in Working : q = call[d].reservation
      BY <1>7, <2>1, <3>1 DEF Held
    <3>3. d # c /\ d \in Calls
      BY <3>2 DEF Working
    <3>4. call'[d] = call[d] /\ d \in Working'
      BY <1>2, <3>2, <3>3 DEF Working
    <3> QED
      BY <2>1, <3>2, <3>4
  <2> QED
    BY <2>2, <2>3
<1>8. IsFiniteSet(begun')
  <2>1. begun' \subseteq begun \cup {c}
    BY <1>2
  <2>2. IsFiniteSet(begun \cup {c})
    BY FS_AddElement DEF HeldOK
  <2> QED
    BY <2>1, <2>2, FS_Subset
<1>9. Matched(Held', Failed')
  <2> HIDE DEF N, h
  <2> QED
    BY <1>4, <1>7, MatchMore DEF HeldOK
<1>10. Matched(Held, Failed)'
  BY <1>9 DEF Matched
<1> QED
  BY <1>6, <1>8, <1>10 DEF HeldOK

\* A settled reservation is held no longer.
LEMMA SettleHeld ==
    ASSUME IInv, HeldOK, NEW c \in Calls, call[c].step = "settle",
           Settle(call[c].reservation, ChargeOf(c)), Go(c, "deliver") \/ End(c, "failed")
    PROVE  HeldOK'
<1> DEFINE r == call[c].reservation
           begun == {d \in Calls : call[d].step # "idle"}
<1>1. /\ call \in [Calls -> Call] /\ call[c] \in Call
      /\ r \in Reservations /\ booking'[r].state = "settled"
      /\ \A q \in Reservations : q # r => booking'[q] = booking[q]
  BY SettleCharges DEF IInv, Typed
<1>2. /\ \A d \in Calls \ {c} : call'[d] = call[d]
      /\ \/ call'[c].step = "deliver" /\ call'[c].outcome = call[c].outcome
         \/ call'[c].step = "done" /\ call'[c].outcome = "failed"
  BY <1>1 DEF Go, End, Call
<1>3. \A d \in Failed : d \in Calls /\ d # c /\ call'[d] = call[d] /\ call[d].step = "done"
  BY <1>2 DEF HeldOK, Failed
<1>4. call[c].outcome \notin Ended
  BY DEF HeldOK, Failed, Ended
<1>5. \A d \in Failed' : call'[d].step = "done"
  BY <1>2, <1>3, <1>4 DEF HeldOK, Failed, Ended
<1>6. Failed \subseteq Failed'
  BY <1>3 DEF Failed
<1>7. ASSUME NEW q \in Held' PROVE q \in Held
  <2>1. q \in Reservations /\ booking'[q].state = "open" /\ \A d \in Working' : q # call'[d].reservation
    BY <1>7 DEF Held
  <2>2. q # r /\ booking[q].state = "open"
    BY <1>1, <2>1
  <2>3. \A d \in Working : q # call[d].reservation
    BY <1>2, <2>1, <2>2 DEF Working
  <2> QED
    BY <2>1, <2>2, <2>3 DEF Held
<1>8. IsFiniteSet(begun')
  <2>1. begun' \subseteq begun
    BY <1>2
  <2> QED
    BY <2>1, FS_Subset DEF HeldOK
<1>9. Matched(Held', Failed')
  <2>1. \A q \in Held' : q \in Held \/ \E d \in {} : q = call[d]
    BY <1>7
  <2>2. {} \cap Failed = {} /\ Failed \cup {} \subseteq Failed'
    BY <1>6
  <2> QED
    BY <2>1, <2>2, MatchMore DEF HeldOK
<1>10. Matched(Held, Failed)'
  BY <1>9 DEF Matched
<1> QED
  BY <1>5, <1>8, <1>10 DEF HeldOK

\* A stop fails every call of the process that was at work, each with its reservation.
LEMMA StopHeld ==
    ASSUME IInv, HeldOK, NEW process, Stop(process)
    PROVE  HeldOK'
<1> DEFINE N == {c \in Calls : c \in process /\ call[c].step \notin {"idle", "done"}}
           h == [c \in Calls |-> call[c].reservation]
           begun == {d \in Calls : call[d].step # "idle"}
<1>1. call \in [Calls -> Call]
  BY DEF IInv, Typed
<1>2. /\ \A c \in N : call'[c].step = "done" /\ call'[c].outcome = "lost"
      /\ \A c \in Calls \ N : call'[c] = call[c]
      /\ booking' = booking
  BY <1>1 DEF Stop, ledgerUnchanged, ledgerVars, Call
<1>3. N \cap Failed = {} /\ Failed \cup N \subseteq Failed'
  BY <1>2 DEF HeldOK, Failed
<1>4. \A c \in Failed' : call'[c].step = "done"
  BY <1>2 DEF HeldOK, Failed
<1>5. ASSUME NEW q \in Held', q \notin Held PROVE \E c \in N : q = h[c]
  <2>1. q \in Reservations /\ booking[q].state = "open" /\ \A c \in Working' : q # call'[c].reservation
    BY <1>2, <1>5 DEF Held
  <2>2. PICK c \in Working : q = call[c].reservation
    BY <1>5, <2>1 DEF Held
  <2>3. c \in Calls /\ (c \notin N => c \in Working')
    BY <1>2 DEF Working
  <2> HIDE DEF N
  <2>4. c \in N
    BY <1>2, <2>1, <2>2, <2>3
  <2> QED
    BY <2>2, <2>3, <2>4
<1>6. IsFiniteSet(begun')
  <2>1. begun' \subseteq begun
    BY <1>2
  <2> QED
    BY <2>1, FS_Subset DEF HeldOK
<1>7. Matched(Held', Failed')
  <2> HIDE DEF N, h
  <2> QED
    BY <1>3, <1>5, MatchMore DEF HeldOK
<1>8. Matched(Held, Failed)'
  BY <1>7 DEF Matched
<1> QED
  BY <1>4, <1>6, <1>8 DEF HeldOK

\* Every step keeps the held reservations matched.
LEMMA StepHeldOK == ASSUME IInv, HeldOK, [Next]_vars PROVE HeldOK'
<1>1. CASE UNCHANGED <<call, booking>>
  <2>1. Held' = Held /\ Failed' = Failed
    BY <1>1 DEF Held, Failed, Working
  <2>2. Matched(Held, Failed)'
    BY <2>1 DEF HeldOK, Matched
  <2>3. IsFiniteSet({c \in Calls : call[c].step # "idle"})'
    BY <1>1 DEF HeldOK
  <2>4. \A c \in Failed' : call'[c].step = "done"
    BY <1>1, <2>1 DEF HeldOK
  <2> QED
    BY <2>2, <2>3, <2>4 DEF HeldOK
<1>2. CASE UNCHANGED vars \/ TurnMonth \/ \E c \in Calls : \E bill \in 0..Maximum(c) : LateBill(c, bill)
  BY <1>1, <1>2 DEF vars, TurnMonth, LateBill, ledgerUnchanged, ledgerVars
<1>3. ASSUME NEW c \in Calls, BookCall(c) PROVE HeldOK'
  BY <1>3, BookingHeld DEF BookCall
<1>4. ASSUME NEW c \in Calls, BookingFails(c) PROVE HeldOK'
  BY <1>4, BookingHeld, MovesHeld DEF BookingFails
<1>5. ASSUME NEW c \in Calls, SettleCall(c) PROVE HeldOK'
  BY <1>5, SettleHeld DEF SettleCall
<1>6. ASSUME NEW c \in Calls, SettleFails(c) PROVE HeldOK'
  BY <1>6, SettleHeld, MovesHeld DEF SettleFails
<1>7. ASSUME NEW c \in Calls, ClientStep(c) PROVE HeldOK'
  <2>1. \/ Oversized(c) \/ RefuseCall(c) \/ Send(c) \/ SendFails(c) \/ Timeout(c)
        \/ DeliverError(c) \/ LoseAnswer(c) \/ Deliver(c)
        => HeldOK'
    BY MovesHeld
  <2> QED
    BY <1>3, <1>4, <1>5, <1>6, <1>7, <2>1 DEF ClientStep
<1>8. ASSUME NEW c \in Calls, NEW bill \in 0..Maximum(c), Reply(c, bill) PROVE HeldOK'
  BY <1>8, MovesHeld
<1>9. ASSUME NEW c \in Calls, Begin(c) PROVE HeldOK'
  BY <1>9, MovesHeld
<1> QED
  BY <1>2, <1>7, <1>8, <1>9, StopHeld DEF Next

\* No money stays held without a failure of its own to account for it, whatever times
\* out, fails or stops.
THEOREM HoldsAreAccountedFor == Spec => []HeldOnlyAfterFailure
<1>1. HeldOK => HeldOnlyAfterFailure
  <2> SUFFICES ASSUME HeldOK PROVE Cardinality(Held) =< Cardinality(Failed)
    BY DEF HeldOnlyAfterFailure
  <2>1. Failed \subseteq {c \in Calls : call[c].step # "idle"}
    BY DEF HeldOK, Failed
  <2>2. IsFiniteSet(Failed)
    BY <2>1, FS_Subset DEF HeldOK
  <2>3. PICK f \in Injection(Held, Failed) : TRUE
    BY DEF HeldOK, Matched, Injection, IsInjective
  <2> QED
    BY <2>2, <2>3, FS_Injection
<1>2. IInv /\ HeldOK /\ [Next]_vars => HeldOK'
  BY StepHeldOK
<1> QED
  BY InvariantHolds, InitHeldOK, <1>1, <1>2, PTL DEF Spec

-----------------------------------------------------------------------------
(* Why a bill is within what was reserved: the arithmetic of Pricing.  A      *)
(* token is at least one byte, so the input has no more tokens than the       *)
(* payload and what surrounds it (system prompt, answer schema) have bytes.  *)

\* A call of MistralGenerator that passes the size guard is never billed more
\* than it reserves, as long as what surrounds the payload stays under 89 kB.
THEOREM AnswerWithinMaximum ==
    ASSUME NEW surrounding \in 0..89000,
           NEW payload \in 0..AnswerPayload,
           NEW incoming \in Nat, incoming =< payload + surrounding,
           NEW outgoing \in 0..MaxTokens
    PROVE  AnswerPrice(incoming, outgoing) =< MAXIMUM_COST
<1>1. incoming =< 129000
    <2>1. payload \in Nat /\ payload =< 40000
        BY DEF AnswerPayload
    <2>2. surrounding \in Nat /\ surrounding =< 89000
        OBVIOUS
    <2> QED BY <2>1, <2>2
<1>2. outgoing \in Nat /\ outgoing =< 1024
    BY DEF MaxTokens
<1>3. 15 * incoming + 60 * outgoing =< 2000000
    BY <1>1, <1>2
<1> QED BY <1>3 DEF AnswerPrice, MAXIMUM_COST

\* The same for an item of the judge and its larger reservation.
THEOREM JudgeWithinMaximum ==
    ASSUME NEW surrounding \in 0..116000,
           NEW payload \in 0..JudgePayload,
           NEW incoming \in Nat, incoming =< payload + surrounding,
           NEW outgoing \in 0..MaxTokens
    PROVE  JudgePrice(incoming, outgoing) =< JUDGE_COST
<1>1. incoming =< 196000
    <2>1. payload \in Nat /\ payload =< 80000
        BY DEF JudgePayload
    <2>2. surrounding \in Nat /\ surrounding =< 116000
        OBVIOUS
    <2> QED BY <2>1, <2>2
<1>2. outgoing \in Nat /\ outgoing =< 1024
    BY DEF MaxTokens
<1>3. 50 * incoming + 150 * outgoing =< 10000000
    BY <1>1, <1>2
<1> QED BY <1>3 DEF JudgePrice, JUDGE_COST
=============================================================================
