-------------------------- MODULE WebRequestsProofs --------------------------
(***************************************************************************)
(* Proofs about WebRequests: for any number of connections and clients, any  *)
(* limits, and any order of the answers.                                     *)
(***************************************************************************)
EXTENDS WebRequests, FiniteSetTheorems, WellFoundedInduction, TLAPS

Steps == {"idle", "body", "arrive", "decide", "ask", "invalid", "done"}
Request == [step : Steps, client : Clients \cup {None}, route : Routes \cup {None},
            input : Inputs \cup {None}, size : Int, read : {"part", "whole"}, now : Int,
            answers : Nat, status : Nat \cup {None}, shown : Nat]

Typed == clock \in Int /\ request \in [Requests -> Request]

WantedBy(q) == IF q.route = "compare" THEN 2 ELSE 1

\* Only what passed every check reaches the service; a form that did not is a form.
InHand(q) ==
    /\ q.step \in {"body", "arrive", "decide", "invalid"} => q.answers = 0
    /\ q.step = "invalid" => q.route \in Forms
    /\ q.step = "ask" => /\ q.answers < WantedBy(q) /\ q.input = "good" /\ q.route \in Routes

\* What ServedWhole says of one request.
Whole(q) ==
    /\ q.step = "arrive" => q.read = "whole"
    /\ q.step \in {"ask", "done"} /\ q.answers > 0 => q.input = "good"
    /\ q.step = "done" =>
        /\ q.shown \in {0, WantedBy(q)}
        /\ q.shown > 0 => q.status = 200 /\ q.answers = q.shown
        /\ q.route = "api" /\ q.status = 200 => q.shown = 1

IInv == Typed /\ \A r \in Requests : InHand(request[r]) /\ Whole(request[r])

\* A request that has not arrived is of its type.
LEMMA NoRequestTyped ==
    /\ NoRequest \in Request
    /\ NoRequest.step = "idle" /\ NoRequest.answers = 0 /\ NoRequest.shown = 0
    /\ NoRequest.route = None /\ NoRequest.status = None
BY DEF NoRequest, Request, Steps

\* It holds initially.
LEMMA InitIInv == Init => IInv
BY NoRequestTyped DEF Init, IInv, Typed, InHand, Whole

\* A request that becomes one that is right leaves all of them right.
LEMMA SetSound ==
    ASSUME IInv, NEW r \in Requests, NEW q \in Request, Set(r, q), UNCHANGED clock,
           InHand(q), Whole(q)
    PROVE  IInv'
BY DEF Set, IInv, Typed

\* What is known of one request.
LEMMA Known ==
    ASSUME IInv, NEW r \in Requests
    PROVE  request[r] \in Request /\ InHand(request[r]) /\ Whole(request[r])
           /\ Wanted(r) = WantedBy(request[r])
BY DEF IInv, Typed, Wanted, WantedBy

\* A response without an answer: an error, or a page with one.
LEMMA DeliverSound ==
    ASSUME IInv, NEW r \in Requests, NEW status \in Nat, Deliver(r, status, 0), UNCHANGED clock,
           request[r].step \in {"body", "arrive", "invalid", "ask"},
           request[r].route = "api" => status # 200
    PROVE  IInv'
<1> DEFINE zero == 0
           q == [request[r] EXCEPT !.step = "done", !.client = None, !.size = zero, !.read = "part",
                                   !.now = zero, !.status = status, !.shown = zero]
<1>1. request[r] \in Request /\ InHand(request[r]) /\ Whole(request[r])
  BY Known
<1>2. Set(r, q)
  BY DEF Deliver
<1>3. zero \in Nat /\ zero \in Int /\ zero = 0
  OBVIOUS
<1> HIDE DEF zero
<1>4. q \in Request
  BY <1>1, <1>3 DEF Request, Steps
<1>5. q.step = "done" /\ q.status = status /\ q.shown = zero /\ q.route = request[r].route
      /\ q.answers = request[r].answers /\ q.input = request[r].input
  BY <1>1 DEF Request
<1> HIDE DEF q
<1>6. InHand(q) /\ Whole(q)
  BY <1>1, <1>3, <1>5 DEF InHand, Whole
<1> QED
  BY <1>2, <1>4, <1>6, SetSound

\* The body is read, refused or cut off.
LEMMA BodySound ==
    ASSUME IInv, NEW r \in Requests,
           \/ Receive(r) \/ Disconnect(r)
           \/ \E bytes \in 0..MaxBytes + 1, last \in BOOLEAN : Chunk(r, bytes, last)
    PROVE  IInv'
<1>1. request[r] \in Request /\ InHand(request[r]) /\ Whole(request[r])
  BY Known
<1>2. UNCHANGED clock
  BY DEF Receive, Disconnect, Chunk, limiter
<1>3. CASE Receive(r)
  <2> DEFINE q == [NoRequest EXCEPT !.step = "body"]
  <2>1. q \in Request /\ q.step = "body" /\ q.answers = 0
    BY DEF NoRequest, Request, Steps
  <2> QED
    BY <1>2, <1>3, <2>1, SetSound DEF Receive, InHand, Whole
<1>4. CASE Disconnect(r)
  BY <1>2, <1>4, NoRequestTyped, SetSound DEF Disconnect, InHand, Whole
<1>5. ASSUME NEW bytes \in 0..MaxBytes + 1, NEW last \in BOOLEAN, Chunk(r, bytes, last)
      PROVE IInv'
  <2> DEFINE size == request[r].size + bytes
             read == IF last /\ size =< MaxBytes THEN "whole" ELSE "part"
             taken == [request[r] EXCEPT !.size = size, !.read = read]
             zero == 0
             handed == [taken EXCEPT !.step = "arrive", !.size = zero]
  <2>1. request[r].step = "body" /\ size \in Int /\ read \in {"part", "whole"} /\ zero \in Int
    <3>1. request[r].step = "body"
      BY <1>5, Zenon DEF Chunk
    <3>2. request[r].size \in Int /\ bytes \in Int
      BY <1>1 DEF Request
    <3> QED
      BY <3>1, <3>2
  <2>2. \/ Deliver(r, 413, 0)
        \/ Set(r, taken)
        \/ Set(r, handed) /\ read = "whole"
    BY <1>5 DEF Chunk
  <2> HIDE DEF size, read, zero
  <2>3. /\ taken \in Request /\ taken.step = "body" /\ taken.answers = request[r].answers
        /\ handed \in Request /\ handed.step = "arrive" /\ handed.answers = request[r].answers
        /\ handed.read = read
    BY <1>1, <2>1 DEF Request, Steps
  <2> HIDE DEF taken, handed
  <2>4. InHand(taken) /\ Whole(taken)
    BY <1>1, <2>1, <2>3 DEF InHand, Whole
  <2>5. read = "whole" => InHand(handed) /\ Whole(handed)
    BY <1>1, <2>1, <2>3 DEF InHand, Whole
  <2>6. CASE Deliver(r, 413, 0)
    <3>1. request[r].route = "api" => 413 # 200
      OBVIOUS
    <3> QED
      BY <1>2, <2>1, <2>6, <3>1, DeliverSound
  <2> QED
    BY <1>2, <2>2, <2>3, <2>4, <2>5, <2>6, SetSound
<1> QED
  BY <1>3, <1>4, <1>5

\* The request passes the middleware.
LEMMA EnterSound ==
    ASSUME IInv, NEW r \in Requests, NEW client \in Clients, Enter(r, client) PROVE IInv'
<1>1. request[r].step = "arrive" /\ UNCHANGED clock /\ clock \in Int
  BY DEF Enter, limiter, IInv, Typed
<1>2. CASE Deliver(r, 422, 0)
  BY <1>1, <1>2, DeliverSound
<1>3. CASE Set(r, [NoRequest EXCEPT !.step = "decide", !.client = client, !.now = clock])
  <2> DEFINE q == [NoRequest EXCEPT !.step = "decide", !.client = client, !.now = clock]
  <2>1. q \in Request /\ q.step = "decide" /\ q.answers = 0
    BY <1>1, NoRequestTyped DEF Request, Steps
  <2> HIDE DEF q
  <2>2. InHand(q) /\ Whole(q)
    BY <2>1 DEF InHand, Whole
  <2>3. Set(r, q)
    BY <1>3 DEF q
  <2> QED
    BY <1>1, <2>1, <2>2, <2>3, SetSound
<1> QED
  BY <1>2, <1>3 DEF Enter

\* Whatever the limiter decides: input reaches the service only when it is good.
LEMMA DecideSound ==
    ASSUME IInv, NEW r \in Requests, NEW route \in Routes, NEW input \in Inputs,
           Decide(r, route, input)
    PROVE  IInv'
<1> DEFINE sent == [NoRequest EXCEPT !.route = route, !.input = input]
<1>1. UNCHANGED clock /\ (route = "api" => input = "good")
  BY DEF Decide
<1>2. \/ Set(r, [sent EXCEPT !.step = Parse(input)])
      \/ Set(r, [sent EXCEPT !.step = "done", !.status = IF route \in Forms THEN 200 ELSE 429])
  BY DEF Decide
<1>3. /\ sent \in Request /\ sent.route = route /\ sent.input = input
      /\ sent.answers = 0 /\ sent.shown = 0
  BY NoRequestTyped DEF Request
<1> HIDE DEF sent
<1>4. CASE Set(r, [sent EXCEPT !.step = Parse(input)])
  <2> DEFINE q == [sent EXCEPT !.step = Parse(input)]
  <2>1. q \in Request /\ q.step = Parse(input) /\ q.answers = 0 /\ q.route = route /\ q.input = input
    BY <1>3 DEF Request, Steps, Parse
  <2> HIDE DEF q
  <2>2. InHand(q) /\ Whole(q)
    BY <1>1, <2>1 DEF InHand, Whole, Parse, WantedBy, Routes, Forms, Inputs
  <2>3. Set(r, q)
    BY <1>4 DEF q
  <2> QED
    BY <1>1, <2>1, <2>2, <2>3, SetSound
<1>5. CASE Set(r, [sent EXCEPT !.step = "done", !.status = IF route \in Forms THEN 200 ELSE 429])
  <2> DEFINE status == IF route \in Forms THEN 200 ELSE 429
             q == [sent EXCEPT !.step = "done", !.status = status]
  <2>1. Set(r, q)
    BY <1>5
  <2>2. status \in Nat /\ (route = "api" => status = 429)
    BY DEF Forms
  <2> HIDE DEF status
  <2>3. q \in Request /\ q.step = "done" /\ q.answers = 0 /\ q.shown = 0 /\ q.route = route
        /\ q.status = status
    BY <1>3, <2>2 DEF Request, Steps
  <2> HIDE DEF q
  <2>4. InHand(q) /\ Whole(q)
    BY <2>2, <2>3 DEF InHand, Whole
  <2> QED
    BY <1>1, <2>1, <2>3, <2>4, SetSound
<1> QED
  BY <1>2, <1>4, <1>5

\* A failed answer becomes a response.
LEMMA FailSound ==
    ASSUME IInv, NEW r \in Requests, NEW failure \in Failures, Fail(r, failure), UNCHANGED clock,
           request[r].step = "ask"
    PROVE  IInv'
<1>1. CASE request[r].route \in Forms /\ failure # "bug"
  BY <1>1, DeliverSound DEF Fail, ShownThen, Forms
<1>2. CASE ~(request[r].route \in Forms /\ failure # "bug")
  <2>1. StatusOf(failure) \in {429, 502, 503, 500}
    BY DEF StatusOf, Failures
  <2> QED
    BY <1>2, <2>1, DeliverSound DEF Fail
<1> QED
  BY <1>1, <1>2

\* A comparison goes on after its first answer, and shows both after its second.
LEMMA AskSound == ASSUME IInv, NEW r \in Requests, Ask(r) PROVE IInv'
<1> DEFINE answers == request[r].answers + 1
           answered == [request[r] EXCEPT !.answers = answers]
<1>1. request[r] \in Request /\ InHand(request[r]) /\ Wanted(r) = WantedBy(request[r])
      /\ request[r].step = "ask" /\ UNCHANGED clock
  BY Known DEF Ask, limiter
<1>2. answers \in Nat
  BY <1>1 DEF Request
<1>3. CASE answers < Wanted(r) /\ Set(r, answered)
  <2>1. answered \in Request /\ answered.step = "ask" /\ answered.answers = answers
        /\ answered.route = request[r].route /\ answered.input = request[r].input
    BY <1>1, <1>2 DEF Request
  <2>2. InHand(answered) /\ Whole(answered)
    BY <1>1, <1>3, <2>1 DEF InHand, Whole, WantedBy
  <2> QED
    BY <1>1, <1>3, <2>1, <2>2, SetSound
<1>4. CASE /\ answers = Wanted(r)
           /\ Set(r, [answered EXCEPT !.step = "done", !.status = 200, !.shown = answers])
  <2> DEFINE q == [answered EXCEPT !.step = "done", !.status = 200, !.shown = answers]
  <2>1. q \in Request /\ q.step = "done" /\ q.answers = answers /\ q.shown = answers
        /\ q.status = 200 /\ q.route = request[r].route /\ q.input = request[r].input
    BY <1>1, <1>2 DEF Request, Steps
  <2> HIDE DEF q
  <2>2. InHand(q) /\ Whole(q)
    BY <1>1, <1>4, <2>1 DEF InHand, Whole, WantedBy
  <2>3. Set(r, q)
    BY <1>4 DEF q
  <2> QED
    BY <1>1, <2>1, <2>2, <2>3, SetSound
<1>5. ASSUME NEW failure \in Failures, Fail(r, failure) PROVE IInv'
  BY <1>1, <1>5, FailSound
<1> QED
  BY <1>3, <1>4, <1>5 DEF Ask

\* Every step keeps the invariant.
LEMMA StepIInv == ASSUME IInv, [Next]_vars PROVE IInv'
<1>1. CASE Tick \/ UNCHANGED vars
  <2>1. UNCHANGED request /\ clock' \in Int
    <3>1. CASE Tick
      <4>1. request' = request /\ clock' = clock + 1
        BY <3>1, Zenon DEF Tick
      <4> QED
        BY <4>1 DEF IInv, Typed
    <3>2. CASE UNCHANGED vars
      BY <3>2 DEF vars, IInv, Typed
    <3> QED
      BY <1>1, <3>1, <3>2
  <2> QED
    BY <2>1 DEF IInv, Typed
<1>2. ASSUME NEW r \in Requests, InvalidForm(r) PROVE IInv'
  <2>1. request[r].step = "invalid" /\ Deliver(r, 200, 0) /\ UNCHANGED clock
    BY <1>2 DEF InvalidForm, limiter
  <2>2. request[r].route # "api"
    BY <2>1, Known DEF InHand, Forms
  <2> QED
    BY <2>1, <2>2, DeliverSound
<1> QED
  BY <1>1, <1>2, BodySound, EnterSound, DecideSound, AskSound DEF Next

\* So it holds throughout.
LEMMA InvariantHolds == Spec => []IInv
<1> QED
  BY InitIInv, StepIInv, PTL DEF Spec

\* However many requests run: a comparison shows both answers or none, JSON has an
\* answer exactly with status 200, and wrong input costs no answer.
THEOREM ServesWhole == Spec => []ServedWhole
<1>1. IInv => ServedWhole
  BY Known DEF IInv, Whole, ServedWhole
<1> QED
  BY InvariantHolds, <1>1, PTL

-----------------------------------------------------------------------------
(* The times of a window.                                                   *)

\* A nonempty set of natural numbers has a least one.
LEMMA Least ==
    ASSUME NEW S, S \subseteq Nat, S # {}
    PROVE  LET m == CHOOSE i \in S : \A j \in S : i =< j IN m \in S /\ \A j \in S : m =< j
<1>1. PICK m \in S : \A j \in S : <<j, m>> \notin OpToRel(<, Nat)
  BY NatLessThanWellFounded, WFMin
<1>2. \A j \in S : m =< j
  <2> SUFFICES ASSUME NEW j \in S, ~(m =< j) PROVE FALSE
    OBVIOUS
  <2>1. j < m /\ <<j, m>> \in Nat \X Nat
    OBVIOUS
  <2>2. <<j, m>> \in OpToRel(<, Nat)
    BY <2>1 DEF OpToRel
  <2> QED
    BY <1>1, <2>2
<1> QED
  BY <1>2

\* The times b, m of them, are the last of the n times a; those left out are within the limit.
Ends(b, m, a, n, limit) ==
    \E cut \in Nat :
        /\ n = cut + m
        /\ \A i \in 1..m : b[i] = a[cut + i]
        /\ \A i \in 1..cut : a[i] =< limit

\* What After leaves.
LEMMA AfterEnds ==
    ASSUME NEW times \in Seq(Int), NEW limit \in Int
    PROVE  LET rest == After(times, limit) IN
           /\ rest \in Seq(Int) /\ Ends(rest, Len(rest), times, Len(times), limit)
           /\ Len(rest) > 0 => rest[1] > limit
<1> DEFINE late == {i \in DOMAIN times : times[i] > limit}
           first == CHOOSE i \in late : \A j \in late : i =< j
<1>1. Len(times) \in Nat /\ DOMAIN times = 1..Len(times) /\ \A i \in 1..Len(times) : times[i] \in Int
  OBVIOUS
<1>2. CASE late = {}
  <2>1. After(times, limit) = <<>>
    BY <1>2 DEF After
  <2>2. Ends(<<>>, 0, times, Len(times), limit)
    <3>1. Len(times) = Len(times) + 0 /\ \A i \in 1..0 : <<>>[i] = times[Len(times) + i]
      BY <1>1
    <3>2. \A i \in 1..Len(times) : times[i] =< limit
      BY <1>1, <1>2
    <3> QED
      BY <1>1, <3>1, <3>2 DEF Ends
  <2> QED
    BY <2>1, <2>2
<1>3. CASE late # {}
  <2>1. late \subseteq Nat
    BY <1>1
  <2>2. first \in late /\ \A j \in late : first =< j
    <3> HIDE DEF late
    <3> QED
      BY <1>3, <2>1, Least
  <2>3. After(times, limit) = SubSeq(times, first, Len(times))
    BY <1>3 DEF After
  <2> HIDE DEF first
  <2>4. first \in 1..Len(times) /\ times[first] > limit /\ \A i \in 1..Len(times) : i < first => times[i] =< limit
    BY <1>1, <2>2
  <2> DEFINE rest == SubSeq(times, first, Len(times))
  <2>5. /\ rest \in Seq(Int) /\ Len(rest) = Len(times) - first + 1
        /\ \A i \in 1..Len(rest) : rest[i] = times[first + i - 1]
    BY <1>1, <2>4
  <2> HIDE DEF rest, late
  <2>6. Len(rest) > 0 /\ rest[1] > limit
    BY <1>1, <2>4, <2>5
  <2>7. Ends(rest, Len(rest), times, Len(times), limit)
    <3>1. first - 1 \in Nat /\ Len(times) = (first - 1) + Len(rest)
      BY <1>1, <2>4, <2>5
    <3>2. \A i \in 1..Len(rest) : rest[i] = times[(first - 1) + i]
      <4>1. \A i \in 1..Len(rest) : first + i - 1 = (first - 1) + i
        BY <2>4
      <4> QED
        BY <2>5, <4>1
    <3>3. \A i \in 1..(first - 1) : times[i] =< limit
      BY <1>1, <2>4
    <3> QED
      BY <3>1, <3>2, <3>3 DEF Ends
  <2> QED
    BY <2>3, <2>5, <2>6, <2>7 DEF rest
<1> QED
  BY <1>2, <1>3

-----------------------------------------------------------------------------
\* A client's history h of m times and its n admissions a, when the clock says now.  Both
\* may have lost their oldest entries; counted from the end they are the same admissions,
\* by the time the thread had read and by the time it was.  What the history has lost no
\* longer counts for a window, and what the admissions have lost no history keeps.
Aligned(h, m, a, n, now) ==
    /\ m \in Nat /\ n \in Nat /\ now \in Int
    /\ \A i \in 1..m : h[i] \in Int
    /\ \A j \in 1..n : a[j] \in Int /\ a[j] =< now
    /\ \A i, j \in 1..n : i =< j => a[i] =< a[j]
    /\ \A i \in 1..m, j \in 1..n : i + n = j + m => h[i] =< a[j] /\ a[j] =< h[i] + MaxStall
    /\ \A j \in 1..n : j + m =< n => a[j] =< now - Window + MaxStall
    /\ \A i \in 1..m : i + n =< m => h[i] =< now - Window - MaxStall
    /\ \A j \in 1..n : j + PerWindow =< n => a[j + PerWindow] - a[j] >= Window - MaxStall

Paired(h, a, now) == h \in Seq(Int) /\ a \in Seq(Int) /\ Aligned(h, Len(h), a, Len(a), now)

Limits == Window \in Nat /\ MaxStall \in Nat /\ PerWindow \in Nat \ {0}

\* Time passes, and admissions too old to matter are dropped.
LEMMA AlignedTick ==
    ASSUME Limits, NEW h, NEW m, NEW a, NEW n, NEW now, Aligned(h, m, a, n, now),
           NEW b, NEW l \in Nat, Ends(b, l, a, n, now + 1 - Window - MaxStall)
    PROVE  Aligned(h, m, b, l, now + 1)
<1> PICK cut \in Nat :
        /\ n = cut + l
        /\ \A i \in 1..l : b[i] = a[cut + i]
        /\ \A i \in 1..cut : a[i] =< now + 1 - Window - MaxStall
  BY DEF Ends
<1>1. m \in Nat /\ n \in Nat /\ now \in Int /\ \A i \in 1..m : h[i] \in Int
  BY DEF Aligned
<1>2. \A j \in 1..n : a[j] \in Int /\ a[j] =< now
  BY DEF Aligned
<1>3. \A i \in 1..l : cut + i \in 1..n /\ b[i] = a[cut + i]
  BY <1>1
<1>4. \A i \in 1..l : b[i] \in Int /\ b[i] =< now + 1
  BY <1>1, <1>2, <1>3
<1>5. \A i, j \in 1..l : i =< j => b[i] =< b[j]
  BY <1>3 DEF Aligned
<1>6. \A i \in 1..m, j \in 1..l : i + l = j + m => h[i] =< b[j] /\ b[j] =< h[i] + MaxStall
  <2> SUFFICES ASSUME NEW i \in 1..m, NEW j \in 1..l, i + l = j + m
               PROVE  h[i] =< b[j] /\ b[j] =< h[i] + MaxStall
    OBVIOUS
  <2>1. i + n = (cut + j) + m
    BY <1>1
  <2> QED
    BY <1>3, <2>1 DEF Aligned
<1>7. \A j \in 1..l : j + m =< l => b[j] =< (now + 1) - Window + MaxStall
  <2> SUFFICES ASSUME NEW j \in 1..l, j + m =< l PROVE b[j] =< (now + 1) - Window + MaxStall
    OBVIOUS
  <2>1. cut + j \in 1..n /\ (cut + j) + m =< n
    BY <1>1
  <2>2. a[cut + j] =< now - Window + MaxStall /\ a[cut + j] \in Int
    BY <1>2, <2>1 DEF Aligned
  <2> QED
    BY <1>1, <1>3, <2>2 DEF Limits
<1>8. \A i \in 1..m : i + l =< m => h[i] =< (now + 1) - Window - MaxStall
  <2> SUFFICES ASSUME NEW i \in 1..m, i + l =< m PROVE h[i] =< (now + 1) - Window - MaxStall
    OBVIOUS
  <2>1. CASE i + n =< m
    <3>1. h[i] =< now - Window - MaxStall
      BY <2>1 DEF Aligned
    <3> QED
      BY <1>1, <3>1 DEF Limits
  <2>2. CASE i + n > m
    <3>1. (i + n) - m \in 1..cut /\ (i + n) - m \in 1..n /\ i + n = ((i + n) - m) + m
      BY <1>1, <2>2
    <3>2. h[i] =< a[(i + n) - m]
      BY <3>1 DEF Aligned
    <3> QED
      BY <1>1, <1>2, <3>1, <3>2 DEF Limits
  <2> QED
    BY <1>1, <2>1, <2>2
<1>9. \A j \in 1..l : j + PerWindow =< l => b[j + PerWindow] - b[j] >= Window - MaxStall
  <2> SUFFICES ASSUME NEW j \in 1..l, j + PerWindow =< l
               PROVE  b[j + PerWindow] - b[j] >= Window - MaxStall
    OBVIOUS
  <2>1. j + PerWindow \in 1..l /\ (cut + j) + PerWindow =< n /\ cut + (j + PerWindow) = (cut + j) + PerWindow
    BY DEF Limits
  <2>2. b[j] = a[cut + j] /\ b[j + PerWindow] = a[(cut + j) + PerWindow] /\ cut + j \in 1..n
    BY <1>3, <2>1
  <2> QED
    BY <2>1, <2>2 DEF Aligned
<1>10. now + 1 \in Int
  BY <1>1
<1> QED
  BY <1>1, <1>4, <1>5, <1>6, <1>7, <1>8, <1>9, <1>10 DEF Aligned

\* Expired times leave the front of a history.
LEMMA AlignedTrim ==
    ASSUME Limits, NEW h, NEW m, NEW a, NEW n, NEW now, Aligned(h, m, a, n, now),
           NEW read \in Int, read =< now, NEW g, NEW l \in Nat, Ends(g, l, h, m, read - Window)
    PROVE  Aligned(g, l, a, n, now)
<1> PICK cut \in Nat :
        /\ m = cut + l
        /\ \A i \in 1..l : g[i] = h[cut + i]
        /\ \A i \in 1..cut : h[i] =< read - Window
  BY DEF Ends
<1>1. m \in Nat /\ n \in Nat /\ now \in Int /\ \A i \in 1..m : h[i] \in Int
  BY DEF Aligned
<1>2. /\ \A j \in 1..n : a[j] \in Int /\ a[j] =< now
      /\ \A i, j \in 1..n : i =< j => a[i] =< a[j]
      /\ \A j \in 1..n : j + PerWindow =< n => a[j + PerWindow] - a[j] >= Window - MaxStall
  BY DEF Aligned
<1>3. \A i \in 1..l : cut + i \in 1..m /\ g[i] = h[cut + i] /\ g[i] \in Int
  BY <1>1
<1>4. \A i \in 1..l, j \in 1..n : i + n = j + l => g[i] =< a[j] /\ a[j] =< g[i] + MaxStall
  <2> SUFFICES ASSUME NEW i \in 1..l, NEW j \in 1..n, i + n = j + l
               PROVE  g[i] =< a[j] /\ a[j] =< g[i] + MaxStall
    OBVIOUS
  <2>1. (cut + i) + n = j + m
    BY <1>1
  <2> QED
    BY <1>3, <2>1 DEF Aligned
<1>5. \A i \in 1..l : i + n =< l => g[i] =< now - Window - MaxStall
  <2> SUFFICES ASSUME NEW i \in 1..l, i + n =< l PROVE g[i] =< now - Window - MaxStall
    OBVIOUS
  <2>1. (cut + i) + n =< m
    BY <1>1
  <2> QED
    BY <1>3, <2>1 DEF Aligned
<1>6. \A j \in 1..n : j + l =< n => a[j] =< now - Window + MaxStall
  <2> SUFFICES ASSUME NEW j \in 1..n, j + l =< n PROVE a[j] =< now - Window + MaxStall
    OBVIOUS
  <2>1. CASE j + m =< n
    BY <2>1 DEF Aligned
  <2>2. CASE j + m > n
    <3>1. (j + m) - n \in 1..cut /\ (j + m) - n \in 1..m /\ ((j + m) - n) + n = j + m
      BY <1>1, <2>2
    <3>2. a[j] =< h[(j + m) - n] + MaxStall
      BY <3>1 DEF Aligned
    <3> QED
      BY <1>1, <1>2, <3>1, <3>2 DEF Limits
  <2> QED
    BY <1>1, <2>1, <2>2
<1> QED
  BY <1>1, <1>2, <1>3, <1>4, <1>5, <1>6 DEF Aligned

\* An idle client is forgotten: its last admission has expired, and those before it,
\* whatever the history says of them, were no later.
LEMMA AlignedForget ==
    ASSUME Limits, NEW h, NEW m, NEW a, NEW n, NEW now, Aligned(h, m, a, n, now),
           NEW read \in Int, read =< now, m > 0 => h[m] =< read - Window
    PROVE  Aligned(<<>>, 0, a, n, now)
<1>1. m \in Nat /\ n \in Nat /\ now \in Int /\ \A i \in 1..m : h[i] \in Int
  BY DEF Aligned
<1>2. /\ \A j \in 1..n : a[j] \in Int /\ a[j] =< now
      /\ \A i, j \in 1..n : i =< j => a[i] =< a[j]
      /\ \A j \in 1..n : j + PerWindow =< n => a[j + PerWindow] - a[j] >= Window - MaxStall
  BY DEF Aligned
<1>3. \A j \in 1..n : a[j] =< now - Window + MaxStall
  <2> SUFFICES ASSUME NEW j \in 1..n PROVE a[j] =< now - Window + MaxStall
    OBVIOUS
  <2>1. CASE m = 0
    <3>1. j + m =< n
      BY <1>1, <2>1
    <3> QED
      BY <3>1 DEF Aligned
  <2>2. CASE m > 0
    <3>1. m \in 1..m /\ n \in 1..n /\ m + n = n + m
      BY <1>1, <2>2
    <3>2. a[n] =< h[m] + MaxStall
      BY <3>1 DEF Aligned
    <3>3. a[j] =< a[n]
      BY <1>1, <1>2
    <3> QED
      BY <1>1, <1>2, <2>2, <3>1, <3>2, <3>3 DEF Limits
  <2> QED
    BY <1>1, <2>1, <2>2
<1> QED
  BY <1>1, <1>2, <1>3 DEF Aligned

\* One more admission: the one PerWindow before it has left the history.
LEMMA AlignedAdmit ==
    ASSUME Limits, NEW h, NEW m, NEW a, NEW n, NEW now, Aligned(h, m, a, n, now),
           NEW read \in Int, read =< now, now =< read + MaxStall, m < PerWindow,
           NEW g, NEW b, g[m + 1] = read, b[n + 1] = now,
           \A i \in 1..m : g[i] = h[i], \A j \in 1..n : b[j] = a[j]
    PROVE  Aligned(g, m + 1, b, n + 1, now)
<1>1. m \in Nat /\ n \in Nat /\ m + 1 \in Nat /\ n + 1 \in Nat /\ now \in Int /\ \A i \in 1..m : h[i] \in Int
  BY DEF Aligned
<1>2. /\ \A j \in 1..n : a[j] \in Int /\ a[j] =< now
      /\ \A i, j \in 1..n : i =< j => a[i] =< a[j]
  BY DEF Aligned
<1>3. \A i \in 1..m + 1 : i \in 1..m \/ i = m + 1
  BY <1>1
<1>4. \A j \in 1..n + 1 : j \in 1..n \/ j = n + 1
  BY <1>1
<1>5. \A i \in 1..m + 1 : g[i] \in Int
  BY <1>1, <1>3
<1>6. \A j \in 1..n + 1 : b[j] \in Int /\ b[j] =< now
  BY <1>1, <1>2, <1>4
<1>7. \A i, j \in 1..n + 1 : i =< j => b[i] =< b[j]
  <2> SUFFICES ASSUME NEW i \in 1..n + 1, NEW j \in 1..n + 1, i =< j PROVE b[i] =< b[j]
    OBVIOUS
  <2>1. CASE j = n + 1
    BY <1>6, <2>1
  <2>2. CASE j # n + 1
    <3>1. i \in 1..n /\ j \in 1..n
      BY <1>1, <2>2
    <3> QED
      BY <1>2, <3>1
  <2> QED
    BY <2>1, <2>2
<1>8. \A i \in 1..m + 1, j \in 1..n + 1 : i + (n + 1) = j + (m + 1) => g[i] =< b[j] /\ b[j] =< g[i] + MaxStall
  <2> SUFFICES ASSUME NEW i \in 1..m + 1, NEW j \in 1..n + 1, i + (n + 1) = j + (m + 1)
               PROVE  g[i] =< b[j] /\ b[j] =< g[i] + MaxStall
    OBVIOUS
  <2>1. CASE i = m + 1
    <3>1. j = n + 1
      BY <1>1, <2>1
    <3> QED
      BY <1>1, <2>1, <3>1
  <2>2. CASE i # m + 1
    <3>1. i \in 1..m /\ j \in 1..n /\ i + n = j + m
      BY <1>1, <2>2
    <3>2. h[i] =< a[j] /\ a[j] =< h[i] + MaxStall
      BY <3>1 DEF Aligned
    <3> QED
      BY <3>1, <3>2
  <2> QED
    BY <2>1, <2>2
<1>9. \A j \in 1..n + 1 : j + (m + 1) =< n + 1 => b[j] =< now - Window + MaxStall
  <2> SUFFICES ASSUME NEW j \in 1..n + 1, j + (m + 1) =< n + 1 PROVE b[j] =< now - Window + MaxStall
    OBVIOUS
  <2>1. j \in 1..n /\ j + m =< n
    BY <1>1
  <2>2. a[j] =< now - Window + MaxStall
    BY <2>1 DEF Aligned
  <2> QED
    BY <2>1, <2>2
<1>10. \A i \in 1..m + 1 : i + (n + 1) =< m + 1 => g[i] =< now - Window - MaxStall
  <2> SUFFICES ASSUME NEW i \in 1..m + 1, i + (n + 1) =< m + 1 PROVE g[i] =< now - Window - MaxStall
    OBVIOUS
  <2>1. i \in 1..m /\ i + n =< m
    BY <1>1
  <2>2. h[i] =< now - Window - MaxStall
    BY <2>1 DEF Aligned
  <2> QED
    BY <2>1, <2>2
<1>11. \A j \in 1..n + 1 : j + PerWindow =< n + 1 => b[j + PerWindow] - b[j] >= Window - MaxStall
  <2> SUFFICES ASSUME NEW j \in 1..n + 1, j + PerWindow =< n + 1
               PROVE  b[j + PerWindow] - b[j] >= Window - MaxStall
    OBVIOUS
  <2>1. CASE j + PerWindow =< n
    <3>1. j \in 1..n /\ j + PerWindow \in 1..n
      BY <1>1, <2>1 DEF Limits
    <3>2. a[j + PerWindow] - a[j] >= Window - MaxStall
      BY <2>1, <3>1 DEF Aligned
    <3> QED
      BY <3>1, <3>2
  <2>2. CASE j + PerWindow > n
    <3>1. j + PerWindow = n + 1 /\ j \in 1..n /\ j + m =< n
      BY <1>1, <2>2 DEF Limits
    <3>2. a[j] =< now - Window + MaxStall
      BY <3>1 DEF Aligned
    <3> QED
      BY <1>1, <1>2, <3>1, <3>2 DEF Limits
  <2> QED
    BY <1>1, <2>1, <2>2 DEF Limits
<1> QED
  BY <1>1, <1>5, <1>6, <1>7, <1>8, <1>9, <1>10, <1>11 DEF Aligned

\* From a time in a history that is still fresh on, all admissions are recent.
LEMMA AlignedRecent ==
    ASSUME Limits, NEW h, NEW m, NEW a, NEW n, NEW now, Aligned(h, m, a, n, now),
           NEW read \in Int, now =< read + MaxStall, NEW i \in 1..m, h[i] > read - Window,
           NEW b, NEW l \in Nat, Ends(b, l, a, n, now - Window - MaxStall)
    PROVE  l + i > m
<1> PICK cut \in Nat :
        /\ n = cut + l
        /\ \A j \in 1..l : b[j] = a[cut + j]
        /\ \A j \in 1..cut : a[j] =< now - Window - MaxStall
  BY DEF Ends
<1>1. m \in Nat /\ n \in Nat /\ now \in Int /\ h[i] \in Int /\ h[i] > now - Window - MaxStall
  BY DEF Aligned, Limits
<1>2. \A j \in 1..n : a[j] \in Int
  BY DEF Aligned
<1>3. i + n > m
  <2> SUFFICES ASSUME i + n =< m PROVE FALSE
    BY <1>1
  <2>1. h[i] =< now - Window - MaxStall
    BY DEF Aligned
  <2> QED
    BY <1>1, <2>1 DEF Limits
<1> DEFINE j == (i + n) - m
<1>4. j \in 1..n /\ i + n = j + m
  BY <1>1, <1>3
<1> HIDE DEF j
<1>5. h[i] =< a[j] /\ a[j] \in Int
  BY <1>2, <1>4 DEF Aligned
<1>6. j \notin 1..cut
  BY <1>1, <1>5 DEF Limits
<1> QED
  BY <1>1, <1>4, <1>6

-----------------------------------------------------------------------------
(* The limiter among its requests.                                          *)

History(c) == IF c \in DOMAIN clients THEN clients[c] ELSE <<>>
\* A thread on its way to the lock has read the clock a while ago.
Waiting(q) ==
    q.step = "decide" => q.client \in Clients /\ q.now =< clock /\ clock =< q.now + MaxStall
LimiterOK ==
    /\ DOMAIN clients \subseteq Clients /\ IsFiniteSet(DOMAIN clients)
    /\ admissions = [c \in Clients |-> admissions[c]]
    /\ IsFiniteSet({c \in Clients : Len(admissions[c]) > 0})
    /\ \A c \in Clients : Paired(History(c), admissions[c], clock)
    /\ \A r \in Requests : Waiting(request[r])

\* The constants.
LEMMA TheLimits == Limits /\ Capacity \in Nat
BY LimiterAssumption, ClockAssumption DEF Limits

\* No times at all.
LEMMA NothingPaired == Paired(<<>>, <<>>, 0)
<1>1. Aligned(<<>>, 0, <<>>, 0, 0)
  BY DEF Aligned
<1> QED
  BY <1>1 DEF Paired

\* It holds initially.
LEMMA InitLimiterOK == Init => LimiterOK
<1> SUFFICES ASSUME Init PROVE LimiterOK
  OBVIOUS
<1>1. clients = [c \in {} |-> <<>>] /\ DOMAIN clients = {} /\ clock = 0
      /\ admissions = [c \in Clients |-> <<>>]
  BY DEF Init
<1>2. {c \in Clients : Len(admissions[c]) > 0} = {}
  BY <1>1
<1>3. \A c \in Clients : Paired(History(c), admissions[c], clock)
  BY <1>1, NothingPaired DEF History
<1>4. \A r \in Requests : request[r].step = "idle"
  BY DEF Init, NoRequest
<1> QED
  BY <1>1, <1>2, <1>3, <1>4, FS_EmptySet DEF LimiterOK, Waiting

\* A step that leaves the limiter alone, of a request that is not let through by it.
LEMMA SetKeeps ==
    ASSUME LimiterOK, IInv, NEW r \in Requests, NEW q, Set(r, q), UNCHANGED limiter,
           q.step = "decide" => q.client \in Clients /\ q.now = clock
    PROVE  LimiterOK'
<1>1. UNCHANGED <<clock, clients, admissions>>
  BY DEF limiter
<1>2. \A c \in Clients : History(c)' = History(c)
  BY <1>1 DEF History
<1>3. \A x \in Requests : request'[x] = IF x = r THEN q ELSE request[x]
  BY DEF Set, IInv, Typed
<1>4. clock =< clock + MaxStall /\ clock =< clock
  BY TheLimits DEF IInv, Typed, Limits
<1>5. \A x \in Requests : Waiting(request[x])'
  BY <1>1, <1>3, <1>4 DEF Waiting, LimiterOK
<1>6. \A c \in Clients : Paired(History(c), admissions[c], clock)'
  <2>1. \A c \in Clients : Paired(History(c), admissions[c], clock)
    BY DEF LimiterOK
  <2> QED
    BY <1>1, <1>2, <2>1 DEF Paired, Aligned
<1>7. /\ DOMAIN clients' \subseteq Clients /\ IsFiniteSet(DOMAIN clients')
      /\ admissions' = [c \in Clients |-> admissions'[c]]
      /\ IsFiniteSet({c \in Clients : Len(admissions'[c]) > 0})
  BY <1>1 DEF LimiterOK
<1> QED
  BY <1>5, <1>6, <1>7 DEF LimiterOK

\* The steps of a request before and after its admission.
LEMMA RequestKeeps ==
    ASSUME LimiterOK, IInv, NEW r \in Requests,
           \/ Receive(r) \/ Disconnect(r)
           \/ \E bytes \in 0..MaxBytes + 1, last \in BOOLEAN : Chunk(r, bytes, last)
           \/ \E client \in Clients : Enter(r, client)
           \/ InvalidForm(r) \/ Ask(r)
    PROVE  LimiterOK'
<1>1. request[r] \in Request
  BY Known
<1>2. UNCHANGED limiter
  BY DEF Receive, Disconnect, Chunk, Enter, InvalidForm, Ask
<1>3. NoRequest.step # "decide"
  BY NoRequestTyped
<1>4. ASSUME NEW status, NEW shown, Deliver(r, status, shown) PROVE LimiterOK'
  <2> DEFINE q == [request[r] EXCEPT !.step = "done", !.client = None, !.size = 0, !.read = "part",
                                     !.now = 0, !.status = status, !.shown = shown]
  <2>1. q.step = "done"
    BY <1>1 DEF Request
  <2>2. Set(r, q)
    BY <1>4 DEF Deliver
  <2> HIDE DEF q
  <2> QED
    BY <1>2, <2>1, <2>2, SetKeeps
<1>5. CASE Receive(r) \/ Disconnect(r)
  <2> DEFINE q == [NoRequest EXCEPT !.step = "body"]
  <2>1. q.step = "body"
    BY DEF NoRequest
  <2> HIDE DEF q
  <2>2. Set(r, q) \/ Set(r, NoRequest)
    BY <1>5 DEF Receive, Disconnect, q
  <2> QED
    BY <1>2, <1>3, <2>1, <2>2, SetKeeps
<1>6. ASSUME NEW bytes \in 0..MaxBytes + 1, NEW last \in BOOLEAN, Chunk(r, bytes, last)
      PROVE LimiterOK'
  <2> DEFINE size == request[r].size + bytes
             q == [request[r] EXCEPT
                 !.size = size, !.read = IF last /\ size =< MaxBytes THEN "whole" ELSE "part"]
             p == [q EXCEPT !.step = "arrive", !.size = 0]
  <2>1. request[r].step = "body" /\ (Deliver(r, 413, 0) \/ Set(r, q) \/ Set(r, p))
    BY <1>6 DEF Chunk
  <2>2. q.step = "body" /\ p.step = "arrive"
    BY <1>1, <2>1 DEF Request
  <2> HIDE DEF q, p
  <2> QED
    BY <1>2, <1>4, <2>1, <2>2, SetKeeps
<1>7. ASSUME NEW client \in Clients, Enter(r, client) PROVE LimiterOK'
  <2> DEFINE q == [NoRequest EXCEPT !.step = "decide", !.client = client, !.now = clock]
  <2>1. Deliver(r, 422, 0) \/ Set(r, q)
    BY <1>7 DEF Enter
  <2>2. q.client = client /\ q.now = clock
    BY DEF NoRequest
  <2> HIDE DEF q
  <2> QED
    BY <1>2, <1>4, <2>1, <2>2, SetKeeps
<1>8. CASE InvalidForm(r)
  BY <1>4, <1>8 DEF InvalidForm
<1>9. CASE Ask(r)
  <2> DEFINE answers == request[r].answers + 1
             q == [request[r] EXCEPT !.answers = answers]
             p == [q EXCEPT !.step = "done", !.status = 200, !.shown = answers]
  <2>1. /\ request[r].step = "ask"
        /\ Set(r, q) \/ Set(r, p) \/ \E failure \in Failures : Fail(r, failure)
    BY <1>9 DEF Ask
  <2>2. q.step = "ask" /\ p.step = "done"
    BY <1>1, <2>1 DEF Request
  <2>3. (\E failure \in Failures : Fail(r, failure)) => LimiterOK'
    BY <1>4 DEF Fail
  <2> HIDE DEF q, p
  <2> QED
    BY <1>2, <2>1, <2>2, <2>3, SetKeeps
<1> QED
  BY <1>5, <1>6, <1>7, <1>8, <1>9

\* Time passes.
LEMMA TickKeeps == ASSUME LimiterOK, IInv, Tick PROVE LimiterOK'
<1> DEFINE limit == clock' - Window - MaxStall
<1>1. /\ clock' = clock + 1 /\ UNCHANGED clients /\ UNCHANGED request
      /\ \A r \in Requests : request[r].step = "decide" => clock < request[r].now + MaxStall
      /\ admissions' = [c \in Clients |-> After(admissions[c], limit)]
  BY DEF Tick
<1>2. clock \in Int /\ limit \in Int /\ limit = clock + 1 - Window - MaxStall
  BY <1>1, TheLimits DEF IInv, Typed, Limits
<1>3. \A r \in Requests : Waiting(request[r])'
  <2> SUFFICES ASSUME NEW r \in Requests, request[r].step = "decide"
               PROVE  request[r].client \in Clients /\ request[r].now =< clock + 1
                      /\ clock + 1 =< request[r].now + MaxStall
    BY <1>1 DEF Waiting
  <2>1. request[r].now \in Int /\ request[r].now =< clock /\ request[r].client \in Clients
    BY Known DEF LimiterOK, Waiting, Request
  <2> QED
    BY <1>1, <1>2, <2>1, TheLimits DEF Limits
<1>4. ASSUME NEW c \in Clients
      PROVE  /\ Paired(History(c), After(admissions[c], limit), clock + 1)
             /\ Len(After(admissions[c], limit)) > 0 => Len(admissions[c]) > 0
  <2> DEFINE h == History(c)
             a == admissions[c]
             b == After(a, limit)
  <2>1. h \in Seq(Int) /\ a \in Seq(Int) /\ Aligned(h, Len(h), a, Len(a), clock)
    BY DEF LimiterOK, Paired
  <2>2. b \in Seq(Int) /\ Len(b) \in Nat /\ Ends(b, Len(b), a, Len(a), limit)
    BY <1>2, <2>1, AfterEnds
  <2> HIDE DEF h, a, b, limit
  <2>3. Aligned(h, Len(h), b, Len(b), clock + 1)
    BY <1>2, <2>1, <2>2, TheLimits, AlignedTick
  <2>4. Len(b) > 0 => Len(a) > 0
    <3>1. Len(a) \in Nat
      BY <2>1
    <3> QED
      BY <2>2, <3>1 DEF Ends
  <2> QED
    BY <2>1, <2>2, <2>3, <2>4 DEF Paired, h, a, b
<1>5. \A c \in Clients : History(c)' = History(c) /\ admissions'[c] = After(admissions[c], limit)
  BY <1>1 DEF History
<1> HIDE DEF limit
<1>6. \A c \in Clients : Paired(History(c)', admissions'[c], clock')
  BY <1>1, <1>4, <1>5
<1>7. \A c \in Clients : Paired(History(c), admissions[c], clock)'
  BY <1>6 DEF Paired, Aligned
<1>8. IsFiniteSet({c \in Clients : Len(admissions'[c]) > 0})
  <2>1. {c \in Clients : Len(admissions'[c]) > 0} \subseteq {c \in Clients : Len(admissions[c]) > 0}
    BY <1>4, <1>5
  <2> QED
    BY <2>1, FS_Subset DEF LimiterOK
<1>9. DOMAIN clients' \subseteq Clients /\ IsFiniteSet(DOMAIN clients')
      /\ admissions' = [c \in Clients |-> admissions'[c]]
  BY <1>1, <1>5 DEF LimiterOK
<1> QED
  BY <1>3, <1>7, <1>8, <1>9 DEF LimiterOK

\* What is remembered of a client in a table.
Of(table, c) == IF c \in DOMAIN table THEN table[c] ELSE <<>>

\* Pruning forgets idle clients only, and those only when the table is full.
LEMMA PruneKeeps ==
    ASSUME LimiterOK, clock \in Int, NEW read \in Int, read =< clock
    PROVE  LET kept == Prune(clients, read) IN
           /\ DOMAIN kept \subseteq DOMAIN clients
           /\ \A c \in DOMAIN kept : kept[c] = clients[c]
           /\ \A c \in Clients : Paired(Of(kept, c), admissions[c], clock)
           /\ Cardinality(DOMAIN kept) >= Capacity => \A c \in DOMAIN kept : ~Idle(kept[c], read)
<1> DEFINE busy == {c \in DOMAIN clients : ~Idle(clients[c], read)}
           kept == Prune(clients, read)
<1>1. \A c \in Clients : Paired(Of(clients, c), admissions[c], clock)
  BY DEF LimiterOK, History, Of
<1>2. CASE Cardinality(DOMAIN clients) < Capacity
  <2>1. kept = clients
    BY <1>2 DEF Prune
  <2>2. Cardinality(DOMAIN kept) \in Nat /\ ~(Cardinality(DOMAIN kept) >= Capacity)
    BY <1>2, <2>1, TheLimits, FS_CardinalityType DEF LimiterOK
  <2> HIDE DEF kept
  <2>3. \A c \in Clients : Paired(Of(kept, c), admissions[c], clock)
    BY <1>1, <2>1
  <2> QED
    BY <2>1, <2>2, <2>3 DEF kept
<1>3. CASE ~(Cardinality(DOMAIN clients) < Capacity)
  <2>1. kept = [c \in busy |-> clients[c]]
    BY <1>3 DEF Prune, Restrict
  <2> HIDE DEF kept
  <2>2. DOMAIN kept = busy /\ \A c \in busy : kept[c] = clients[c]
    BY <2>1
  <2>3. ASSUME NEW c \in Clients PROVE Paired(Of(kept, c), admissions[c], clock)
    <3>1. CASE c \in busy
      <4>1. Of(kept, c) = Of(clients, c)
        BY <2>2, <3>1 DEF Of
      <4> QED
        BY <1>1, <4>1
    <3>2. CASE c \notin DOMAIN clients
      <4>1. Of(kept, c) = Of(clients, c)
        BY <2>2, <3>2 DEF Of
      <4> QED
        BY <1>1, <4>1
    <3>3. CASE c \in DOMAIN clients /\ Idle(clients[c], read)
      <4> DEFINE h == clients[c]
                 a == admissions[c]
      <4>1. h \in Seq(Int) /\ a \in Seq(Int) /\ Aligned(h, Len(h), a, Len(a), clock)
        <5>1. Of(clients, c) = h
          BY <3>3 DEF Of
        <5> QED
          BY <1>1, <5>1 DEF Paired
      <4>2. Len(h) > 0 => h[Len(h)] =< read - Window
        BY <3>3, <4>1 DEF Idle, Expired
      <4>3. Of(kept, c) = <<>>
        BY <2>2, <3>3 DEF Of
      <4> HIDE DEF h, a
      <4>4. Aligned(<<>>, 0, a, Len(a), clock)
        BY <4>1, <4>2, TheLimits, AlignedForget
      <4>5. Paired(<<>>, a, clock)
        BY <4>1, <4>4 DEF Paired
      <4> QED
        BY <4>3, <4>5 DEF a
    <3> QED
      BY <3>1, <3>2, <3>3
  <2>4. \A c \in DOMAIN kept : ~Idle(kept[c], read)
    BY <2>2
  <2> QED
    BY <2>2, <2>3, <2>4 DEF kept
<1> QED
  BY <1>2, <1>3

\* A client's history, trimmed.
LEMMA TrimKeeps ==
    ASSUME clock \in Int, NEW read \in Int, read =< clock, NEW h, NEW a, Paired(h, a, clock)
    PROVE  /\ Paired(Trim(h, read), a, clock)
           /\ Len(Trim(h, read)) \in Nat
           /\ Len(Trim(h, read)) > 0 => Trim(h, read)[1] > read - Window
<1> DEFINE g == After(h, read - Window)
<1>1. h \in Seq(Int) /\ a \in Seq(Int) /\ Aligned(h, Len(h), a, Len(a), clock)
  BY DEF Paired
<1>2. read - Window \in Int
  BY TheLimits DEF Limits
<1>3. /\ g \in Seq(Int) /\ Len(g) \in Nat /\ Ends(g, Len(g), h, Len(h), read - Window)
      /\ Len(g) > 0 => g[1] > read - Window
  BY <1>1, <1>2, AfterEnds
<1> HIDE DEF g
<1>4. Aligned(g, Len(g), a, Len(a), clock)
  BY <1>1, <1>3, TheLimits, AlignedTrim
<1>5. Paired(g, a, clock)
  BY <1>1, <1>3, <1>4 DEF Paired
<1> QED
  BY <1>3, <1>5 DEF g, Trim

\* What allow() decides, and what it leaves of the table.
LEMMA AllowKeeps ==
    ASSUME LimiterOK, clock \in Int, NEW client \in Clients, NEW read \in Int, read =< clock,
           clock =< read + MaxStall
    PROVE  LET verdict == allow(clients, client, read)
               b == IF verdict.allowed THEN [admissions EXCEPT ![client] = Append(@, clock)]
                                       ELSE admissions
           IN  /\ DOMAIN verdict.clients \subseteq Clients /\ IsFiniteSet(DOMAIN verdict.clients)
               /\ \A c \in Clients : Paired(Of(verdict.clients, c), b[c], clock)
               /\ verdict.allowed \in BOOLEAN
<1> DEFINE kept == Prune(clients, read)
           history == Trim(Of(kept, client), read)
           Table(times) == [c \in DOMAIN kept \cup {client} |-> IF c = client THEN times ELSE kept[c]]
           verdict == allow(clients, client, read)
           b == [admissions EXCEPT ![client] = Append(@, clock)]
<1>1. /\ DOMAIN kept \subseteq DOMAIN clients
      /\ \A c \in Clients : Paired(Of(kept, c), admissions[c], clock)
  BY PruneKeeps
<1>2. DOMAIN kept \subseteq Clients /\ IsFiniteSet(DOMAIN kept) /\ IsFiniteSet(DOMAIN kept \cup {client})
      /\ DOMAIN kept \cup {client} \subseteq Clients
  BY <1>1, FS_Subset, FS_AddElement DEF LimiterOK
<1>3. Paired(history, admissions[client], clock) /\ Len(history) \in Nat
  <2>1. Paired(Of(kept, client), admissions[client], clock)
    BY <1>1
  <2> HIDE DEF kept
  <2> QED
    BY <2>1, TrimKeeps
<1>4. verdict =
        IF client \notin DOMAIN kept /\ Cardinality(DOMAIN kept) >= Capacity
        THEN [allowed |-> FALSE, clients |-> kept]
        ELSE IF Len(history) >= PerWindow
        THEN [allowed |-> FALSE, clients |-> Table(history)]
        ELSE [allowed |-> TRUE, clients |-> Table(Append(history, read))]
  BY DEF allow, Of
<1>5. ASSUME NEW times
      PROVE  /\ DOMAIN Table(times) = DOMAIN kept \cup {client}
             /\ Of(Table(times), client) = times
             /\ \A c \in Clients \ {client} : Of(Table(times), c) = Of(kept, c)
  <2> HIDE DEF kept
  <2> QED
    BY DEF Of
<1>6. \A c \in Clients : b[c] = IF c = client THEN Append(admissions[c], clock) ELSE admissions[c]
  BY DEF LimiterOK
<1> HIDE DEF kept, history, Table, verdict
<1>7. CASE client \notin DOMAIN kept /\ Cardinality(DOMAIN kept) >= Capacity
  <2>1. verdict = [allowed |-> FALSE, clients |-> kept]
    BY <1>4, <1>7
  <2>2. verdict.allowed = FALSE /\ verdict.clients = kept
    BY <2>1
  <2> QED
    BY <1>1, <1>2, <2>2 DEF verdict
<1>8. CASE ~(client \notin DOMAIN kept /\ Cardinality(DOMAIN kept) >= Capacity) /\ Len(history) >= PerWindow
  <2>1. verdict = [allowed |-> FALSE, clients |-> Table(history)]
    BY <1>4, <1>8
  <2>2. verdict.allowed = FALSE /\ verdict.clients = Table(history)
    BY <2>1
  <2>3. \A c \in Clients : Paired(Of(Table(history), c), admissions[c], clock)
    BY <1>1, <1>3, <1>5
  <2> QED
    BY <1>2, <1>5, <2>2, <2>3 DEF verdict
<1>9. CASE ~(client \notin DOMAIN kept /\ Cardinality(DOMAIN kept) >= Capacity) /\ ~(Len(history) >= PerWindow)
  <2> DEFINE g == Append(history, read)
             a == admissions[client]
             longer == Append(a, clock)
  <2>1. verdict = [allowed |-> TRUE, clients |-> Table(g)]
    BY <1>4, <1>9
  <2>2. verdict.allowed = TRUE /\ verdict.clients = Table(g)
    BY <2>1
  <2>3. history \in Seq(Int) /\ a \in Seq(Int) /\ Aligned(history, Len(history), a, Len(a), clock)
    BY <1>3 DEF Paired
  <2>4. /\ g \in Seq(Int) /\ Len(g) = Len(history) + 1 /\ g[Len(history) + 1] = read
        /\ \A i \in 1..Len(history) : g[i] = history[i]
    BY <2>3
  <2>5. /\ longer \in Seq(Int) /\ Len(longer) = Len(a) + 1 /\ longer[Len(a) + 1] = clock
        /\ \A i \in 1..Len(a) : longer[i] = a[i]
    BY <2>3
  <2>6. Len(history) < PerWindow
    BY <1>3, <1>9, TheLimits DEF Limits
  <2> HIDE DEF g, a, longer
  <2>7. Aligned(g, Len(history) + 1, longer, Len(a) + 1, clock)
    BY <2>3, <2>4, <2>5, <2>6, TheLimits, AlignedAdmit
  <2>8. Paired(g, longer, clock)
    BY <2>4, <2>5, <2>7 DEF Paired
  <2>9. \A c \in Clients : Paired(Of(Table(g), c), b[c], clock)
    <3>1. b[client] = longer
      BY <1>6 DEF longer, a
    <3>2. \A c \in Clients \ {client} : b[c] = admissions[c]
      BY <1>6
    <3> HIDE DEF b
    <3> QED
      BY <1>1, <1>5, <2>8, <3>1, <3>2
  <2>10. DOMAIN Table(g) \subseteq Clients /\ IsFiniteSet(DOMAIN Table(g))
    BY <1>2, <1>5
  <2> QED
    BY <2>2, <2>9, <2>10 DEF verdict
<1> QED
  BY <1>7, <1>8, <1>9

\* What is known where the limiter decides.
LEMMA AtTheLock ==
    ASSUME LimiterOK, IInv, NEW r \in Requests, request[r].step = "decide"
    PROVE  /\ clock \in Int /\ request[r].client \in Clients /\ request[r].now \in Int
           /\ request[r].now =< clock /\ clock =< request[r].now + MaxStall
BY Known DEF LimiterOK, Waiting, IInv, Typed, Request

\* The limiter decides.
LEMMA DecideKeeps ==
    ASSUME LimiterOK, IInv, NEW r \in Requests, NEW route \in Routes, NEW input \in Inputs,
           Decide(r, route, input)
    PROVE  LimiterOK'
<1> DEFINE client == request[r].client
           verdict == allow(clients, client, request[r].now)
           sent == [NoRequest EXCEPT !.route = route, !.input = input]
           p == [sent EXCEPT !.step = Parse(input)]
           q == [sent EXCEPT !.step = "done", !.status = IF route \in Forms THEN 200 ELSE 429]
           more == [admissions EXCEPT ![client] = Append(@, clock)]
           b == IF verdict.allowed THEN more ELSE admissions
<1>1. /\ request[r].step = "decide" /\ clients' = verdict.clients /\ clock' = clock
      /\ \/ verdict.allowed /\ admissions' = more /\ Set(r, p)
         \/ ~verdict.allowed /\ admissions' = admissions /\ Set(r, q)
  BY DEF Decide
<1>2. /\ clock \in Int /\ client \in Clients /\ request[r].now \in Int
      /\ request[r].now =< clock /\ clock =< request[r].now + MaxStall
  BY <1>1, AtTheLock
<1>3. p.step # "decide" /\ q.step = "done"
  BY DEF NoRequest, Parse
<1> HIDE DEF p, q, client, more
<1>4. /\ DOMAIN verdict.clients \subseteq Clients /\ IsFiniteSet(DOMAIN verdict.clients)
      /\ \A c \in Clients : Paired(Of(verdict.clients, c), b[c], clock)
  BY <1>2, AllowKeeps DEF more
<1>5. admissions' = b
  BY <1>1
<1> HIDE DEF verdict, b
<1>6. \A c \in Clients : Paired(History(c), admissions[c], clock)'
  <2>1. \A c \in Clients : History(c)' = Of(verdict.clients, c)
    BY <1>1 DEF History, Of
  <2>2. \A c \in Clients : Paired(History(c)', admissions'[c], clock')
    BY <1>1, <1>4, <1>5, <2>1
  <2> QED
    BY <2>2 DEF Paired, Aligned
<1>7. \A x \in Requests : Waiting(request[x])'
  <2>1. \A x \in Requests : x # r => request'[x] = request[x]
    BY <1>1 DEF Set, IInv, Typed
  <2>2. request'[r].step # "decide"
    BY <1>1, <1>3 DEF Set, IInv, Typed
  <2> QED
    BY <1>1, <2>1, <2>2 DEF Waiting, LimiterOK
<1>8. admissions' = admissions \/ admissions' = more
  BY <1>1
<1>9. admissions = [c \in Clients |-> admissions[c]] /\ IsFiniteSet({c \in Clients : Len(admissions[c]) > 0})
  BY DEF LimiterOK
<1>10. admissions' = [c \in Clients |-> admissions'[c]]
  BY <1>8, <1>9 DEF more
<1>11. IsFiniteSet({c \in Clients : Len(admissions'[c]) > 0})
  <2>1. \A c \in Clients : c # client => admissions'[c] = admissions[c]
    BY <1>8, <1>9 DEF more
  <2>2. {c \in Clients : Len(admissions'[c]) > 0} \subseteq {c \in Clients : Len(admissions[c]) > 0} \cup {client}
    BY <2>1
  <2>3. IsFiniteSet({c \in Clients : Len(admissions[c]) > 0} \cup {client})
    BY <1>9, FS_AddElement
  <2> QED
    BY <2>2, <2>3, FS_Subset
<1> QED
  BY <1>1, <1>4, <1>6, <1>7, <1>10, <1>11 DEF LimiterOK

\* Every step keeps the limiter right.
LEMMA StepLimiterOK == ASSUME IInv, LimiterOK, [Next]_vars PROVE LimiterOK'
<1>1. CASE UNCHANGED vars
  <2>1. UNCHANGED <<clock, clients, request, admissions>>
    BY <1>1 DEF vars
  <2>2. \A c \in Clients : History(c)' = History(c)
    BY <2>1 DEF History
  <2>3. \A c \in Clients : Paired(History(c), admissions[c], clock)'
    <3>1. \A c \in Clients : Paired(History(c), admissions[c], clock)
      BY DEF LimiterOK
    <3> QED
      BY <2>1, <2>2, <3>1 DEF Paired, Aligned
  <2>4. \A r \in Requests : Waiting(request[r])'
    BY <2>1 DEF LimiterOK, Waiting
  <2> QED
    BY <2>1, <2>3, <2>4 DEF LimiterOK
<1> QED
  BY <1>1, RequestKeeps, DecideKeeps, TickKeeps DEF Next

\* So it holds throughout.
LEMMA LimiterHolds == Spec => []LimiterOK
<1>1. IInv /\ LimiterOK /\ [Next]_vars => LimiterOK'
  BY StepLimiterOK
<1> QED
  BY InvariantHolds, InitLimiterOK, <1>1, PTL DEF Spec

\* No client gets more than PerWindow admissions into a window, less the time a thread
\* may wait for the lock.
THEOREM WindowHolds == Spec => []WindowHeld
<1>1. LimiterOK => WindowHeld
  <2> SUFFICES ASSUME LimiterOK, NEW c \in Clients,
                      NEW k \in DOMAIN admissions[c], k + PerWindow \in DOMAIN admissions[c]
               PROVE  admissions[c][k + PerWindow] - admissions[c][k] >= Window - MaxStall
    BY DEF WindowHeld
  <2> DEFINE a == admissions[c]
  <2>1. a \in Seq(Int) /\ Aligned(History(c), Len(History(c)), a, Len(a), clock)
    BY DEF LimiterOK, Paired
  <2>2. k \in 1..Len(a) /\ k + PerWindow =< Len(a)
    BY <2>1
  <2> QED
    BY <2>1, <2>2 DEF Aligned
<1> QED
  BY LimiterHolds, <1>1, PTL

\* Where the limiter refuses, it does so for a reason.
LEMMA RefusalHasCause ==
    ASSUME LimiterOK, clock \in Int, NEW client \in Clients, NEW read \in Int, read =< clock,
           clock =< read + MaxStall, ~allow(clients, client, read).allowed
    PROVE  \/ Len(Recent(client)) >= PerWindow
           \/ Cardinality({c \in Clients \ {client} : Recent(c) # <<>>}) >= Capacity
<1> DEFINE kept == Prune(clients, read)
           history == Trim(Of(kept, client), read)
           limit == clock - Window - MaxStall
<1>1. /\ DOMAIN kept \subseteq DOMAIN clients
      /\ \A c \in Clients : Paired(Of(kept, c), admissions[c], clock)
      /\ Cardinality(DOMAIN kept) >= Capacity => \A c \in DOMAIN kept : ~Idle(kept[c], read)
  BY PruneKeeps
<1>2. limit \in Int
  BY TheLimits DEF Limits
<1>3. \/ client \notin DOMAIN kept /\ Cardinality(DOMAIN kept) >= Capacity
      \/ Len(history) >= PerWindow
  BY DEF allow, Of
<1>4. \A c \in Clients : admissions[c] \in Seq(Int)
  BY DEF LimiterOK, Paired
<1>5. \A c \in Clients : /\ Recent(c) \in Seq(Int) /\ Len(Recent(c)) \in Nat
                         /\ Ends(Recent(c), Len(Recent(c)), admissions[c], Len(admissions[c]), limit)
  BY <1>2, <1>4, AfterEnds DEF Recent
<1>6. Paired(Of(kept, client), admissions[client], clock)
  BY <1>1
<1> HIDE DEF kept, limit
<1>7. CASE Len(history) >= PerWindow
  <2>1. /\ Paired(history, admissions[client], clock) /\ Len(history) \in Nat
        /\ Len(history) > 0 => history[1] > read - Window
    BY <1>6, TrimKeeps
  <2> HIDE DEF history
  <2>2. Aligned(history, Len(history), admissions[client], Len(admissions[client]), clock)
    BY <2>1 DEF Paired
  <2>3. 1 \in 1..Len(history) /\ history[1] > read - Window
    BY <1>7, <2>1, TheLimits DEF Limits
  <2>4. Len(Recent(client)) + 1 > Len(history)
    BY <1>5, <2>2, <2>3, TheLimits, AlignedRecent DEF limit
  <2> QED
    BY <1>5, <1>7, <2>1, <2>4, TheLimits DEF Limits
<1>8. CASE client \notin DOMAIN kept /\ Cardinality(DOMAIN kept) >= Capacity
  <2> DEFINE busy == {c \in Clients \ {client} : Recent(c) # <<>>}
  <2>1. ASSUME NEW c \in DOMAIN kept PROVE c \in busy
    <3> DEFINE h == kept[c]
               a == admissions[c]
    <3>1. c \in Clients /\ c # client /\ ~Idle(h, read)
      BY <1>1, <1>8, <2>1 DEF LimiterOK
    <3>2. Of(kept, c) = h
      BY <2>1 DEF Of
    <3>3. h \in Seq(Int) /\ Aligned(h, Len(h), a, Len(a), clock)
      BY <1>1, <3>1, <3>2 DEF Paired
    <3>4. Len(h) \in 1..Len(h) /\ h[Len(h)] > read - Window
      BY <3>1, <3>3, TheLimits DEF Idle, Expired, Limits
    <3> HIDE DEF h, a
    <3>5. Len(Recent(c)) + Len(h) > Len(h)
      <4>1. Ends(Recent(c), Len(Recent(c)), a, Len(a), limit) /\ Len(Recent(c)) \in Nat
        BY <1>5, <3>1 DEF a
      <4> QED
        BY <3>3, <3>4, <4>1, TheLimits, AlignedRecent DEF limit
    <3>6. Len(h) \in Nat
      BY <3>3
    <3> QED
      BY <1>5, <3>1, <3>5, <3>6
  <2>2. busy \subseteq {c \in Clients : Len(admissions[c]) > 0}
    <3> SUFFICES ASSUME NEW c \in Clients, Recent(c) # <<>> PROVE Len(admissions[c]) > 0
      OBVIOUS
    <3>1. Len(Recent(c)) > 0
      BY <1>5
    <3>2. Len(admissions[c]) \in Nat
      BY <1>4
    <3> QED
      BY <1>5, <3>1, <3>2 DEF Ends
  <2>3. IsFiniteSet(busy)
    BY <2>2, FS_Subset DEF LimiterOK
  <2> HIDE DEF busy
  <2>4. DOMAIN kept \subseteq busy
    BY <2>1
  <2>5. Cardinality(DOMAIN kept) =< Cardinality(busy) /\ IsFiniteSet(DOMAIN kept)
    BY <2>3, <2>4, FS_Subset
  <2>6. Cardinality(DOMAIN kept) \in Nat /\ Cardinality(busy) \in Nat
    BY <2>3, <2>5, FS_CardinalityType
  <2>7. Cardinality(busy) >= Capacity
    BY <1>8, <2>5, <2>6, TheLimits
  <2> QED
    BY <2>7 DEF busy
<1> QED
  BY <1>3, <1>7, <1>8

\* Nobody is refused below the limit: only a client that has used up its window, or one that
\* meets a table full of others who were all admitted in theirs.
THEOREM RefusesAtLimit == Spec => RefusedAtLimit
<1> DEFINE Caused(r) ==
        request[r].step = "decide" /\ request'[r].step # "decide" /\ admissions' = admissions =>
            \/ Len(Recent(request[r].client)) >= PerWindow
            \/ Cardinality({c \in Clients \ {request[r].client} : Recent(c) # <<>>}) >= Capacity
<1>1. ASSUME IInv, LimiterOK, [Next]_vars, NEW r \in Requests PROVE Caused(r)
  <2> SUFFICES ASSUME request[r].step = "decide", request'[r].step # "decide", admissions' = admissions
               PROVE  \/ Len(Recent(request[r].client)) >= PerWindow
                      \/ Cardinality({c \in Clients \ {request[r].client} : Recent(c) # <<>>}) >= Capacity
    OBVIOUS
  <2>1. request \in [Requests -> Request] /\ request' # request
    BY <1>1 DEF IInv, Typed
  <2>2. PICK route \in Routes, input \in Inputs : Decide(r, route, input)
    <3>1. ASSUME NEW x \in Requests, x # r, NEW q, Set(x, q) PROVE FALSE
      BY <2>1, <3>1 DEF Set
    <3>2. ASSUME NEW x \in Requests,
                 \/ Receive(x) \/ Disconnect(x)
                 \/ \E bytes \in 0..MaxBytes + 1, last \in BOOLEAN : Chunk(x, bytes, last)
                 \/ \E client \in Clients : Enter(x, client)
                 \/ InvalidForm(x) \/ Ask(x)
          PROVE FALSE
      <4>1. x # r
        BY <3>2 DEF Receive, Disconnect, Chunk, Enter, InvalidForm, Ask
      <4>2. \E q : Set(x, q)
        BY <3>2 DEF Receive, Disconnect, Chunk, Enter, InvalidForm, Ask, Fail, Deliver
      <4> QED
        BY <3>1, <4>1, <4>2
    <3>3. ASSUME NEW x \in Requests, NEW route \in Routes, NEW input \in Inputs, Decide(x, route, input)
          PROVE  x = r
      <4>1. \E q : Set(x, q)
        BY <3>3 DEF Decide
      <4> QED
        BY <3>1, <4>1
    <3>4. ~Tick
      <4>1. Tick => UNCHANGED request
        BY Zenon DEF Tick
      <4> QED
        BY <2>1, <4>1
    <3>5. ~UNCHANGED vars
      BY <2>1 DEF vars
    <3> QED
      BY <1>1, <3>2, <3>3, <3>4, <3>5 DEF Next
  <2>3. /\ clock \in Int /\ request[r].client \in Clients /\ request[r].now \in Int
        /\ request[r].now =< clock /\ clock =< request[r].now + MaxStall
    BY <1>1, AtTheLock
  <2> DEFINE client == request[r].client
             verdict == allow(clients, client, request[r].now)
  <2>4. ~verdict.allowed
    <3> SUFFICES ASSUME verdict.allowed PROVE FALSE
      OBVIOUS
    <3>1. admissions' = [admissions EXCEPT ![client] = Append(@, clock)]
      BY <2>2 DEF Decide
    <3>2. admissions = [c \in Clients |-> admissions[c]] /\ admissions[client] \in Seq(Int)
      BY <1>1, <2>3 DEF LimiterOK, Paired
    <3>3. admissions[client] = Append(admissions[client], clock)
      BY <2>3, <3>1, <3>2
    <3>4. Len(Append(admissions[client], clock)) = Len(admissions[client]) + 1 /\ Len(admissions[client]) \in Nat
      BY <2>3, <3>2
    <3> QED
      BY <3>3, <3>4
  <2> HIDE DEF client, verdict
  <2> QED
    BY <1>1, <2>3, <2>4, RefusalHasCause DEF client, verdict
<1>2. IInv /\ LimiterOK /\ [Next]_vars => [\A r \in Requests : Caused(r)]_vars
  BY <1>1
<1> QED
  BY InvariantHolds, LimiterHolds, <1>2, PTL DEF Spec, RefusedAtLimit
=============================================================================
