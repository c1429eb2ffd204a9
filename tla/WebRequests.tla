----------------------------- MODULE WebRequests -----------------------------
(***************************************************************************)
(* One web process (delivery/web.py with the middleware of                   *)
(* delivery/telemetry.py): bodies arrive in chunks, requests run in the      *)
(* threads of a pool, each is admitted by the RateLimiter, asks the answer   *)
(* service and is answered by JSON, by a page, or by a page with an error.   *)
(* What the service returns is nondeterministic here; AnswerService and      *)
(* ProviderCalls are about that.                                             *)
(***************************************************************************)
EXTENDS RateLimiter

CONSTANTS
    None,
    Clients,        \* addresses of clients
    Requests,       \* connections; each sends one request after another
    MaxBytes,       \* the limit of a body: 8192
    MaxTime,        \* the clock stops here: a bound of the model
    MaxStall        \* longest time a thread waits between its clock and the lock

ASSUME ClockAssumption == {MaxTime, MaxStall} \subseteq Nat

VARIABLES
    clock,          \* time.monotonic()
    clients,        \* RateLimiter._clients
    request,        \* the request on each connection
    admissions      \* history: when each client was admitted, as far as it matters

vars == <<clock, clients, request, admissions>>
limiter == <<clock, clients, admissions>>

\* The JSON question, a form with one date and one with two.
Routes == {"api", "form", "compare"}
Forms == {"form", "compare"}
\* How ask() can fail: no slot, no budget, a bad draft, another operational error,
\* the database, a ValueError, anything else.
Failures == {"capacity", "budget", "generation", "provider", "storage", "value", "bug"}

\* What a client sends: what the route expects, or a form with a wrong field.
Inputs == {"good", "wrong"}

\* `read` is a history: whether the whole body has come, within its limit.
NoRequest == [step |-> "idle", client |-> None, route |-> None, input |-> None, size |-> 0,
              read |-> "part", now |-> 0, answers |-> 0, status |-> None, shown |-> 0]

Init ==
    /\ clock = 0
    /\ clients = [c \in {} |-> <<>>]
    /\ request = [r \in Requests |-> NoRequest]
    /\ admissions = [c \in Clients |-> <<>>]

Set(r, update) == request' = [request EXCEPT ![r] = update]

Deliver(r, status, shown) ==
    Set(r, [request[r] EXCEPT !.step = "done", !.client = None, !.size = 0, !.read = "part",
                              !.now = 0, !.status = status, !.shown = shown])

-----------------------------------------------------------------------------
(* Bodies                                                                   *)

\* A POST is read to its end before the application sees it.
Receive(r) ==
    /\ request[r].step \in {"idle", "done"}
    /\ Set(r, [NoRequest EXCEPT !.step = "body"])
    /\ UNCHANGED limiter

\* A chunk, the last one or not.
Chunk(r, bytes, last) ==
    LET size == request[r].size + bytes
        taken == [request[r] EXCEPT
            !.size = size, !.read = IF last /\ size =< MaxBytes THEN "whole" ELSE "part"]
    IN
    /\ request[r].step = "body"
    /\ \/ size > MaxBytes /\ Deliver(r, 413, 0)
       \/ size =< MaxBytes /\ ~last /\ Set(r, taken)
       \/ size =< MaxBytes /\ last /\ Set(r, [taken EXCEPT !.step = "arrive", !.size = 0])
    /\ UNCHANGED limiter

Disconnect(r) == request[r].step = "body" /\ Set(r, NoRequest) /\ UNCHANGED limiter

-----------------------------------------------------------------------------
(* Admission                                                                *)

\* The handler reads the time before it takes the lock; before it runs, input without
\* its fields is refused.  The rest of what was sent is looked at where it is used.
Enter(r, client) ==
    /\ request[r].step = "arrive"
    /\ \/ Deliver(r, 422, 0)
       \/ Set(r, [NoRequest EXCEPT !.step = "decide", !.client = client, !.now = clock])
    /\ UNCHANGED limiter

\* A form is parsed once it is admitted; JSON was validated before.
Parse(input) == IF input = "good" THEN "ask" ELSE "invalid"

\* _admit_request.  A refused form gets a page with the error, and status 200.
Decide(r, route, input) ==
    LET verdict == allow(clients, request[r].client, request[r].now)
        sent == [NoRequest EXCEPT !.route = route, !.input = input]
    IN
    /\ request[r].step = "decide"
    /\ route = "api" => input = "good"
    /\ clients' = verdict.clients
    /\ \/ /\ verdict.allowed
          /\ admissions' = [admissions EXCEPT ![request[r].client] = Append(@, clock)]
          /\ Set(r, [sent EXCEPT !.step = Parse(input)])
       \/ /\ ~verdict.allowed
          /\ Set(r, [sent EXCEPT !.step = "done", !.status = IF route \in Forms THEN 200 ELSE 429])
          /\ UNCHANGED admissions
    /\ UNCHANGED clock

InvalidForm(r) == request[r].step = "invalid" /\ Deliver(r, 200, 0) /\ UNCHANGED limiter

-----------------------------------------------------------------------------
(* Answers                                                                  *)

Wanted(r) == IF request[r].route = "compare" THEN 2 ELSE 1

\* Mutant: what was answered is shown when the other answer fails.
ShowPartly(r) == request[r].answers
ShownThen(r) == 0

StatusOf(failure) ==
    CASE failure \in {"capacity", "budget"} -> 429
      [] failure = "generation" -> 502
      [] failure \in {"provider", "storage"} -> 503
      [] failure \in {"value", "bug"} -> 500

\* A form turns every failure it expects into a page without answers.
Fail(r, failure) ==
    IF request[r].route \in Forms /\ failure # "bug" THEN Deliver(r, 200, ShownThen(r))
    ELSE Deliver(r, StatusOf(failure), 0)

\* _run_answer, once or twice.
Ask(r) ==
    LET answers == request[r].answers + 1
        answered == [request[r] EXCEPT !.answers = answers]
    IN
    /\ request[r].step = "ask"
    /\ \/ answers < Wanted(r) /\ Set(r, answered)
       \/ answers = Wanted(r) /\ Set(r, [answered EXCEPT !.step = "done", !.status = 200, !.shown = answers])
       \/ \E failure \in Failures : Fail(r, failure)
    /\ UNCHANGED limiter

\* Time passes; a thread that read the clock gets the lock within MaxStall.
Tick ==
    /\ clock < MaxTime
    /\ \A r \in Requests : request[r].step = "decide" => clock < request[r].now + MaxStall
    /\ clock' = clock + 1
    /\ admissions' = [c \in Clients |->
           After(admissions[c], clock' - Window - MaxStall)]
    /\ UNCHANGED <<clients, request>>

Next ==
    \/ \E r \in Requests :
        \/ Receive(r) \/ Disconnect(r)
        \/ \E bytes \in 0..MaxBytes + 1, last \in BOOLEAN : Chunk(r, bytes, last)
        \/ \E client \in Clients : Enter(r, client)
        \/ \E route \in Routes, input \in Inputs : Decide(r, route, input)
        \/ InvalidForm(r) \/ Ask(r)
    \/ Tick

Spec == Init /\ [][Next]_vars

-----------------------------------------------------------------------------
(* What a client can rely on.                                               *)

\* No client is admitted more than PerWindow times in any stretch of real time
\* shorter than a window, less the time a thread may wait for the lock: although
\* times enter a history out of order, and idle clients are forgotten.
WindowHeld ==
    \A client \in Clients : LET times == admissions[client] IN
        \A k \in DOMAIN times : k + PerWindow \in DOMAIN times =>
            times[k + PerWindow] - times[k] >= Window - MaxStall

\* A client is refused only when it has used up its window, or when the table is
\* full of other clients that were all admitted in theirs.
Recent(client) == After(admissions[client], clock - Window - MaxStall)
RefusedAtLimit ==
    [][\A r \in Requests :
        request[r].step = "decide" /\ request'[r].step # "decide" /\ admissions' = admissions =>
            \/ Len(Recent(request[r].client)) >= PerWindow
            \/ Cardinality({c \in Clients \ {request[r].client} : Recent(c) # <<>>}) >= Capacity]_vars

\* A comparison shows both answers or none, whichever of its two requests to the
\* service failed; JSON has an answer exactly with status 200; the service is
\* asked nothing for input that is wrong anywhere; and the application is handed a body
\* only once its end has come within the limit, however the chunks fall.
ServedWhole ==
    \A r \in Requests : LET q == request[r] IN
        /\ q.step = "arrive" => q.read = "whole"
        /\ q.step \in {"ask", "done"} /\ q.answers > 0 => q.input = "good"
        /\ q.step = "done" =>
            /\ q.shown \in {0, Wanted(r)}
            /\ q.shown > 0 => q.status = 200 /\ q.answers = q.shown
            /\ q.route = "api" /\ q.status = 200 => q.shown = 1
=============================================================================
