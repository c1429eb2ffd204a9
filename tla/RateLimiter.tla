----------------------------- MODULE RateLimiter -----------------------------
(***************************************************************************)
(* RateLimiter.allow (delivery/telemetry.py) under its lock: the histories   *)
(* of the remembered clients and what becomes of them when a client, with a  *)
(* time it read before it had the lock, asks to be let in.                   *)
(***************************************************************************)
EXTENDS Integers, Sequences, FiniteSets, Functions

CONSTANTS
    Window,     \* how long an admission counts: 60 seconds
    PerWindow,  \* admissions in a window: requests_per_minute
    Capacity    \* remembered clients: 4000

ASSUME LimiterAssumption == {Window, PerWindow, Capacity} \subseteq Nat \ {0}

Expired(time, now) == time =< now - Window

\* Mutant: a client is idle once its first admission has expired.
IdleSinceFirst(history, now) == history = <<>> \/ Expired(history[1], now)
Idle(history, now) == history = <<>> \/ Expired(history[Len(history)], now)
\* A full table drops its idle clients.
Prune(clients, now) ==
    IF Cardinality(DOMAIN clients) < Capacity THEN clients
    ELSE Restrict(clients, {c \in DOMAIN clients : ~Idle(clients[c], now)})

\* The times from the first one after a limit on.
After(times, limit) ==
    LET late == {i \in DOMAIN times : times[i] > limit} IN
    IF late = {} THEN <<>> ELSE SubSeq(times, CHOOSE i \in late : \A j \in late : i =< j, Len(times))

\* Mutant: an admission counts for the whole of its last second.
TrimLate(history, now) == After(history, now - Window - 1)
\* Expired times leave at the front; one behind a fresh time stays.
Trim(history, now) == After(history, now - Window)

\* The verdict, and the table it leaves.
allow(clients, client, now) ==
    LET kept == Prune(clients, now)
        history == Trim(IF client \in DOMAIN kept THEN kept[client] ELSE <<>>, now)
        Table(times) == [c \in DOMAIN kept \cup {client} |-> IF c = client THEN times ELSE kept[c]]
    IN
    IF client \notin DOMAIN kept /\ Cardinality(DOMAIN kept) >= Capacity
    THEN [allowed |-> FALSE, clients |-> kept]
    ELSE IF Len(history) >= PerWindow
    THEN [allowed |-> FALSE, clients |-> Table(history)]
    ELSE [allowed |-> TRUE, clients |-> Table(Append(history, now))]
=============================================================================
