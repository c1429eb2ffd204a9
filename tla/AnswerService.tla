---------------------------- MODULE AnswerService ----------------------------
(***************************************************************************)
(* AnswerService.ask (application/service.py) with the corpus store, the     *)
(* retriever, the generator and the answer cache it calls, while releases    *)
(* and rollbacks switch the active corpus under it and the process is        *)
(* restarted with another configuration over the same stored cache.          *)
(*                                                                           *)
(* Every thread runs one request at a time.  A request takes one of the      *)
(* slots, reads the active corpus once, and works on that version from then  *)
(* on.  What retrieval finds and what resolution selects are functions of    *)
(* the version and the question: PolicyResolution.tla is about the latter.   *)
(***************************************************************************)
EXTENDS Naturals, FiniteSets

CONSTANTS
    Threads,            \* threads of the web server, the benchmark's included
    Questions,          \* commands: a question with its date, country and worker
    Incomplete,         \* the questions that lack one of the three
    Versions,           \* versions of the corpus
    Builds,             \* generator, retriever, mode: what a process runs with
    Strategies,         \* "complete", and those the benchmark compares it with
    Clauses,            \* identifiers of clauses
    Hits(_, _, _),      \* what retrieval finds in a version for a question by a strategy
    Selected(_, _),     \* what resolution selects in a version for a question
    Disputed(_, _),     \* the selected clauses that conflict
    Mismatch(_, _),     \* the version was embedded by another encoder
    Drafts,             \* the citations a generator may produce
    Concurrency,        \* answer slots of a process
    CacheLimit,         \* bound: entries the cache keeps
    None

ASSUME ThreadsAssumption == IsFiniteSet(Threads)
ASSUME ConcurrencyAssumption == Concurrency \in Nat \ {0}
ASSUME CacheAssumption == CacheLimit \in Nat \ {0}
ASSUME IncompleteAssumption == Incomplete \subseteq Questions
ASSUME SelectionAssumption ==
    \A v \in Versions, q \in Questions :
        /\ \A s \in Strategies : Hits(v, q, s) \subseteq Clauses
        /\ Selected(v, q) \subseteq Clauses /\ Disputed(v, q) \subseteq Selected(v, q)

VARIABLES
    active,     \* the version active_corpus points to, None before the first ingest
    build,      \* the configuration of the running process
    free,       \* free slots of the semaphore
    cache,      \* the stored answers
    request,    \* the request each thread is on
    current     \* history: versions that were active since the request began

vars == <<active, build, free, cache, request, current>>

\* Strategies that hand the retrieved clauses to the generator without resolution.
Unresolved == {"vector", "filtered"}

Citation == [id : Clauses, exact : BOOLEAN]
ASSUME DraftsAssumption == \A draft \in Drafts : draft \subseteq Citation
Results == {"answered", "needs_context", "no_evidence", "conflict"}
Errors == {"busy", "unavailable", "invalid", "storage", "lost"}
Response == [question : Questions, version : Versions, strategy : Strategies,
             build : Builds, result : Results, cited : SUBSET Clauses]
Keys == [question : Questions, version : Versions, strategy : Strategies, build : Builds]

Steps == {"idle", "snapshot", "lookup", "execute", "generate", "cite", "put", "release", "done"}
Request ==
    [step : Steps, question : Questions \cup {None}, strategy : Strategies \cup {None},
     version : Versions \cup {None}, evidence : SUBSET Clauses, draft : SUBSET Citation,
     response : Response \cup {None}, error : Errors \cup {None}, paid : 0..1]

NoRequest == [step |-> "idle", question |-> None, strategy |-> None, version |-> None,
              evidence |-> {}, draft |-> {}, response |-> None, error |-> None, paid |-> 0]

Holding == {"snapshot", "lookup", "execute", "generate", "cite", "put", "release"}

TypeOK ==
    /\ active \in Versions \cup {None}
    /\ build \in Builds
    /\ free \in 0..Concurrency
    /\ cache \in [Keys -> Response \cup {None}]
    /\ request \in [Threads -> Request]
    /\ current \in [Threads -> SUBSET Versions]

Init ==
    /\ active \in Versions \cup {None}
    /\ build \in Builds
    /\ free = Concurrency
    /\ cache = [k \in Keys |-> None]
    /\ request = [t \in Threads |-> NoRequest]
    /\ current = [t \in Threads |-> {}]

world == <<active, build>>

Go(t, step) == request' = [request EXCEPT ![t].step = step]
\* Mutant: an error leaves ask() without giving the slot back.
FailHolding(t, error) == request' = [request EXCEPT ![t].step = "done", ![t].error = error]
\* The `finally` of ask() gives the slot back whatever happened.
Fail(t, error) == request' = [request EXCEPT ![t].step = "release", ![t].error = error]
Respond(t, step, response) ==
    request' = [request EXCEPT ![t].step = step, ![t].response = response]

\* Mutants: one part of the key is left out.
KeyAnyVersion(t) == [question |-> request[t].question, version |-> CHOOSE v \in Versions : TRUE,
                     strategy |-> request[t].strategy, build |-> build]
KeyAnyBuild(t) == [question |-> request[t].question, version |-> request[t].version,
                   strategy |-> request[t].strategy, build |-> CHOOSE b \in Builds : TRUE]
Key(t) == [question |-> request[t].question, version |-> request[t].version,
           strategy |-> request[t].strategy, build |-> build]

Answer(t, result, cited) ==
    [question |-> request[t].question, version |-> request[t].version,
     strategy |-> request[t].strategy, build |-> build, result |-> result, cited |-> cited]

-----------------------------------------------------------------------------
(* ask                                                                      *)

Begin(t, q, strategy) ==
    /\ request[t].step = "idle"
    /\ current' = [current EXCEPT ![t] = {active} \ {None}]
    /\ \/ /\ free > 0
          /\ free' = free - 1
          /\ request' = [request EXCEPT ![t] = [NoRequest EXCEPT
                 !.step = "snapshot", !.question = q, !.strategy = strategy]]
       \/ /\ free = 0
          /\ request' = [request EXCEPT ![t] = [NoRequest EXCEPT
                 !.step = "done", !.question = q, !.strategy = strategy, !.error = "busy"]]
          /\ UNCHANGED free
    /\ UNCHANGED <<world, cache>>

Snapshot(t) ==
    /\ request[t].step = "snapshot"
    /\ \/ /\ active # None
          /\ request' = [request EXCEPT ![t].step = "lookup", ![t].version = active]
       \/ active = None /\ Fail(t, "storage")
    /\ UNCHANGED <<world, free, cache, current>>

\* cache.get: an entry that expired is not found.
Lookup(t) ==
    /\ request[t].step = "lookup"
    /\ \/ cache[Key(t)] # None /\ Respond(t, "release", cache[Key(t)])
       \/ Go(t, "execute")
    /\ UNCHANGED <<world, free, cache, current>>

\* Mutant: retrieval reads the active corpus again.
CorpusNow(t) == active
\* The corpus that retrieval, resolution and citations use: the snapshot's.
CorpusOf(t) == request[t].version

\* _execute up to the generator: the outcomes that need none are ready at once.
Execute(t) ==
    LET q == request[t].question
        v == CorpusOf(t)
        Abstain(result, cited) == Respond(t, "put", Answer(t, result, cited))
        hits == Hits(v, q, request[t].strategy)
        Use(evidence) ==
            request' = [request EXCEPT ![t].step = "generate", ![t].evidence = evidence]
    IN
    /\ request[t].step = "execute"
    /\ \/ q \in Incomplete /\ Abstain("needs_context", {})
       \/ q \notin Incomplete /\ Mismatch(v, build) /\ Fail(t, "storage")
       \/ /\ q \notin Incomplete /\ ~Mismatch(v, build)
          /\ \/ hits = {} /\ Abstain("no_evidence", {})
             \/ hits # {} /\ request[t].strategy \in Unresolved /\ Use(hits)
             \/ /\ hits # {} /\ request[t].strategy \notin Unresolved
                /\ \/ Selected(v, q) = {} /\ Abstain("no_evidence", {})
                   \/ Disputed(v, q) # {} /\ Abstain("conflict", Disputed(v, q))
                   \/ Selected(v, q) # {} /\ Disputed(v, q) = {} /\ Use(Selected(v, q))
    /\ UNCHANGED <<world, free, cache, current>>

\* The generator is called once; its draft may cite anything.
Generate(t) ==
    /\ request[t].step = "generate"
    /\ \/ \E draft \in Drafts :
             request' = [request EXCEPT ![t].step = "cite", ![t].draft = draft, ![t].paid = 1]
       \/ \E error \in {"unavailable", "invalid"}, paid \in 0..1 :
             request' = [request EXCEPT ![t].step = "release", ![t].error = error, ![t].paid = paid]
    /\ UNCHANGED <<world, free, cache, current>>

\* Mutant: citations are taken as they come.
CiteUnchecked(t) ==
    /\ request[t].step = "cite"
    /\ Respond(t, "put", Answer(t, "answered", {c.id : c \in request[t].draft}))
    /\ UNCHANGED <<world, free, cache, current>>
\* Mutant: a rejected draft is reported as missing evidence.
CiteAbstains(t) ==
    LET draft == request[t].draft IN
    /\ request[t].step = "cite"
    /\ Respond(t, "put", IF \A c \in draft : c.id \in request[t].evidence /\ c.exact
                         THEN Answer(t, "answered", {c.id : c \in draft})
                         ELSE Answer(t, "no_evidence", {}))
    /\ UNCHANGED <<world, free, cache, current>>
\* Mutant: the model is asked again until its citations match.
CiteRetries(t) ==
    LET draft == request[t].draft IN
    /\ request[t].step = "cite"
    /\ IF \A c \in draft : c.id \in request[t].evidence /\ c.exact
       THEN Respond(t, "put", Answer(t, "answered", {c.id : c \in draft}))
       ELSE Go(t, "generate")
    /\ UNCHANGED <<world, free, cache, current>>
\* validate_citations: every citation names supplied evidence and quotes it exactly.
Cite(t) ==
    LET draft == request[t].draft IN
    /\ request[t].step = "cite"
    /\ \/ /\ \A c \in draft : c.id \in request[t].evidence /\ c.exact
          /\ Respond(t, "put", Answer(t, "answered", {c.id : c \in draft}))
       \/ /\ \E c \in draft : c.id \notin request[t].evidence \/ ~c.exact
          /\ Fail(t, "invalid")
    /\ UNCHANGED <<world, free, cache, current>>

\* cache.put drops old entries and stores the answer, or replaces it.  The other
\* strategies are the benchmark's, which runs with a NullCache.
Store(t) ==
    \/ request[t].strategy # "complete" /\ UNCHANGED cache
    \/ \E keep \in SUBSET {k \in Keys \ {Key(t)} : cache[k] # None} :
        /\ request[t].strategy = "complete"
        /\ Cardinality(keep) < CacheLimit
        /\ cache' = [k \in Keys |-> IF k = Key(t) THEN request[t].response
                                    ELSE IF k \in keep THEN cache[k] ELSE None]

Put(t) ==
    /\ request[t].step = "put"
    /\ Store(t)
    /\ Go(t, "release")
    /\ UNCHANGED <<world, free, current>>

\* The database fails a read or the put; the put may have committed.  The answer
\* is lost with it.
StorageFails(t) ==
    /\ request[t].step \in {"snapshot", "lookup", "execute", "put"}
    /\ request' = [request EXCEPT ![t].step = "release", ![t].error = "storage", ![t].response = None]
    /\ \/ UNCHANGED cache
       \/ request[t].step = "put" /\ Store(t)
    /\ UNCHANGED <<world, free, current>>

Release(t) ==
    /\ request[t].step = "release"
    /\ free' = free + 1
    /\ Go(t, "done")
    /\ UNCHANGED <<world, cache, current>>

\* The client has its response; the thread is ready for another request.
Finish(t) ==
    /\ request[t].step = "done"
    /\ request' = [request EXCEPT ![t] = NoRequest]
    /\ current' = [current EXCEPT ![t] = {}]
    /\ UNCHANGED <<world, free, cache>>

-----------------------------------------------------------------------------
(* Around the service.                                                      *)

\* publish_corpus or restore_corpus points active_corpus at a version.
Publish(v) ==
    /\ active # v
    /\ active' = v
    /\ current' = [t \in Threads |->
           IF request[t].step \in Holding THEN current[t] \cup {v} ELSE current[t]]
    /\ UNCHANGED <<build, free, cache, request>>

\* The process stops with its requests; the stored cache outlives it.
Restart(b) ==
    /\ build' = b
    /\ free' = Concurrency
    /\ request' = [t \in Threads |->
           IF request[t].step \in Holding
           THEN [request[t] EXCEPT !.step = "done", !.error = "lost", !.response = None]
           ELSE NoRequest]
    /\ UNCHANGED <<active, cache, current>>

ThreadStep(t) ==
    \/ Snapshot(t) \/ Lookup(t) \/ Execute(t) \/ Generate(t) \/ Cite(t)
    \/ Put(t) \/ StorageFails(t) \/ Release(t) \/ Finish(t)

Next ==
    \/ \E t \in Threads :
        \/ \E q \in Questions, strategy \in Strategies : Begin(t, q, strategy)
        \/ ThreadStep(t)
    \/ \E v \in Versions : Publish(v)
    \/ \E b \in Builds : Restart(b)

Spec == Init /\ [][Next]_vars

\* Every call a request makes ends: by its timeout where nothing else ends it.
Fairness == \A t \in Threads : WF_vars(ThreadStep(t))
FairSpec == Spec /\ Fairness

-----------------------------------------------------------------------------
(* What makes an answer right.                                              *)

\* What a response may say, given the version and the strategy it reports.
Justified(r) ==
    LET v == r.version
        q == r.question
        hits == Hits(v, q, r.strategy)
        resolved == r.strategy \notin Unresolved
        searchable == q \notin Incomplete /\ hits # {}
    IN  CASE r.result = "needs_context" -> q \in Incomplete
          [] r.result = "no_evidence"   -> q \notin Incomplete /\
                 (hits = {} \/ (resolved /\ Selected(v, q) = {}))
          [] r.result = "conflict"      -> searchable /\ resolved /\
                 r.cited = Disputed(v, q) /\ r.cited # {}
          [] r.result = "answered"      -> searchable /\
                 IF resolved THEN r.cited \subseteq Selected(v, q) /\ Disputed(v, q) = {}
                 ELSE r.cited \subseteq hits

\* A response follows from the one corpus version it names, although the active
\* version may have changed at every step, and fresh or cached alike.
AnswersFollowTheirVersion ==
    \A t \in Threads : request[t].response # None => Justified(request[t].response)

\* The version a response names was active at some moment between the request
\* and its response: no answer of a corpus that was replaced before is served.
VersionWasCurrent ==
    \A t \in Threads : request[t].response # None => request[t].response.version \in current[t]

\* A response answers the request it is given to, by the generator that is
\* configured, although the stored cache outlives restarts.
AnswersItsRequest ==
    \A t \in Threads : LET r == request[t] IN
        r.response # None /\ r.step # "done" =>
            /\ r.response.question = r.question
            /\ r.response.strategy = r.strategy
            /\ r.response.build = build

\* The cache holds only justified answers, each under its own key: a rejected
\* draft or a failure is never remembered.
CacheHoldsAnswers ==
    \A k \in Keys : cache[k] # None =>
        /\ Justified(cache[k])
        /\ k = [question |-> cache[k].question, version |-> cache[k].version,
                strategy |-> cache[k].strategy, build |-> cache[k].build]

\* Slots are given back on every way out: the free ones are exactly those no
\* request holds, so failures never use up the service.
SlotsAccounted ==
    free + Cardinality({t \in Threads : request[t].step \in Holding}) = Concurrency

\* A conflict, missing evidence or missing context is found without paying for a
\* model call.
AbstentionsAreFree ==
    \A t \in Threads : LET r == request[t] IN
        r.response # None /\ r.response.result # "answered" => r.paid = 0

\* Every request is answered or refused, and its thread is free again.
RequestsEnd == \A t \in Threads : request[t].step # "idle" ~> request[t].step = "idle"
=============================================================================
