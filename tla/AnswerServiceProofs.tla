------------------------- MODULE AnswerServiceProofs -------------------------
(***************************************************************************)
(* Proofs about AnswerService, for any threads, corpora, configurations,     *)
(* retrieval, resolution and generator.                                      *)
(***************************************************************************)
EXTENDS AnswerService, FiniteSetTheorems, TLAPS

Named == {"snapshot", "lookup", "execute", "generate", "cite", "put"}
Dated == {"lookup", "execute", "generate", "cite", "put"}
Unanswered == {"idle", "snapshot", "lookup", "execute", "generate", "cite"}
Unpaid == {"snapshot", "lookup", "execute", "generate"}

\* The evidence that goes to the generator is what the strategy says, and is only
\* collected where there is something to answer.
EvidenceOK(r) ==
    LET hits == Hits(r.version, r.question, r.strategy) IN
    /\ r.question \notin Incomplete /\ hits # {}
    /\ r.strategy \in Unresolved => r.evidence = hits
    /\ r.strategy \notin Unresolved =>
           r.evidence = Selected(r.version, r.question) /\ Disputed(r.version, r.question) = {}

\* A response is right for its version, which was current; where it is not an answer
\* it was free of charge.
ResponseOK(r, seen) ==
    r.response # None =>
        /\ Justified(r.response)
        /\ r.response.version \in seen
        /\ r.response.result # "answered" => r.paid = 0

\* It is the response to this request by this process.
ResponseOwn(r, b) ==
    r.response # None =>
        /\ r.step # "done" => /\ r.response.question = r.question
                              /\ r.response.strategy = r.strategy
                              /\ r.response.build = b
        /\ r.step = "put" => r.response.version = r.version

\* What is known of a request, given the versions it has seen, the active one and the
\* configuration.
RequestOK(r, seen, v, b) ==
    /\ r.step \in Named => r.question \in Questions /\ r.strategy \in Strategies
    /\ r.step = "snapshot" /\ v # None => v \in seen
    /\ r.step \in Dated => r.version \in Versions /\ r.version \in seen
    /\ r.step \in Unanswered => r.response = None
    /\ r.step \in Unpaid => r.paid = 0
    /\ r.step \in {"generate", "cite"} => EvidenceOK(r)
    /\ ResponseOK(r, seen)
    /\ ResponseOwn(r, b)

RequestsOK == \A t \in Threads : RequestOK(request[t], current[t], active, build)

IInv == TypeOK /\ RequestsOK /\ CacheHoldsAnswers /\ SlotsAccounted

\* It holds initially.
LEMMA InitIInv == Init => IInv
<1>1. Init => TypeOK
  BY ConcurrencyAssumption DEF Init, TypeOK, NoRequest, Request, Steps
<1>2. Init => RequestsOK
  BY DEF Init, RequestsOK, RequestOK, ResponseOK, ResponseOwn, NoRequest, Named, Dated,
         Unanswered, Unpaid
<1>3. Init => CacheHoldsAnswers
  BY DEF Init, CacheHoldsAnswers
<1>4. Init => SlotsAccounted
  <2> SUFFICES ASSUME Init PROVE SlotsAccounted
    OBVIOUS
  <2>1. {t \in Threads : request[t].step \in Holding} = {}
    BY DEF Init, NoRequest, Holding
  <2> QED
    BY <2>1, FS_EmptySet, ConcurrencyAssumption DEF Init, SlotsAccounted
<1> QED
  BY <1>1, <1>2, <1>3, <1>4 DEF IInv

-----------------------------------------------------------------------------
(* What a step does to one request and to nothing else.                      *)

Holders == {t \in Threads : request[t].step \in Holding}

\* The requests that hold a slot are finitely many.
LEMMA HoldersFinite == IsFiniteSet(Holders) /\ Cardinality(Holders) \in Nat
<1>1. Holders \subseteq Threads
  BY DEF Holders
<1> QED
  BY <1>1, ThreadsAssumption, FS_Subset, FS_CardinalityType

\* A request that becomes one that is right leaves all of them right.
LEMMA Becomes ==
    ASSUME TypeOK, RequestsOK, NEW t \in Threads, NEW r \in Request,
           request' = [request EXCEPT ![t] = r],
           UNCHANGED <<active, build, current>>,
           RequestOK(r, current[t], active, build)
    PROVE  request' \in [Threads -> Request] /\ RequestsOK'
<1>1. request' \in [Threads -> Request]
  BY DEF TypeOK
<1>2. ASSUME NEW u \in Threads PROVE RequestOK(request'[u], current[u], active, build)
  <2>1. CASE u = t
    BY <2>1 DEF TypeOK
  <2>2. CASE u # t
    BY <2>2 DEF TypeOK, RequestsOK
  <2> QED
    BY <2>1, <2>2
<1>3. RequestsOK'
  BY <1>2 DEF RequestsOK
<1> QED
  BY <1>1, <1>3

\* While it holds its slot, or does not, the slots are accounted for.
LEMMA SlotKept ==
    ASSUME TypeOK, SlotsAccounted, NEW t \in Threads, NEW r \in Request,
           request' = [request EXCEPT ![t] = r], UNCHANGED free,
           r.step \in Holding <=> request[t].step \in Holding
    PROVE  SlotsAccounted'
<1>1. Holders' = Holders
  BY DEF Holders, TypeOK
<1> QED
  BY <1>1 DEF SlotsAccounted, Holders

\* A step of a thread before its release: its request becomes a right one.
Advances(t) ==
    \E r \in Request :
        /\ request' = [request EXCEPT ![t] = r]
        /\ request[t].step \in Holding /\ r.step \in Holding
        /\ RequestOK(r, current[t], active, build)
        /\ UNCHANGED <<active, build, free, current>>

\* A step within a slot that leaves its request right keeps the invariant.
LEMMA AdvanceSound ==
    ASSUME IInv, NEW t \in Threads, Advances(t),
           cache' \in [Keys -> Response \cup {None}], CacheHoldsAnswers'
    PROVE  IInv'
<1> PICK r \in Request :
        /\ request' = [request EXCEPT ![t] = r]
        /\ request[t].step \in Holding /\ r.step \in Holding
        /\ RequestOK(r, current[t], active, build)
        /\ UNCHANGED <<active, build, free, current>>
  BY DEF Advances
<1>1. request' \in [Threads -> Request] /\ RequestsOK'
  BY Becomes DEF IInv
<1>2. SlotsAccounted'
  BY SlotKept DEF IInv
<1>3. TypeOK'
  BY <1>1 DEF IInv, TypeOK
<1> QED
  BY <1>1, <1>2, <1>3 DEF IInv

\* A request is of its type.
LEMMA RequestTyped ==
    ASSUME TypeOK, NEW t \in Threads PROVE request[t] \in Request
BY DEF TypeOK

\* The key of a request that has read the day is one of the cache's.
LEMMA KeyTyped ==
    ASSUME IInv, NEW t \in Threads, request[t].step \in Dated
    PROVE  Key(t) \in Keys
BY DEF IInv, TypeOK, RequestsOK, RequestOK, Named, Dated, Key, Keys

\* The `finally` of ask(): a request without an answer yet fails.
LEMMA FailAdvances ==
    ASSUME IInv, NEW t \in Threads, NEW error \in Errors, Fail(t, error),
           request[t].step \in Unanswered \ {"idle"},
           UNCHANGED <<active, build, free, current>>
    PROVE  Advances(t)
<1> DEFINE r == [request[t] EXCEPT !.step = "release", !.error = error]
<1>1. request[t] \in Request /\ RequestOK(request[t], current[t], active, build)
  BY DEF IInv, TypeOK, RequestsOK
<1>2. request' = [request EXCEPT ![t] = r]
  BY DEF Fail, IInv, TypeOK
<1>3. r \in Request /\ r.step = "release" /\ r.response = request[t].response
  BY <1>1 DEF Request, Steps
<1>4. RequestOK(r, current[t], active, build)
  BY <1>1, <1>3 DEF RequestOK, ResponseOK, ResponseOwn, Named, Dated, Unanswered, Unpaid
<1> QED
  BY <1>2, <1>3, <1>4 DEF Advances, Holding, Unanswered

\* Reading the active version is such a step.
LEMMA SnapshotAdvances ==
    ASSUME IInv, NEW t \in Threads, Snapshot(t) PROVE Advances(t)
<1>1. request[t] \in Request /\ RequestOK(request[t], current[t], active, build)
  BY DEF IInv, TypeOK, RequestsOK
<1>2. request[t].step = "snapshot" /\ UNCHANGED <<active, build, free, current>>
  BY DEF Snapshot, world
<1>3. CASE active # None /\ request' = [request EXCEPT ![t].step = "lookup", ![t].version = active]
  <2> DEFINE r == [request[t] EXCEPT !.step = "lookup", !.version = active]
  <2>1. request' = [request EXCEPT ![t] = r]
    BY <1>3 DEF IInv, TypeOK
  <2>2. r \in Request /\ r.step = "lookup" /\ r.version = active
        /\ r.question = request[t].question /\ r.strategy = request[t].strategy
        /\ r.response = request[t].response /\ r.paid = request[t].paid
    BY <1>1 DEF Request, Steps, IInv, TypeOK
  <2>3. active \in Versions /\ active \in current[t]
    BY <1>1, <1>2, <1>3 DEF IInv, TypeOK, RequestOK
  <2>4. RequestOK(r, current[t], active, build)
    BY <1>1, <1>2, <2>2, <2>3 DEF RequestOK, ResponseOK, ResponseOwn, Named, Dated, Unanswered, Unpaid
  <2> QED
    BY <1>2, <2>1, <2>2, <2>4 DEF Advances, Holding
<1>4. CASE Fail(t, "storage")
  BY <1>2, <1>4, FailAdvances DEF Unanswered, Errors
<1> QED
  BY <1>2, <1>3, <1>4 DEF Snapshot

\* What is found was stored under this request's key, which names its version.
LEMMA LookupAdvances ==
    ASSUME IInv, NEW t \in Threads, Lookup(t) PROVE Advances(t)
<1>1. request[t] \in Request /\ RequestOK(request[t], current[t], active, build)
  BY DEF IInv, TypeOK, RequestsOK
<1>2. request[t].step = "lookup" /\ UNCHANGED <<active, build, free, current>>
  BY DEF Lookup, world
<1>3. CASE cache[Key(t)] # None /\ Respond(t, "release", cache[Key(t)])
  <2> DEFINE r == [request[t] EXCEPT !.step = "release", !.response = cache[Key(t)]]
  <2>1. request' = [request EXCEPT ![t] = r]
    BY <1>3 DEF IInv, TypeOK, Respond
  <2>2. Key(t) \in Keys
    BY <1>2, KeyTyped DEF Dated
  <2>3. cache[Key(t)] \in Response \cup {None}
    BY <2>2 DEF IInv, TypeOK
  <2>4. r \in Request
    BY <1>1, <2>3 DEF Request, Steps
  <2>5. r.step = "release" /\ r.response = cache[Key(t)]
        /\ r.question = request[t].question /\ r.strategy = request[t].strategy
        /\ r.paid = request[t].paid
    BY <1>1 DEF Request
  <2>6. /\ Justified(r.response)
        /\ Key(t) = [question |-> r.response.question, version |-> r.response.version,
                     strategy |-> r.response.strategy, build |-> r.response.build]
    BY <1>3, <2>2, <2>5 DEF IInv, CacheHoldsAnswers
  <2>7. /\ r.response.question = request[t].question /\ r.response.version = request[t].version
        /\ r.response.strategy = request[t].strategy /\ r.response.build = build
    BY <2>6 DEF Key
  <2>8. RequestOK(r, current[t], active, build)
    BY <1>1, <1>2, <2>5, <2>6, <2>7
       DEF RequestOK, ResponseOK, ResponseOwn, Named, Dated, Unanswered, Unpaid
  <2> QED
    BY <1>2, <2>1, <2>4, <2>5, <2>8 DEF Advances, Holding
<1>4. CASE Go(t, "execute")
  <2> DEFINE r == [request[t] EXCEPT !.step = "execute"]
  <2>1. request' = [request EXCEPT ![t] = r]
    BY <1>4 DEF IInv, TypeOK, Go
  <2>2. r \in Request
    BY <1>1 DEF Request, Steps
  <2>3. r.step = "execute" /\ r.version = request[t].version
        /\ r.question = request[t].question /\ r.strategy = request[t].strategy
        /\ r.response = request[t].response /\ r.paid = request[t].paid
    BY <1>1 DEF Request
  <2>4. RequestOK(r, current[t], active, build)
    BY <1>1, <1>2, <2>3 DEF RequestOK, ResponseOK, ResponseOwn, Named, Dated, Unanswered, Unpaid
  <2> QED
    BY <1>2, <2>1, <2>2, <2>3, <2>4 DEF Advances, Holding
<1> QED
  BY <1>3, <1>4 DEF Lookup

\* An outcome that follows from the version goes to the cache.
LEMMA RespondAdvances ==
    ASSUME IInv, NEW t \in Threads, NEW result \in Results, NEW cited \in SUBSET Clauses,
           request[t].step \in {"execute", "cite"}, Respond(t, "put", Answer(t, result, cited)),
           Justified(Answer(t, result, cited)), result # "answered" => request[t].paid = 0,
           UNCHANGED <<active, build, free, current>>
    PROVE  Advances(t)
<1> DEFINE a == Answer(t, result, cited)
           r == [request[t] EXCEPT !.step = "put", !.response = a]
<1>1. request[t] \in Request /\ RequestOK(request[t], current[t], active, build)
  BY DEF IInv, TypeOK, RequestsOK
<1>2. request' = [request EXCEPT ![t] = r]
  BY DEF IInv, TypeOK, Respond
<1>3. /\ request[t].question \in Questions /\ request[t].strategy \in Strategies
      /\ request[t].version \in Versions /\ request[t].version \in current[t] /\ build \in Builds
  BY <1>1 DEF RequestOK, Named, Dated, IInv, TypeOK
<1>4. a \in Response
  BY <1>3 DEF Answer, Response
<1>5. r \in Request
  BY <1>1, <1>4 DEF Request, Steps
<1>6. r.step = "put" /\ r.response = a /\ r.version = request[t].version
      /\ r.question = request[t].question /\ r.strategy = request[t].strategy
      /\ r.paid = request[t].paid
  BY <1>1 DEF Request
<1>7. a.question = request[t].question /\ a.version = request[t].version
      /\ a.strategy = request[t].strategy /\ a.build = build /\ a.result = result
  BY DEF Answer
<1>8. RequestOK(r, current[t], active, build)
  <2>1. ResponseOK(r, current[t])
    BY <1>3, <1>6, <1>7 DEF ResponseOK
  <2>2. ResponseOwn(r, build)
    BY <1>6, <1>7 DEF ResponseOwn
  <2> QED
    BY <1>3, <1>6, <2>1, <2>2 DEF RequestOK, Named, Dated, Unanswered, Unpaid
<1> QED
  BY <1>2, <1>5, <1>6, <1>8 DEF Advances, Holding

\* Each outcome of _execute is the one its version and strategy give.
LEMMA ExecuteAdvances ==
    ASSUME IInv, NEW t \in Threads, Execute(t) PROVE Advances(t)
<1> DEFINE q == request[t].question
           s == request[t].strategy
           v == request[t].version
           hits == Hits(v, q, s)
<1>1. request[t] \in Request /\ RequestOK(request[t], current[t], active, build)
  BY DEF IInv, TypeOK, RequestsOK
<1>2. request[t].step = "execute" /\ UNCHANGED <<active, build, free, current>>
  BY DEF Execute, world
<1>3. /\ q \in Questions /\ s \in Strategies /\ v \in Versions /\ v \in current[t]
      /\ request[t].response = None /\ request[t].paid = 0
  BY <1>1, <1>2 DEF RequestOK, Named, Dated, Unanswered, Unpaid
<1>4. hits \in SUBSET Clauses /\ Selected(v, q) \in SUBSET Clauses
      /\ Disputed(v, q) \in SUBSET Clauses
  BY <1>3, SelectionAssumption
<1>5. ASSUME NEW result \in Results, NEW cited \in SUBSET Clauses, result # "answered",
             Respond(t, "put", Answer(t, result, cited)), Justified(Answer(t, result, cited))
      PROVE Advances(t)
  BY <1>2, <1>3, <1>5, RespondAdvances
<1>6. ASSUME NEW evidence \in SUBSET Clauses,
             request' = [request EXCEPT ![t].step = "generate", ![t].evidence = evidence],
             EvidenceOK([request[t] EXCEPT !.step = "generate", !.evidence = evidence])
      PROVE Advances(t)
  <2> DEFINE r == [request[t] EXCEPT !.step = "generate", !.evidence = evidence]
  <2>1. request' = [request EXCEPT ![t] = r]
    BY <1>6 DEF IInv, TypeOK
  <2>2. r \in Request
    BY <1>1 DEF Request, Steps
  <2>3. r.step = "generate" /\ r.version = v /\ r.question = q /\ r.strategy = s
        /\ r.response = None /\ r.paid = 0
    BY <1>1, <1>3 DEF Request
  <2>4. RequestOK(r, current[t], active, build)
    BY <1>3, <1>6, <2>3
       DEF RequestOK, ResponseOK, ResponseOwn, Named, Dated, Unanswered, Unpaid
  <2> QED
    BY <1>2, <2>1, <2>2, <2>3, <2>4 DEF Advances, Holding
<1>7. ASSUME NEW evidence
      PROVE LET r == [request[t] EXCEPT !.step = "generate", !.evidence = evidence] IN
            /\ r.question = q /\ r.strategy = s /\ r.version = v /\ r.evidence = evidence
  BY <1>1 DEF Request
<1>8. CASE q \in Incomplete /\ Respond(t, "put", Answer(t, "needs_context", {}))
  <2>1. Justified(Answer(t, "needs_context", {}))
    BY <1>8 DEF Justified, Answer
  <2> QED
    BY <1>5, <1>8, <2>1 DEF Results
<1>9. CASE Fail(t, "storage")
  BY <1>2, <1>9, FailAdvances DEF Unanswered, Errors
<1>10. CASE q \notin Incomplete /\ hits = {} /\ Respond(t, "put", Answer(t, "no_evidence", {}))
  <2>1. Justified(Answer(t, "no_evidence", {}))
    BY <1>10 DEF Justified, Answer
  <2> QED
    BY <1>5, <1>10, <2>1 DEF Results
<1>11. CASE /\ q \notin Incomplete /\ hits # {} /\ s \in Unresolved
            /\ request' = [request EXCEPT ![t].step = "generate", ![t].evidence = hits]
  <2>1. EvidenceOK([request[t] EXCEPT !.step = "generate", !.evidence = hits])
    BY <1>7, <1>11 DEF EvidenceOK
  <2> QED
    BY <1>4, <1>6, <1>11, <2>1
<1>12. CASE /\ q \notin Incomplete /\ hits # {} /\ s \notin Unresolved /\ Selected(v, q) = {}
            /\ Respond(t, "put", Answer(t, "no_evidence", {}))
  <2>1. Justified(Answer(t, "no_evidence", {}))
    BY <1>12 DEF Justified, Answer
  <2> QED
    BY <1>5, <1>12, <2>1 DEF Results
<1>13. CASE /\ q \notin Incomplete /\ hits # {} /\ s \notin Unresolved /\ Disputed(v, q) # {}
            /\ Respond(t, "put", Answer(t, "conflict", Disputed(v, q)))
  <2>1. Justified(Answer(t, "conflict", Disputed(v, q)))
    BY <1>13 DEF Justified, Answer
  <2> QED
    BY <1>4, <1>5, <1>13, <2>1 DEF Results
<1>14. CASE /\ q \notin Incomplete /\ hits # {} /\ s \notin Unresolved /\ Disputed(v, q) = {}
            /\ request' = [request EXCEPT ![t].step = "generate", ![t].evidence = Selected(v, q)]
  <2>1. EvidenceOK([request[t] EXCEPT !.step = "generate", !.evidence = Selected(v, q)])
    BY <1>7, <1>14 DEF EvidenceOK
  <2> QED
    BY <1>4, <1>6, <1>14, <2>1
<1> QED
  BY <1>8, <1>9, <1>10, <1>11, <1>12, <1>13, <1>14 DEF Execute, CorpusOf

\* A generator that fails may have been paid: its request has no response.
LEMMA GenerateAdvances ==
    ASSUME IInv, NEW t \in Threads, Generate(t) PROVE Advances(t)
<1>1. request[t] \in Request /\ RequestOK(request[t], current[t], active, build)
  BY DEF IInv, TypeOK, RequestsOK
<1>2. request[t].step = "generate" /\ UNCHANGED <<active, build, free, current>>
  BY DEF Generate, world
<1>3. ASSUME NEW draft \in Drafts,
             request' = [request EXCEPT ![t].step = "cite", ![t].draft = draft, ![t].paid = 1]
      PROVE Advances(t)
  <2> DEFINE r == [request[t] EXCEPT !.step = "cite", !.draft = draft, !.paid = 1]
  <2>1. request' = [request EXCEPT ![t] = r]
    BY <1>3 DEF IInv, TypeOK
  <2>2. r \in Request
    <3>1. draft \in SUBSET Citation /\ 1 \in 0..1 /\ "cite" \in Steps
      BY DraftsAssumption DEF Steps
    <3> QED
      BY <1>1, <3>1 DEF Request
  <2>3. r.step = "cite" /\ r.version = request[t].version /\ r.question = request[t].question
        /\ r.strategy = request[t].strategy /\ r.response = request[t].response
        /\ r.evidence = request[t].evidence
    BY <1>1 DEF Request
  <2>4. EvidenceOK(r)
    BY <1>1, <1>2, <2>3 DEF RequestOK, EvidenceOK
  <2>5. RequestOK(r, current[t], active, build)
    BY <1>1, <1>2, <2>3, <2>4
       DEF RequestOK, ResponseOK, ResponseOwn, Named, Dated, Unanswered, Unpaid
  <2> QED
    BY <1>2, <2>1, <2>2, <2>3, <2>5 DEF Advances, Holding
<1>4. ASSUME NEW error \in {"unavailable", "invalid"}, NEW paid \in 0..1,
             request' = [request EXCEPT ![t].step = "release", ![t].error = error, ![t].paid = paid]
      PROVE Advances(t)
  <2> DEFINE r == [request[t] EXCEPT !.step = "release", !.error = error, !.paid = paid]
  <2>1. request' = [request EXCEPT ![t] = r]
    BY <1>4 DEF IInv, TypeOK
  <2>2. r \in Request
    BY <1>1 DEF Request, Steps, Errors
  <2>3. r.step = "release" /\ r.response = None
    BY <1>1, <1>2 DEF Request, RequestOK, Unanswered
  <2>4. RequestOK(r, current[t], active, build)
    BY <2>3 DEF RequestOK, ResponseOK, ResponseOwn, Named, Dated, Unanswered, Unpaid
  <2> QED
    BY <1>2, <2>1, <2>2, <2>3, <2>4 DEF Advances, Holding
<1> QED
  BY <1>3, <1>4 DEF Generate

\* An accepted draft cites evidence only, which is what resolution selected.
LEMMA CiteAdvances ==
    ASSUME IInv, NEW t \in Threads, Cite(t) PROVE Advances(t)
<1> DEFINE draft == request[t].draft
           cited == {c.id : c \in draft}
<1>1. request[t] \in Request /\ RequestOK(request[t], current[t], active, build)
  BY DEF IInv, TypeOK, RequestsOK
<1>2. request[t].step = "cite" /\ UNCHANGED <<active, build, free, current>>
  BY DEF Cite, world
<1>3. EvidenceOK(request[t])
  BY <1>1, <1>2 DEF RequestOK
<1>4. CASE /\ \A c \in draft : c.id \in request[t].evidence /\ c.exact
           /\ Respond(t, "put", Answer(t, "answered", cited))
  <2>1. cited \subseteq request[t].evidence
    BY <1>4
  <2>2. request[t].evidence \in SUBSET Clauses
    BY <1>1 DEF Request
  <2>3. Justified(Answer(t, "answered", cited))
    <3> DEFINE a == Answer(t, "answered", cited)
    <3>1. a.result = "answered" /\ a.cited = cited /\ a.version = request[t].version
          /\ a.question = request[t].question /\ a.strategy = request[t].strategy
      BY DEF Answer
    <3>2. Justified(a)
      <4> HIDE DEF a, cited
      <4> QED
        BY <1>3, <2>1, <3>1 DEF Justified, EvidenceOK
    <3> QED
      BY <3>2
  <2> QED
    BY <1>2, <1>4, <2>1, <2>2, <2>3, RespondAdvances DEF Results
<1>5. CASE Fail(t, "invalid")
  BY <1>2, <1>5, FailAdvances DEF Unanswered, Errors
<1> QED
  BY <1>4, <1>5 DEF Cite

-----------------------------------------------------------------------------
(* The cache.                                                               *)

\* What is stored is right for its key, and what is kept was.
LEMMA StoreSound ==
    ASSUME IInv, NEW t \in Threads, request[t].step = "put", Store(t)
    PROVE  cache' \in [Keys -> Response \cup {None}] /\ CacheHoldsAnswers'
<1>1. request[t] \in Request /\ RequestOK(request[t], current[t], active, build)
  BY DEF IInv, TypeOK, RequestsOK
<1>2. CASE UNCHANGED cache
  BY <1>2 DEF IInv, TypeOK, CacheHoldsAnswers
<1>3. ASSUME NEW keep \in SUBSET {k \in Keys \ {Key(t)} : cache[k] # None},
             cache' = [k \in Keys |-> IF k = Key(t) THEN request[t].response
                                      ELSE IF k \in keep THEN cache[k] ELSE None]
      PROVE cache' \in [Keys -> Response \cup {None}] /\ CacheHoldsAnswers'
  <2>1. request[t].response \in Response \cup {None}
    BY <1>1 DEF Request
  <2>2. cache' \in [Keys -> Response \cup {None}]
    BY <1>3, <2>1 DEF IInv, TypeOK
  <2>3. request[t].response # None =>
           /\ Justified(request[t].response)
           /\ Key(t) = [question |-> request[t].response.question,
                        version |-> request[t].response.version,
                        strategy |-> request[t].response.strategy,
                        build |-> request[t].response.build]
    BY <1>1 DEF RequestOK, ResponseOK, ResponseOwn, Key
  <2>4. ASSUME NEW k \in Keys, cache'[k] # None
        PROVE /\ Justified(cache'[k])
              /\ k = [question |-> cache'[k].question, version |-> cache'[k].version,
                      strategy |-> cache'[k].strategy, build |-> cache'[k].build]
    <3>1. CASE k = Key(t)
      BY <1>3, <2>3, <2>4, <3>1
    <3>2. CASE k # Key(t)
      <4>1. cache'[k] = cache[k] /\ cache[k] # None
        BY <1>3, <2>4, <3>2
      <4> QED
        BY <4>1 DEF IInv, CacheHoldsAnswers
    <3> QED
      BY <3>1, <3>2
  <2> QED
    BY <2>2, <2>4 DEF CacheHoldsAnswers
<1> QED
  BY <1>2, <1>3 DEF Store

\* The answer is put into the cache it was made for.
LEMMA PutSound == ASSUME IInv, NEW t \in Threads, Put(t) PROVE IInv'
<1> DEFINE r == [request[t] EXCEPT !.step = "release"]
<1>1. request[t] \in Request /\ RequestOK(request[t], current[t], active, build)
  BY DEF IInv, TypeOK, RequestsOK
<1>2. request[t].step = "put" /\ UNCHANGED <<active, build, free, current>>
  BY DEF Put, world
<1>3. cache' \in [Keys -> Response \cup {None}] /\ CacheHoldsAnswers'
  BY <1>2, StoreSound DEF Put
<1>4. request' = [request EXCEPT ![t] = r]
  BY DEF IInv, TypeOK, Put, Go
<1>5. r \in Request
  BY <1>1 DEF Request, Steps
<1>6. r.step = "release" /\ r.response = request[t].response /\ r.paid = request[t].paid
      /\ r.question = request[t].question /\ r.strategy = request[t].strategy
  BY <1>1 DEF Request
<1>7. RequestOK(r, current[t], active, build)
  BY <1>1, <1>2, <1>6 DEF RequestOK, ResponseOK, ResponseOwn, Named, Dated, Unanswered, Unpaid
<1>8. Advances(t)
  BY <1>2, <1>4, <1>5, <1>6, <1>7 DEF Advances, Holding
<1> QED
  BY <1>3, <1>8, AdvanceSound

\* A put that fails may have stored the answer: it is a right one all the same.
LEMMA StorageFailsSound == ASSUME IInv, NEW t \in Threads, StorageFails(t) PROVE IInv'
<1> DEFINE r == [request[t] EXCEPT !.step = "release", !.error = "storage", !.response = None]
<1>1. request[t] \in Request
  BY DEF IInv, TypeOK
<1>2. /\ request[t].step \in {"snapshot", "lookup", "execute", "put"}
      /\ UNCHANGED <<active, build, free, current>>
  BY DEF StorageFails, world
<1>3. cache' \in [Keys -> Response \cup {None}] /\ CacheHoldsAnswers'
  <2>1. CASE UNCHANGED cache
    BY <2>1 DEF IInv, TypeOK, CacheHoldsAnswers
  <2>2. CASE request[t].step = "put" /\ Store(t)
    BY <2>2, StoreSound
  <2> QED
    BY <2>1, <2>2 DEF StorageFails
<1>4. request' = [request EXCEPT ![t] = r]
  BY DEF IInv, TypeOK, StorageFails
<1>5. r \in Request
  BY <1>1 DEF Request, Steps, Errors
<1>6. r.step = "release" /\ r.response = None
  BY <1>1 DEF Request
<1>7. RequestOK(r, current[t], active, build)
  BY <1>6 DEF RequestOK, ResponseOK, ResponseOwn, Named, Dated, Unanswered, Unpaid
<1>8. Advances(t)
  BY <1>2, <1>4, <1>5, <1>6, <1>7 DEF Advances, Holding
<1> QED
  BY <1>3, <1>8, AdvanceSound

-----------------------------------------------------------------------------
(* The slots, and what goes on around the requests.                         *)

\* A request takes a slot, or is refused without one.
LEMMA BeginSound ==
    ASSUME IInv, NEW t \in Threads, NEW q \in Questions, NEW strategy \in Strategies,
           Begin(t, q, strategy)
    PROVE  IInv'
<1> DEFINE taken == [NoRequest EXCEPT
                        !.step = "snapshot", !.question = q, !.strategy = strategy]
           refused == [NoRequest EXCEPT
                        !.step = "done", !.question = q, !.strategy = strategy, !.error = "busy"]
<1>1. /\ request[t].step = "idle" /\ UNCHANGED <<active, build, cache>>
      /\ current' = [current EXCEPT ![t] = {active} \ {None}]
      /\ \/ free > 0 /\ free' = free - 1 /\ request' = [request EXCEPT ![t] = taken]
         \/ free' = free /\ request' = [request EXCEPT ![t] = refused]
  BY DEF Begin, world
<1>2. NoRequest \in Request
  BY DEF NoRequest, Request, Steps
<1>3. taken \in Request /\ refused \in Request
  BY <1>2 DEF Request, Steps, Errors
<1>4. /\ taken.step = "snapshot" /\ taken.question = q /\ taken.strategy = strategy
      /\ taken.response = None /\ taken.paid = 0
      /\ refused.step = "done" /\ refused.response = None
  BY DEF NoRequest
<1>5. RequestOK(taken, {active} \ {None}, active, build)
      /\ RequestOK(refused, {active} \ {None}, active, build)
  <2> HIDE DEF taken, refused
  <2> QED
    BY <1>4 DEF RequestOK, ResponseOK, ResponseOwn, Named, Dated, Unanswered, Unpaid
<1> HIDE DEF taken, refused
<1>6. request' \in [Threads -> Request]
  BY <1>1, <1>3 DEF IInv, TypeOK
<1>7. current' \in [Threads -> SUBSET Versions]
  BY <1>1 DEF IInv, TypeOK
<1>8. RequestsOK'
  <2> SUFFICES ASSUME NEW u \in Threads
               PROVE RequestOK(request'[u], current'[u], active, build)
    BY <1>1 DEF RequestsOK
  <2>1. CASE u = t
    BY <1>1, <1>5, <2>1 DEF IInv, TypeOK
  <2>2. CASE u # t
    BY <1>1, <2>2 DEF IInv, TypeOK, RequestsOK
  <2> QED
    BY <2>1, <2>2
<1>9. CacheHoldsAnswers'
  BY <1>1 DEF IInv, CacheHoldsAnswers
<1>10. free' \in 0..Concurrency /\ SlotsAccounted'
  <2>1. CASE free > 0 /\ free' = free - 1 /\ request' = [request EXCEPT ![t] = taken]
    <3>1. Holders' = Holders \cup {t} /\ t \notin Holders
      BY <1>1, <1>4, <2>1 DEF Holders, Holding, IInv, TypeOK
    <3>2. Cardinality(Holders') = Cardinality(Holders) + 1
      BY <3>1, HoldersFinite, FS_AddElement
    <3> QED
      BY <2>1, <3>2, HoldersFinite, ConcurrencyAssumption
         DEF IInv, TypeOK, SlotsAccounted, Holders
  <2>2. CASE free' = free /\ request' = [request EXCEPT ![t] = refused]
    <3>1. Holders' = Holders
      BY <1>1, <1>4, <2>2 DEF Holders, Holding, IInv, TypeOK
    <3> QED
      BY <2>2, <3>1 DEF IInv, TypeOK, SlotsAccounted, Holders
  <2> QED
    BY <1>1, <2>1, <2>2
<1> QED
  BY <1>1, <1>6, <1>7, <1>8, <1>9, <1>10 DEF IInv, TypeOK

\* The slot is given back.
LEMMA ReleaseSound == ASSUME IInv, NEW t \in Threads, Release(t) PROVE IInv'
<1> DEFINE r == [request[t] EXCEPT !.step = "done"]
<1>1. request[t] \in Request /\ RequestOK(request[t], current[t], active, build)
  BY DEF IInv, TypeOK, RequestsOK
<1>2. /\ request[t].step = "release" /\ free' = free + 1
      /\ UNCHANGED <<active, build, cache, current>>
  BY DEF Release, world
<1>3. request' = [request EXCEPT ![t] = r]
  BY DEF IInv, TypeOK, Release, Go
<1>4. r \in Request
  BY <1>1 DEF Request, Steps
<1>5. r.step = "done" /\ r.response = request[t].response /\ r.paid = request[t].paid
  BY <1>1 DEF Request
<1>6. RequestOK(r, current[t], active, build)
  BY <1>1, <1>5 DEF RequestOK, ResponseOK, ResponseOwn, Named, Dated, Unanswered, Unpaid
<1>7. request' \in [Threads -> Request] /\ RequestsOK'
  BY <1>2, <1>3, <1>4, <1>6, Becomes DEF IInv
<1>8. CacheHoldsAnswers'
  BY <1>2 DEF IInv, CacheHoldsAnswers
<1>9. free' \in 0..Concurrency /\ SlotsAccounted'
  <2>1. Holders' = Holders \ {t} /\ t \in Holders
    BY <1>2, <1>3, <1>5 DEF Holders, Holding, IInv, TypeOK
  <2>2. Cardinality(Holders') = Cardinality(Holders) - 1
    BY <2>1, HoldersFinite, FS_RemoveElement
  <2>3. Cardinality(Holders') \in Nat
    BY <2>1, HoldersFinite, FS_RemoveElement, FS_CardinalityType
  <2> QED
    BY <1>2, <2>2, <2>3, HoldersFinite, ConcurrencyAssumption
       DEF IInv, TypeOK, SlotsAccounted, Holders
<1> QED
  BY <1>2, <1>7, <1>8, <1>9 DEF IInv, TypeOK

\* A finished request leaves nothing behind.
LEMMA FinishSound == ASSUME IInv, NEW t \in Threads, Finish(t) PROVE IInv'
<1>1. /\ request[t].step = "done" /\ UNCHANGED <<active, build, free, cache>>
      /\ request' = [request EXCEPT ![t] = NoRequest]
      /\ current' = [current EXCEPT ![t] = {}]
  BY DEF Finish, world
<1>2. NoRequest \in Request
  BY DEF NoRequest, Request, Steps
<1>3. RequestOK(NoRequest, {}, active, build)
  BY DEF NoRequest, RequestOK, ResponseOK, ResponseOwn, Named, Dated, Unanswered, Unpaid
<1>4. TypeOK'
  BY <1>1, <1>2 DEF IInv, TypeOK
<1>5. RequestsOK'
  <2> SUFFICES ASSUME NEW u \in Threads
               PROVE RequestOK(request'[u], current'[u], active, build)
    BY <1>1 DEF RequestsOK
  <2>1. CASE u = t
    BY <1>1, <1>3, <2>1 DEF IInv, TypeOK
  <2>2. CASE u # t
    BY <1>1, <2>2 DEF IInv, TypeOK, RequestsOK
  <2> QED
    BY <2>1, <2>2
<1>6. CacheHoldsAnswers'
  BY <1>1 DEF IInv, CacheHoldsAnswers
<1>7. SlotsAccounted'
  <2>1. NoRequest.step = "idle"
    BY DEF NoRequest
  <2> QED
    BY <1>1, <1>2, <2>1, SlotKept DEF IInv, Holding
<1> QED
  BY <1>4, <1>5, <1>6, <1>7 DEF IInv

\* A publication adds to what every running request has seen, and changes no request.
LEMMA PublishSound == ASSUME IInv, NEW v \in Versions, Publish(v) PROVE IInv'
<1>1. /\ active' = v /\ UNCHANGED <<build, free, cache, request>>
      /\ current' = [t \in Threads |->
             IF request[t].step \in Holding THEN current[t] \cup {v} ELSE current[t]]
  BY DEF Publish
<1>2. TypeOK'
  BY <1>1 DEF IInv, TypeOK
<1>3. RequestsOK'
  <2> SUFFICES ASSUME NEW t \in Threads
               PROVE RequestOK(request[t], current'[t], v, build)
    BY <1>1 DEF RequestsOK
  <2>1. RequestOK(request[t], current[t], active, build)
    BY DEF IInv, RequestsOK
  <2>2. current[t] \subseteq current'[t]
    BY <1>1
  <2>3. request[t].step = "snapshot" => v \in current'[t]
    BY <1>1 DEF Holding
  <2> QED
    BY <2>1, <2>2, <2>3 DEF RequestOK, ResponseOK, ResponseOwn
<1>4. CacheHoldsAnswers' /\ SlotsAccounted'
  BY <1>1 DEF IInv, CacheHoldsAnswers, SlotsAccounted
<1> QED
  BY <1>2, <1>3, <1>4 DEF IInv

\* A new process holds no slot and owes no response.
LEMMA RestartSound == ASSUME IInv, NEW b \in Builds, Restart(b) PROVE IInv'
<1> DEFINE lost(t) == [request[t] EXCEPT !.step = "done", !.error = "lost", !.response = None]
<1>1. /\ build' = b /\ free' = Concurrency /\ UNCHANGED <<active, cache, current>>
      /\ request' = [t \in Threads |->
             IF request[t].step \in Holding THEN lost(t) ELSE NoRequest]
  BY DEF Restart
<1>2. NoRequest \in Request
  BY DEF NoRequest, Request, Steps
<1>3. \A t \in Threads : lost(t) \in Request /\ lost(t).step = "done" /\ lost(t).response = None
  <2> SUFFICES ASSUME NEW t \in Threads
               PROVE lost(t) \in Request /\ lost(t).step = "done" /\ lost(t).response = None
    OBVIOUS
  <2>1. request[t] \in Request
    BY RequestTyped DEF IInv
  <2>2. lost(t) \in Request
    BY <2>1 DEF Request, Steps, Errors
  <2> QED
    BY <2>1, <2>2 DEF Request
<1> HIDE DEF lost
<1>4. request' \in [Threads -> Request]
  BY <1>1, <1>2, <1>3
<1>5. \A t \in Threads : request'[t].response = None /\ request'[t].step \in {"idle", "done"}
  BY <1>1, <1>3 DEF NoRequest
<1>6. TypeOK'
  BY <1>1, <1>4, ConcurrencyAssumption DEF IInv, TypeOK
<1>7. RequestsOK'
  BY <1>5 DEF RequestsOK, RequestOK, ResponseOK, ResponseOwn, Named, Dated, Unanswered, Unpaid
<1>8. CacheHoldsAnswers'
  BY <1>1 DEF IInv, CacheHoldsAnswers
<1>9. SlotsAccounted'
  <2>1. {t \in Threads : request'[t].step \in Holding} = {}
    BY <1>5 DEF Holding
  <2>2. Cardinality({t \in Threads : request'[t].step \in Holding}) = 0
    BY <2>1, FS_EmptySet
  <2>3. free' + 0 = Concurrency
    BY <1>1, ConcurrencyAssumption
  <2> QED
    BY <2>2, <2>3 DEF SlotsAccounted
<1> QED
  BY <1>6, <1>7, <1>8, <1>9 DEF IInv

-----------------------------------------------------------------------------
(* The theorems.                                                            *)

\* Every step keeps the invariant.
LEMMA StepIInv == ASSUME IInv, [Next]_vars PROVE IInv'
<1>1. ASSUME NEW t \in Threads, Advances(t), UNCHANGED cache PROVE IInv'
  BY <1>1, AdvanceSound DEF IInv, TypeOK, CacheHoldsAnswers
<1>2. ASSUME NEW t \in Threads, ThreadStep(t) PROVE IInv'
  <2>1. CASE Snapshot(t)
    BY <1>1, <2>1, SnapshotAdvances DEF Snapshot
  <2>2. CASE Lookup(t)
    BY <1>1, <2>2, LookupAdvances DEF Lookup
  <2>3. CASE Execute(t)
    BY <1>1, <2>3, ExecuteAdvances DEF Execute
  <2>4. CASE Generate(t)
    BY <1>1, <2>4, GenerateAdvances DEF Generate
  <2>5. CASE Cite(t)
    BY <1>1, <2>5, CiteAdvances DEF Cite
  <2> QED
    BY <1>2, <2>1, <2>2, <2>3, <2>4, <2>5, PutSound, StorageFailsSound, ReleaseSound,
       FinishSound DEF ThreadStep
<1>3. CASE UNCHANGED vars
  <2>1. UNCHANGED <<active, build, free, cache, request, current>>
    BY <1>3 DEF vars
  <2>2. TypeOK'
    BY <2>1 DEF IInv, TypeOK
  <2>3. RequestsOK'
    BY <2>1 DEF IInv, RequestsOK
  <2>4. CacheHoldsAnswers' /\ SlotsAccounted'
    BY <2>1 DEF IInv, CacheHoldsAnswers, SlotsAccounted
  <2> QED
    BY <2>2, <2>3, <2>4 DEF IInv
<1> QED
  BY <1>2, <1>3, BeginSound, PublishSound, RestartSound DEF Next

\* So it holds throughout.
LEMMA InvariantHolds == Spec => []IInv
<1> QED
  BY InitIInv, StepIInv, PTL DEF Spec

\* Every variable keeps its type; never more slots are free than there are.
THEOREM TypeCorrect == Spec => []TypeOK
<1>1. IInv => TypeOK
  BY DEF IInv
<1> QED
  BY InvariantHolds, <1>1, PTL

\* Every response, fresh or cached, follows from the one version it names, for any
\* corpora, retrieval, resolution and generator.
THEOREM OneVersionPerAnswer == Spec => []AnswersFollowTheirVersion
<1>1. IInv => AnswersFollowTheirVersion
  BY DEF IInv, RequestsOK, RequestOK, ResponseOK, AnswersFollowTheirVersion
<1> QED
  BY InvariantHolds, <1>1, PTL

\* The version a response names was active while its request ran.
THEOREM NoReplacedCorpus == Spec => []VersionWasCurrent
<1>1. IInv => VersionWasCurrent
  BY DEF IInv, RequestsOK, RequestOK, ResponseOK, VersionWasCurrent
<1> QED
  BY InvariantHolds, <1>1, PTL

\* Every response is to the request it is given to, by the running configuration.
THEOREM OwnAnswer == Spec => []AnswersItsRequest
<1>1. IInv => AnswersItsRequest
  BY DEF IInv, RequestsOK, RequestOK, ResponseOwn, AnswersItsRequest
<1> QED
  BY InvariantHolds, <1>1, PTL

\* The stored cache holds right answers under their own keys, over every restart and
\* whatever put failed after it stored.
THEOREM CacheSound == Spec => []CacheHoldsAnswers
<1>1. IInv => CacheHoldsAnswers
  BY DEF IInv
<1> QED
  BY InvariantHolds, <1>1, PTL

\* Nothing is paid for a response that is not an answer.
THEOREM FreeAbstentions == Spec => []AbstentionsAreFree
<1>1. IInv => AbstentionsAreFree
  BY DEF IInv, RequestsOK, RequestOK, ResponseOK, AbstentionsAreFree
<1> QED
  BY InvariantHolds, <1>1, PTL

\* No slot is lost or given back twice, for any number of threads and slots.
THEOREM SlotsBalance == Spec => []SlotsAccounted
<1>1. IInv => SlotsAccounted
  BY DEF IInv
<1> QED
  BY InvariantHolds, <1>1, PTL
=============================================================================
