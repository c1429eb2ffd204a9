# PolicyTime in TLA+

PolicyTime answers questions about travel and expense policies as they stood on the day of an
expense. It resolves which clauses apply by explicit rules, lets a model phrase the answer, checks
the model's citations against the clauses, and pays for model calls from a monthly budget. This
directory models the parts of it in which an order of events, a failure or a corner of the input
decides whether an answer is right or money is lost. Paths below are relative to the repository.

Every state machine is checked by TLC on small instances. The safety properties of the ledger, the
provider calls, policy resolution, the answer service, the corpus store, the web requests, the evaluation
and the release are also proved with TLAPS for all values of their constants, as are the price bound and the
fact that makes two agreeing searches win. Liveness is model-checked only.

## The system

| Component | State | Operations | What is hard |
|---|---|---|---|
| Budget ledger (`adapters/operations.py`, `database.py`) | `budget_months`, `budget_reservations` | `reserve`, `settle` | transactions of several statements interleave; aborts, crashes, lost commits; the month turns |
| Provider calls (`adapters/generation.py`, `judging.py`) | a reservation and a known or unknown cost per call | `generate`, the paid loop of `run_judge` | timeouts that are billed later, unusable replies, a failing `finally` |
| Policy resolution (`domain/resolution.py`, `models.py`) | work lists of two graph algorithms | `validate_corpus`, `resolve` | cycles, chains and diamonds of precedence, through clauses that apply or not; boundary days |
| Answer service (`application/service.py`, `evidence.py`) | slots, the request's snapshot, the answer cache | `ask` | the corpus is switched under a request; a cache that outlives configurations; every error path |
| Corpus store and retrieval (`database.py`, `retrieval.py`, `corpus.py`) | corpora, clauses, relationships, `active_corpus` | `publish_corpus`, `snapshot`, `search` | overlapping ingests under one lock, another encoder, publications during a search |
| Answer caches (`operations.py`, `offline.py`) | entries with an expiry or an order of use | `get`, `put` | expiry at the instant of use, eviction |
| Release (`deploy/release.py`) | active corpus, running image, state file | `main`, `restore_corpus` | a failure or a stop between any two commands, and the retry after it |
| Rate limiter (`delivery/telemetry.py`) | histories per client | `allow` | a clock read outside the lock, a table at its limit |
| Web requests (`delivery/web.py`, `telemetry.py`) | the request being served | body limit, `_admit_request`, `ask`, `ask_form`, error handlers | bodies in chunks, two answers in one request |
| Fixture (`scripts/author_corpus.py`, `author_benchmark.py`) | none | the 24 policies, the 60 reference cases | two hand-written tables that must agree |
| Evaluation (`adapters/benchmark.py`, `judging.py`, `application/evaluation.py`) | result, summary, rating, judge and agreement files | `run_benchmark`, `score_response`, `prepare_ratings`, `run_judge` | commands that stop in the middle, files that must not be overwritten, rates over failures |

They interact as follows. A request enters the web process, takes one of the answer slots, reads
the active corpus once, and looks into the cache under a key that holds everything the answer
depends on. On a miss it retrieves, resolves and, unless there is nothing to say or the policies
disagree, calls the generator, which books its maximum cost in the ledger before it sends the
request and settles afterwards. The judge and the benchmark are other processes on the same
database. `policytime ingest`, run by a release, switches the active corpus while requests are
under way.

## Modules

    SpendingLedger  <-- implemented by --  BudgetLedger  <-- BudgetLedgerProofs
          ^
          |  extends
    ProviderCalls  <-- ProviderCallsProofs  --extends-->  Pricing

    PolicyRules  <-- extended by --  PolicyResolution  <-- PolicyResolutionProofs
          ^    ^
          |    +-- Retrieval  <-- extended by --  CorpusStore  <-- CorpusStoreProofs
          +-- PolicyFixture  <-- extended by --  Evaluation

    RateLimiter  <-- extended by --  WebRequests  <-- WebRequestsProofs

    AnswerService  <-- AnswerServiceProofs

    Evaluation, Release  <-- extended by --  OperatorProofs

    Sums (lemmas)  <-- extended by --  BudgetLedgerProofs, ProviderCallsProofs, CorpusStoreProofs,
                                       PolicyResolutionProofs, OperatorProofs

Each state machine except `SpendingLedger` has an `MC...` module with the definitions its
configurations use. Operators marked *Mutant* are plausible
bugs of the definition that follows them; no specification uses them. Each property is known to
fail when one of them takes the place of the real definition.

### SpendingLedger and BudgetLedger

`SpendingLedger` is the contract that callers rely on (`BudgetLedger` in `application/ports.py`):
`Reserve` sets money of a month aside if the month can afford it, `Settle` turns it into a charge
of at most that amount, and each is one step.

`BudgetLedger` is `PostgresBudgetLedger` at the level of SQL statements. `tx[s]` is the
transaction of a connection; its step names the statement it executes next. `InsertMonth` is the
`INSERT ... ON CONFLICT DO NOTHING`, `LockToReserve` and `LockToSettle` are the `SELECT ... FOR
UPDATE` of the month, `LockReservation` that of the reservation. A transaction keeps the row it
read under the lock in `seen` and commits values computed from it, as the ORM's flush does, so a
missing lock really loses an update. Locks are not variables: what a transaction holds follows
from its step (`HoldsMonth`, `HoldsReservation`, `HoldsInsert`). `Abort` ends a transaction at any
statement, `Crash` those of a process, `CommitReserve` and `ReturnReserve` are apart so that the
identifier can be lost with the acknowledgement, and `TurnMonth` can happen anywhere. Identifiers are
drawn from a finite set, as `uuid4` draws from 2^122 (`ReservationsAssumption`); without it a sum over
them would not be defined.

`ImplementsLedger` states that `BudgetLedger` refines `SpendingLedger`: `Booked` maps the two
tables, together with what was charged, to `account` and `booking`.

### ProviderCalls and Pricing

A call of `generate` or an item of the judge goes through `BookCall`, `Send`, one of `Reply`,
`SendFails` and `Timeout`, and then `SettleCall` for the `finally`. The provider is external: its
side is `atProvider` and `billed`, and `LateBill` lets it finish and bill a request the client gave
up on. The ledger's operations are those of `SpendingLedger`; that the SQL behaves like them is
what `BudgetLedger` is about. `SettleFails` and `BookingFails` are database errors, `Stop` ends a
process. `metered` is the Prometheus counter of costs. `Held` are the open reservations no call will settle
any more, `Failed` the calls that ended in an error or with their process.

`Pricing` has the arithmetic the ceiling depends on: with the guard on the size of the payload and
`max_tokens`, a call costs at most what it reserves, if what surrounds the payload (system prompt,
schema) stays under 89,000 and 116,000 bytes and a token is at least one byte. The two facts are
theorems of `ProviderCallsProofs`.

### PolicyRules and PolicyResolution

`PolicyRules` has the rules of `domain/models.py` and of `validate_corpus`, and the reference:
`Precedes` is the transitive precedence within a set of clauses, defined by closed sets and not by
a search, and `Authoritative` is the set of eligible clauses that no eligible clause precedes.

`PolicyResolution` runs the code one loop iteration per step. `Visit`, `VisitRoot`, `VisitTarget`
and `Leave` are the recursive `visit` with an explicit stack; `Filter` is the first loop of
`resolve` with `_exclusion`; `DisplaceFrom` and `Displace` are `_displaced_clauses` with its work
list popped from the end; `Select` and `Selected` are the rest. A clause is a record of what the
rules compare; days, countries and values are small numbers and names. The service resolves one
topic's clauses at a time; precedence never leaves a topic (`LinkOK`), so the model resolves a whole
corpus. A group of disagreeing clauses is a set of clauses, as is `conflicts`: their order is layout.
`InputsAssumption` is what the types of the domain models guarantee of any input.

### AnswerService

`Begin` to `Release` follow `ask`, `_answer`, `_execute` and `_generate` through their calls to the
repository, cache, retriever, generator and cache again. The state a request carries is what the
code holds in local variables: the snapshot's version, the evidence, the draft, the response.
`Hits`, `Selected` and `Disputed` are constants: functions from a version and a question (and a
strategy) to clauses, so that an answer can be compared with the version it names. A generator may
return any of `Drafts`, correct or not. `Publish` switches the corpus; `Restart` starts the process
with another configuration over the stored cache. `current` is a history of the versions that were
active during a request.

### Release

`main()` of `deploy/release.py`, one action per command or function, over several attempts. Every
command may fail, those with an effect also after it took place; `Interrupt` ends the script anywhere.
What outlives an attempt is the database's active corpus, the container's image and the state file,
which a stop can leave torn. `clean` is a history: once ingest had begun, no attempt was stopped, and
none failed outside what the `try` block rolls back. A failing `ingest`, a failing restore and a failing
rollback all make it false, although such an attempt ends by itself; after one of them only `ReleaseRepairs`
speaks, and only of a later success.

### Retrieval and CorpusStore

`CorpusStore` has the tables of the corpora. `Begin` to `Commit` are `policytime ingest` and
`publish_corpus` one SQL statement per step: the transaction's lock, the look at an existing version,
the three groups of inserts and the pointer. What a transaction inserted shows at its commit;
`HoldsLock` follows from the step, as the lock is the transaction's. A version is the fingerprint of
a `File`: its documents, the headings of its clauses, the clauses. `Loadable` is what `load_corpus`
accepts, `Valid` what `validate_corpus` does, by the reference definition of a cycle that `resolution`
checks the search for cycles against. `TwinLinks` is the primary key that validation does not
know of. `Commit` may lose its acknowledgement, `Abort` ends a transaction anywhere, `Restore` is the
rollback of a release. A search is `Snapshot`, `CheckIdentity`, `SearchDense` and `SearchLexical`;
publications and rollbacks happen between them.

`Retrieval` has what a search computes: the rows its `WHERE` clause matches, and the fusion of two
rankings. What is near or matches a text is a parameter, so a ranking is any sequence of matching
clauses up to the limit. Scores are fractions compared by cross-multiplication: up to
twelve ranks the code's floating point sums order all pairs of ranks as the fractions do. `Fused` is what
sorting by score and id yields: the sequence in which each clause is `Before` the later ones. Ids are
numbers, which stand for the order of their strings (`FilesAssumption`).

### RateLimiter and WebRequests

`RateLimiter` is `allow` under its lock, as operators: `Prune` drops the idle clients of a full table,
`Trim` drops expired times from the front of a history (`After`), and `allow` gives the verdict and the table it
leaves. `WebRequests` runs it from several connections. `Enter` reads the clock and `Decide` takes the
lock, up to `MaxStall` ticks later, so that times arrive out of order. Bodies come in `Chunk`s that
`BodyLimitMiddleware` counts; input without its fields is refused before the handler runs, a form's
wrong fields after admission (`Parse`). `Ask` is one `_run_answer`; a comparison needs two, and `Fail` is
how each kind of exception reaches the client. What a client asked for is chosen where the code looks
at it, not when it is sent. `admissions` is a history: the real times at which each client was let in,
as long as they can matter; `read` is one too, whether a body came to its end within the limit.

### PolicyFixture and Evaluation

`PolicyFixture` writes the clauses of `scripts/author_corpus.py` and the cases of
`scripts/author_benchmark.py`, each from its own tables as the scripts do; wording is left out, and a
clause's value stands for the phrase a case expects. The 60 cases were compared with the committed
`evaluation/cases.jsonl`.

`Evaluation` has the three commands and their files. `StartBenchmark`, `Ask`, `WriteRow` and
`WriteSummary` are `run_benchmark`; `Prepare` writes the empty ratings and `Annotate` is the author who
fills them in, well or badly; `StartJudge`, `Judge` and `Report` are `run_judge`. `Stop` ends a command
at any point, as an exception or an interruption would. A command that refuses to start changes nothing
and is no step. A group of rows is the set of its places in the file, and `RowsAt` reads the rows at some
places in the order of the file, which is what the comprehensions of `judging.py` do.

`reference_checks_pass` is `score_response`; `Right`, which it is compared with,
uses neither labels nor resolver but `Authoritative` of `PolicyRules`. The two meet in `LabelsAgree`: what
the labels of a case must say for its score to mean anything. `LabelsAssumption` says it of the 60 cases, and
TLC evaluates it. `Covered` is the limit of what labels can say: a case forbids the replaced clause
of its own topic only, so an answer about lodging that also cites the replaced meals clause of a contractor
passes every check. `Right` asks of such a clause that it applies, and no more.

## Runs

| Run | Instance | Shows |
|---|---|---|
| `ledger_safety` | 3 connections, 3 reservations, 2 months, limit 3, costs 1 and 2 | ceiling, agreement of totals and reservations, lock protection, single charge, refinement |
| `ledger_liveness` | 2 connections, 2 reservations, 2 months | every transaction ends: no deadlock of row locks |
| `calls` | 2 questions and a judge item, 3 reservations, 2 months, limit 3 | the provider's bills stay within the limit, each covered by its reservation; reported usage is settled exactly; money is held for good once per failure at most |
| `metrics_cost` | one question | finding, see below |
| `resolution` | every graph of 3 clauses and every acyclic graph of 4 in every order, each clause eligible or not; 2 clauses with all combinations of period, audience, rule, topic, value and link on 3 days | cycles are found exactly; selection, winners, conflicts and explanation are those of the reference; versions take turns; both algorithms end, and no link is followed twice for one clause |
| `answer_safety` | 2 threads, 2 slots, 2 versions, 2 configurations, 2 questions, strategies `complete` and `vector`, 1 cache entry | answers follow one version that was current and answer their request; nothing rejected is cached; abstentions cost nothing |
| `answer_slots` | 3 threads, 2 slots | refusal at capacity, slots returned, every request ends |
| `release` | 4 attempts, 3 images, 2 corpora | image and corpus stay together as long as `clean` holds, and so does the pair that is recorded; a success repairs whatever came before |
| `release_authority` | the same | finding, see below |
| `corpus` | 2 ingests, 5 corpora of at most 4 clauses (two valid, one with twin relationships, one cyclic, one with a lost heading), 2 encoders, one search, rankings and results of at most 2, of 3 clauses that apply | versions are stored whole or not at all; an ingest is refused for a reason of its own, ends, and frees the lock; hits are the snapshot's, apply, and keep what both rankings found |
| `evaluation` | the 60 cases in files of two, one of them with two strategies, files that break a rule of `load_cases`; every outcome with up to two citations; 2 scores | passing the checks is being right by precedence; summaries count failures; agreement covers what was held out and its examples are of other families; no file is overwritten |
| `web` | 2 connections, 3 clients, a table of 2, 2 admissions per window of 3 ticks, a stall of 1, clock to 4 | the window holds up to the stall; a refusal has a full window or a full table behind it; comparisons are shown whole, and no part of a body reaches the application |

Why these bounds. A lost update needs two connections and a third party to notice, and a refusal
at the limit needs a third reservation; two months are enough for a settlement that belongs to the
other one. The calls of two questions and one of the judge differ in price, so
that the limit admits some pairs and not others. Graph errors appear with three clauses (a cycle reached along two paths, a
displaced clause in the middle); four allow a diamond with links behind it. The rules compare two clauses at a time,
so pairs show every field. One cache entry is enough for it to be of any version, configuration
and question; two threads for a stale put after a fresh one. The strategy
`vector` stands for those that skip resolution; only the benchmark uses them, without a cache. A release problem needs one success,
one attempt that goes wrong, and one more that builds on it; the fourth leaves room for two.

Overlapping ingests need two transactions; five corpora are one for each way a publication can
go. On each day three clauses of one corpus apply in Brazil, while a ranking and a result hold two: each
ranking leaves one out, two rankings find up to three clauses, and the fusion of those has to drop one. That
makes agreement, a tie and a cut possible, the cut with and without a clause both rankings found. Each case is scored on its own
and a summary has one group per strategy and split, so files of two cases and one file with two
strategies make every kind of group; the fixture itself is complete. The limiter's table is full at two
clients and the third is the one it turns away; with two connections one thread can overtake the
other between clock and lock.

Bounds that only the model has: `MaxTime` and `MaxStall` of `WebRequests` (the code bounds the stall by
nothing; `WindowHeld` says what a stall costs), and in `Evaluation` a ratings file that grows by one row at
most, with no edit after the judge started. One command of the evaluation runs at a time.

Symmetry is used in safety runs only, over connections, reservations, threads and clients. Deadlock checking
is off where the modelled program ends: resolution and bounded attempts always do, and the calls of
an instance of ProviderCalls are used up.

### Findings

- `metrics_cost`: `docs/deployment.md` says that the metrics expose the provider's cost totals, but
  `_run_answer` counts only answers that are delivered. A paid reply that is rejected is charged to
  the ledger and missing from the counter (`delivery/web.py:136`).
- `release_authority`: `tests/test_release.py` says that a failed candidate must restore policy
  authority as well as the image. `ingest` runs outside the `try` block: when it fails after its
  commit, or the script stops before `up`, the candidate's corpus stays active, the next attempt
  takes it for the previous one, and its rollback restores the old image with the candidate's
  policies (`deploy/release.py:107`).

### Fairness

- `BudgetLedger`: strong fairness on the statements of each `reserve` and of each `settle`. While others
  take turns with a row, a statement that waits for it can run again and again but not all the time, so weak
  fairness would let it wait for ever. PostgreSQL queues the waiters of a lock, which passes nobody over for
  ever; that is strong fairness. Aborts are not fair, so nothing relies on a timeout to resolve a deadlock.
- `AnswerService`: weak fairness on each thread's step; the calls it makes are bounded by the
  provider's (20 seconds) and the database's timeouts, and a slot is never waited for.
- `PolicyResolution`: weak fairness on the one thread that runs it.
- `CorpusStore`: weak fairness on the statements of each ingest; `Abort` and the start of an ingest are
  not fair, so a waiting ingest relies on the others giving the lock back, not on a timeout. Each ingest is
  one run of the command and takes the lock once, so weak fairness is enough here.

## Proofs

Each proof assumes what the `ASSUME`s of its module name and nothing else; TLC evaluates them in every run.

`BudgetLedgerProofs` proves for any number of connections, reservations and months, any positive
limit and any positive costs (the assumptions named in `BudgetLedger`):

- `TypeCorrect`, `CeilingHolds`, `LocksHold`, `BookingsHold`: the invariants `TypeOK`, `Ceiling`,
  `LocksProtect`, `KnownIsBooked`;
- `ChargedOnceHolds`: the action property `ChargedOnce`;
- `Implementation`: `BudgetLedger` implements `SpendingLedger`;
- `TotalsReconcile`: the totals of every month are the sums of its reservation rows (`Reconciled`).

None of the first four invariants is inductive alone. `IInv` adds three facts: what a `reserve` that has not
committed holds (its identifier is nobody else's and has no row, its month exists in the
database or in its own uncommitted insert), what a `settle` works on (an existing row whose month
it locked, a cost within the row's amount), and that nothing unsettled was charged. The ceiling
then follows because a transaction about to commit holds the month's lock, so that what it saw is
still what the row holds (`LocksProtect`). `StepTypeOK` to `StepBooked` show the step for one
conjunct each, action by action. For `ChargedOnceHolds`, `Implementation` and `TotalsReconcile` only the
two commits matter: `OnlyCommitsWrite` shows that no other action changes the tables. A commit moves one
row from one sum to another and changes the totals by the same amount, because what it saw is current.

`Sums` has the lemmas about `SumFunctionOnSet` these proofs need: adding, removing or changing one
member, and an injection from one set into another. The library defines the sum by a recursion that takes
an arbitrary member first. `SetInduction` and `NaturalInduction` are induction stated over a *set* of
sets or numbers, proved from a smallest counterexample; with them `PartialSum` and `SumDefined` show that
the recursion has a value for every finite set, and `SumRemove` that it does not depend on the choice.

`AnswerServiceProofs` leaves retrieval, resolution and the generator as constants of which only
`SelectionAssumption` and `DraftsAssumption` are known, and proves for any finite set of threads and any
versions, configurations and slots: `OneVersionPerAnswer`, `NoReplacedCorpus`, `OwnAnswer`, `CacheSound`,
`FreeAbstentions`, `SlotsBalance` and type correctness. Each property needs the others: what
is cached is right because what is about to be stored is, and a cached answer is one to this request because
the key it was stored under holds everything the answer depends on. `RequestOK` says what is known of a
request at each step: its version is one it has seen, its evidence is what the strategy gives, it
has no response and no cost before their time. A step of a thread turns one request into
another that is `RequestOK` (`Advances`, `AdvanceSound`); only `Begin`, `Release` and `Restart` change
who holds a slot, and there the cardinality of `Holders` is counted.

`ProviderCallsProofs` proves `BillsAreCovered` and `UsageIsExact` for any calls, months and prices
that are positive. `CallOK` relates a call, its booking, its bill, and what the provider still has in hand:
the reservation is open until `finally` settles it; a call the provider may yet bill has an unknown
actual cost, so it is charged at the maximum, and a late bill fits. `OwnReservation` keeps the steps of
one call away from the bookings of the others. The other theorems:

- `BillsHoldTheLimit` (`BillsWithinLimit`): `LedgerOK` says that a month's totals are the sums of its
  bookings and within the limit. Each call's bill is within its own booking, and calls inject into
  reservations, so the bills of a month sum to no more than the month's total (`SumInjection`).
- `HoldsAreAccountedFor` (`HeldOnlyAfterFailure`): `HeldOK` says that an injection takes every held
  reservation to a failed call (`Matched`); each step that leaves a reservation open for good
  fails a call that matches none yet.
- `AnswerWithinMaximum` and `JudgeWithinMaximum`: the arithmetic of `Pricing`, from the guard on the size
  of the payload and `max_tokens`.

`PolicyResolutionProofs` proves all six invariants of policy resolution for every corpus, in every order of
its clauses and links: `VerdictIsExact`, `SelectionIsExact`, `WinnersPrecede`, `ExplanationIsComplete`,
`ConflictsAreExact` and `VersionsDoTakeTurns`. `Precedes` is defined by closed sets, which makes an
induction over paths unnecessary: any set the algorithm has closed shows what does *not* take precedence
(`PrecedesWithin`), and each link it follows extends what does (`PrecedesExtends`). The invariant goes by
phase. `Walked` is about the depth-first walk: the stack is a path of links from the root, what is on it
is `visiting`, what is `visited` is closed under links and has no cycle, and the targets of the top
already looked at are `visited`; so a target found in `visiting` closes a cycle, and when the
walk ends without one there is none. The filter's part says what the decisions so far are. For the work
list (`Reached`), all that was seen or waits is what the current clause takes precedence over, and no target
of what was seen is forgotten; so when nothing waits, what was seen is exactly that. `Selecting` says what
the explanation and the selection hold after some clauses, and what the groups of conflicts are at the end.
`Dated` says that a decision is "outside_date" exactly of the clauses that are, which is what makes one of two
consecutive versions pass. `LinksOnce` proves `LinksFollowedOnce`, the half of `Terminates` that needs no fairness:
each step of the work list leaves fewer links to follow (`PopShrinks`, with the sums of `Sums`), so that a round
costs at most one step per link, in diamonds too.

`CorpusStoreProofs` proves `WholeOrAbsent` and `CausesHold` for any number of overlapping ingests.
`OneTransaction` is the advisory lock; because of it what a transaction found stays true until its commit
(`Progress`), so the three groups of inserts are all there or none is, and the insert of a corpus never
meets its own key.

`SearchesFollowPolicy` (`SearchFollowsPolicy`) adds what a search holds at each of its steps (`SearchOK`): from the
check of its encoder on, its version is stored with that encoder, and what is stored never changes
(`StoredStays`), so both rankings are of the same clauses although the two queries read at different
times. The rest is about fusion. A finite set with a transitive total order can be put in order
(`Sortable`), the order by score and id is one (`BeforeOrders`, by multiplying out fractions), so `Fused`
is a sequence of all that was found, each clause once. `AgreementFirst` shows that a clause both rankings
found is ahead of one that only one of them found, whatever their ranks, as long as the rankings are no
longer than the constant (12 and 60 in the code; `RankingAssumption`); so none is cut off for the other.

`OperatorProofs` is about the commands an operator runs by hand, the evaluation and the release. It extends
both modules, which share no state (that is why the specification of `Release` is named `ReleaseSpec`). A theorem
about one of them cites no assumption of the other, and only `PassingIsRight` cites what is said of labels and responses.

For any files of cases, strategies, answers, ratings, refusals and stops:

- `SummariesCountAll` (`SummaryCountsAll`). `InTurn` says that the i-th row is about the case and the
  strategy whose turn it was, by remainder and quotient. In a complete file that makes places and pairs
  of a strategy and a case one and the same (`PlaceWithin`, `PlaceOf`), so a group has a bijection onto the cases
  of its split (`GroupCounts`), failed rows included.
- `AgreementsAreSound` (`AgreementSound`). `Judging` says that the judge's rows are the held-out answers as far
  as it got, each with the rating of a file that nobody edits meanwhile. That `RowsAt` lists each place once
  is an induction over the numbers (`Listable`, with `NaturalInduction` of `Sums`). An example and a held-out answer
  are rows of different splits, hence of cases of different families (`FamiliesApart`), because a loadable file
  keeps a family in one split.
- `EvidenceStays` (the action property `EvidenceKept`): a file grows at its end or stays. It needs
  `Benchmarking`, that no summary and no judged file exist while rows are written.
- `PassingIsRight` (`PassMeansRight`): the checks pass a response exactly if the policies justify it, for
  responses with any citations. `ChecksAreRight` shows it for one case from `LabelsAgree`; the invariant adds that
  a response in hand is one to the case whose row is written next. Of the responses only this is
  assumed, that abstentions cite nothing (`ResponsesAssumption`; the types of `domain/models.py` have no
  citations there). That the labels agree is a fact about 60 cases, evaluated and not proved.

For any number of attempts, images and corpora: `ImageOnItsCorpus`, `SuccessRepairs`, `PriorPairHolds` and
`ReleaseTypes`. `CleanAttempt` says, step by step, what runs, what is active and what the attempt
remembers while `clean` holds; `AttemptKnown` and `CandidateUp` say the same of the
state file and of the candidate.

`WebRequestsProofs` proves for any connections, clients and limits:

- `ServesWhole`: `InHand` says that only what passed every check reaches the service, and `Whole` that a body
  is handed on only when it is read to its end;
- `WindowHolds` (`WindowHeld`) and `RefusesAtLimit` (the action property `RefusedAtLimit`).
  The history a client has in the table and the real times of its admissions are two sequences
  that lose their front at different moments, so `LimiterOK` pairs them from the end (`Aligned`): the k-th last
  time of the one was read at most `MaxStall` before the k-th last of the other. What a history has lost is
  older than the window less the stall; what `admissions` has lost has expired for every thread, however
  early it read the clock. Hence an admission finds fewer than `PerWindow` admissions younger than
  the window less the stall, and a refusal finds a full window or other clients that fill the table.
  That a time read early may stand behind a later one in a history, which `allow` trims by its first
  entries only, is why a refusal is only justified up to the stall.

Only model-checked: all liveness (`TransactionsEnd`, `RequestsEnd`, `IngestsEnd`, the end that `Terminates`
promises), which needs fairness and ENABLED. Every invariant and every other action property of a passing run is a theorem.

## Plan

Next to be modelled: the two caches behind one abstract cache (expiry, order of use), and the judge's
payments composed with its files.

## Not modelled

- Embeddings, distances, text search and the local models (`retrieval.py`, `model_files.py`): numeric;
  what they find relevant is a parameter. The offline retriever's word overlap likewise.
- The text of the corpus files: how Markdown is split and parsed. Which files are accepted is modelled.
- How long a cached answer lives: `AnswerService` lets any entry vanish at any lookup or put.
- Pages and endpoints that only read, templates, styles, the browser script, headers, logs and request
  counters: presentation and observation.
- Latencies, recall and the numeric part of the agreement report: statistics over the modelled rows.
- The text of the files of an evaluation: a line cut off by a stop, a rating out of range.
- Settings, command line and composition: only the choice of a configuration, which is
  `AnswerService`'s `build`.
- Migrations and the shell scripts of `deploy/`: run once by an operator; the constraints the schema
  declares appear as guards of the transactions.
- Security properties.
