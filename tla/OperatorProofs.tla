--------------------------- MODULE OperatorProofs ---------------------------
(***************************************************************************)
(* Proofs about the commands an operator runs by hand: the evaluation        *)
(* (Evaluation), for any files of cases, answers, ratings and stops, and the *)
(* release script (Release), for any number of images, corpora and attempts. *)
(* The two share no state.                                                   *)
(***************************************************************************)
EXTENDS Evaluation, Release, Sums, TLAPS

-----------------------------------------------------------------------------
(* The inductive invariant.                                                 *)

Line(c) == c = [name |-> c.name, response |-> c.response, author |-> c.author, examples |-> c.examples]

\* Every file holds rows of its own kind, or does not exist.
Typed ==
    /\ cases \in CaseFiles
    /\ results \in Seq(ResultRow) \cup {None}
    /\ ratings \in Seq(Rating) \cup {None}
    /\ judged \in Seq(JudgeRow) \cup {None}
    /\ Line(cmd) /\ cmd.name \in {"none", "benchmark", "judge"}

\* A row is about the case and the strategy whose turn it was, and its scores agree.
RowAt(i, row) ==
    /\ row.case = cases[((i - 1) % Len(cases)) + 1].id
    /\ row.split = cases[((i - 1) % Len(cases)) + 1].split
    /\ row.strategy = Strategies[((i - 1) \div Len(cases)) + 1]
Consistent(row) == (row.passed => row.correct) /\ (row.correct => row.answered)
InTurn ==
    results # None =>
        /\ Len(results) =< Total /\ Loadable(cases)
        /\ \A i \in DOMAIN results : RowAt(i, results[i]) /\ Consistent(results[i])

\* The benchmark runs over no later evidence, and asks only while cases are left.
Benchmarking ==
    cmd.name = "benchmark" =>
        /\ results # None /\ summary = None /\ judged = None
        /\ cmd.response # None =>
               Len(results) < Total /\ cmd.response \in Responses(Case) \cup {Failed}

\* A summary is that of a complete file.
Summarized ==
    summary # None => results # None /\ Len(results) = Total /\ summary = summarize(results)

\* The judge's rows are the held-out answers, in their order, as far as it got.
Judging ==
    /\ judged # None =>
        /\ results # None /\ Len(judged) =< Len(held_out)
        /\ \A i \in DOMAIN judged : Key(judged[i]) = Key(held_out[i])
    /\ cmd.name = "judge" =>
        /\ judged # None /\ agreement = None /\ ratings # None /\ cmd.author = ratings
        /\ \A i \in DOMAIN held_out : \E r \in ToSet(ratings) : Key(r) = Key(held_out[i])
        /\ \A i \in DOMAIN judged : \E r \in ToSet(ratings) :
               Key(r) = Key(judged[i]) /\ r.score = judged[i].author
        /\ ToSet(cmd.examples) \subseteq ToSet(development)

\* An agreement is that of a judge that came to its end.
Agreed ==
    agreement # None =>
        /\ judged # None /\ Len(judged) = Len(held_out)
        /\ agreement.held_out_answers = Len(judged) /\ agreement.exact_agreement =< Len(judged)

IInv == Typed /\ InTurn /\ Benchmarking /\ Summarized /\ Judging /\ Agreed

-----------------------------------------------------------------------------
(* The rows at some places of a file.                                       *)

Increasing(s) == \A i, j \in DOMAIN s : i < j => s[i] < s[j]
\* The sequences that list a set of numbers in ascending order.
Listings(S) == {s \in [1..Cardinality(S) -> S] : ToSet(s) = S /\ Increasing(s)}

\* A listing grows by a number above all of its own.
LEMMA ListMore ==
    ASSUME NEW n \in Nat, NEW S \in SUBSET (1..n), IsFiniteSet(S), NEW s \in Listings(S)
    PROVE  Listings(S \cup {n + 1}) # {}
<1> DEFINE m == Cardinality(S)
           t == [i \in 1..(m + 1) |-> IF i = m + 1 THEN n + 1 ELSE s[i]]
           T == S \cup {n + 1}
<1>1. m \in Nat
  BY FS_CardinalityType
<1>2. Cardinality(T) = m + 1
  BY FS_AddElement
<1>3. s \in [1..m -> S] /\ ToSet(s) = S /\ Increasing(s) /\ DOMAIN s = 1..m
  BY DEF Listings
<1> HIDE DEF m
<1>4. t \in [1..(m + 1) -> T]
  BY <1>1, <1>3
<1>5. ToSet(t) = T
  <2>1. \A x \in S : \E i \in 1..m : s[i] = x
    BY <1>3 DEF ToSet
  <2>2. \A x \in S : \E i \in 1..(m + 1) : t[i] = x
    BY <1>1, <2>1
  <2>3. t[m + 1] = n + 1 /\ m + 1 \in 1..(m + 1)
    BY <1>1
  <2> QED
    BY <1>4, <2>2, <2>3 DEF ToSet
<1>6. Increasing(t)
  <2>1. \A i, j \in 1..m : i < j => s[i] < s[j]
    BY <1>3 DEF Increasing
  <2>2. \A i \in 1..m : s[i] \in 1..n
    BY <1>3
  <2>3. ASSUME NEW i \in 1..(m + 1), NEW j \in 1..(m + 1), i < j PROVE t[i] < t[j]
    <3>1. i \in 1..m
      BY <1>1, <2>3
    <3>2. CASE j = m + 1
      BY <1>1, <2>2, <3>1, <3>2
    <3>3. CASE j # m + 1
      BY <1>1, <2>1, <2>3, <3>1, <3>3
    <3> QED
      BY <3>2, <3>3
  <2> QED
    BY <2>3 DEF Increasing
<1>7. t \in Listings(T)
  BY <1>2, <1>4, <1>5, <1>6 DEF Listings
<1> QED
  BY <1>7

\* Every set of places can be listed.
LEMMA Listable == \A n \in Nat : \A S \in SUBSET (1..n) : IsFiniteSet(S) /\ Listings(S) # {}
<1> DEFINE U == {n \in Nat : \A S \in SUBSET (1..n) : IsFiniteSet(S) /\ Listings(S) # {}}
<1>1. 0 \in U
  <2> DEFINE s == [i \in 1..0 |-> i]
  <2>1. Cardinality({}) = 0 /\ IsFiniteSet({})
    BY FS_EmptySet
  <2>2. s \in Listings({})
    BY <2>1 DEF Listings, Increasing, ToSet
  <2>3. \A S \in SUBSET (1..0) : S = {}
    OBVIOUS
  <2> QED
    BY <2>1, <2>2, <2>3
<1>2. ASSUME NEW n \in Nat, n \in U PROVE n + 1 \in U
  <2> SUFFICES ASSUME NEW S \in SUBSET (1..(n + 1)) PROVE IsFiniteSet(S) /\ Listings(S) # {}
    OBVIOUS
  <2> DEFINE rest == S \ {n + 1}
  <2>1. rest \in SUBSET (1..n)
    OBVIOUS
  <2>2. IsFiniteSet(rest) /\ Listings(rest) # {}
    BY <1>2, <2>1
  <2>3. CASE n + 1 \notin S
    <3>1. S = rest
      BY <2>3
    <3> QED
      BY <2>2, <3>1
  <2>4. CASE n + 1 \in S
    <3>1. S = rest \cup {n + 1}
      BY <2>4
    <3>2. IsFiniteSet(rest \cup {n + 1})
      BY <2>2, FS_AddElement
    <3>3. PICK s \in Listings(rest) : TRUE
      BY <2>2
    <3> HIDE DEF rest
    <3>4. Listings(rest \cup {n + 1}) # {}
      BY <2>1, <2>2, ListMore
    <3> QED
      BY <3>1, <3>2, <3>4
  <2> QED
    BY <2>3, <2>4
<1> HIDE DEF U
<1>3. Nat \subseteq U
  BY <1>1, <1>2, NaturalInduction
<1> QED
  BY <1>3 DEF U

\* Ascending lists the places it is given.
LEMMA AscendingIs ==
    ASSUME NEW n \in Nat, NEW S \in SUBSET (1..n)
    PROVE  Ascending(S) \in Listings(S)
<1>1. PICK s \in Listings(S) : TRUE
  BY Listable
<1>2. \E t \in [1..Cardinality(S) -> S] : ToSet(t) = S /\ \A i, j \in DOMAIN t : i < j => t[i] < t[j]
  BY <1>1 DEF Listings, Increasing
<1>3. Ascending(S) = CHOOSE t \in [1..Cardinality(S) -> S] :
                         ToSet(t) = S /\ \A i, j \in DOMAIN t : i < j => t[i] < t[j]
  BY DEF Ascending
<1>4. /\ Ascending(S) \in [1..Cardinality(S) -> S] /\ ToSet(Ascending(S)) = S
      /\ \A i, j \in DOMAIN Ascending(S) : i < j => Ascending(S)[i] < Ascending(S)[j]
  BY <1>2, <1>3, Zenon
<1> QED
  BY <1>4 DEF Listings, Increasing

\* The rows at some places are those rows, each place once.
LEMMA RowsAtAre ==
    ASSUME NEW S, results \in Seq(S), NEW places \in SUBSET DOMAIN results
    PROVE  /\ RowsAt(places) \in Seq(S) /\ Len(RowsAt(places)) \in Nat
           /\ DOMAIN RowsAt(places) = 1..Len(RowsAt(places))
           /\ \A k \in DOMAIN RowsAt(places) : \E i \in places : RowsAt(places)[k] = results[i]
<1> DEFINE at == Ascending(places)
           n == Len(results)
           m == Cardinality(places)
<1>1. n \in Nat /\ places \in SUBSET (1..n) /\ \A i \in 1..n : results[i] \in S
  OBVIOUS
<1> HIDE DEF n
<1>2. at \in Listings(places)
  BY <1>1, AscendingIs
<1>3. IsFiniteSet(places)
  BY <1>1, Listable
<1>4. m \in Nat
  BY <1>3, FS_CardinalityType
<1>5. at \in [1..m -> places]
  BY <1>2 DEF Listings
<1>6. RowsAt(places) = [i \in DOMAIN at |-> results[at[i]]]
  BY DEF RowsAt
<1> HIDE DEF at, m
<1>7. RowsAt(places) = [i \in 1..m |-> results[at[i]]]
  BY <1>5, <1>6
<1>8. \A i \in 1..m : at[i] \in places /\ results[at[i]] \in S
  BY <1>1, <1>5
<1>9. RowsAt(places) \in Seq(S) /\ Len(RowsAt(places)) = m
  BY <1>4, <1>7, <1>8
<1> QED
  BY <1>4, <1>7, <1>8, <1>9

\* No place is left out.
LEMMA RowsAtAll ==
    ASSUME NEW S, results \in Seq(S), NEW places \in SUBSET DOMAIN results
    PROVE  \A i \in places : results[i] \in ToSet(RowsAt(places))
<1> DEFINE at == Ascending(places)
           n == Len(results)
<1>1. n \in Nat /\ places \in SUBSET (1..n)
  OBVIOUS
<1> HIDE DEF n
<1>2. at \in Listings(places)
  BY <1>1, AscendingIs
<1>3. ToSet(at) = places
  BY <1>2 DEF Listings
<1>4. RowsAt(places) = [k \in DOMAIN at |-> results[at[k]]]
  BY DEF RowsAt
<1> HIDE DEF at
<1>5. \A i \in places : \E k \in DOMAIN at : at[k] = i
  BY <1>3 DEF ToSet
<1> QED
  BY <1>4, <1>5 DEF ToSet

\* The answers are rows of the file.
LEMMA AnswersAre ==
    ASSUME results \in Seq(ResultRow)
    PROVE  answers \in Seq(ResultRow) /\ Len(answers) \in Nat
<1>1. answered_at \in SUBSET DOMAIN results
  BY DEF answered_at
<1> HIDE DEF answered_at
<1>2. RowsAt(answered_at) \in Seq(ResultRow) /\ Len(RowsAt(answered_at)) \in Nat
  BY <1>1, RowsAtAre
<1> QED
  BY <1>2 DEF answers

\* The held-out answers are rows of the file, of the test split.
LEMMA HeldOutIs ==
    ASSUME results \in Seq(ResultRow)
    PROVE  /\ held_out \in Seq(ResultRow) /\ Len(held_out) \in Nat
           /\ DOMAIN held_out = 1..Len(held_out)
           /\ \A k \in DOMAIN held_out :
                  \E i \in DOMAIN results : held_out[k] = results[i] /\ results[i].split = "test"
<1> DEFINE places == {i \in answered_at : results[i].split = "test"}
<1>1. places \in SUBSET DOMAIN results
  BY DEF answered_at
<1>2. \A i \in places : results[i].split = "test"
  OBVIOUS
<1>3. held_out = RowsAt(places)
  BY DEF held_out
<1> HIDE DEF places
<1> QED
  BY <1>1, <1>2, <1>3, RowsAtAre

\* The judge's examples come from rows of the file, of the development split.
LEMMA DevelopmentIs ==
    ASSUME results \in Seq(ResultRow)
    PROVE  /\ development \in Seq(ResultRow) /\ Len(development) \in Nat
           /\ DOMAIN development = 1..Len(development)
           /\ \A k \in DOMAIN development :
                  \E i \in DOMAIN results :
                      development[k] = results[i] /\ results[i].split = "development"
<1> DEFINE places == {i \in answered_at : results[i].split = "development"}
<1>1. places \in SUBSET DOMAIN results
  BY DEF answered_at
<1>2. \A i \in places : results[i].split = "development"
  OBVIOUS
<1>3. development = RowsAt(places)
  BY DEF development
<1> HIDE DEF places
<1> QED
  BY <1>1, <1>2, <1>3, RowsAtAre

\* What is held out is among the answers.
LEMMA HeldOutAnswered ==
    ASSUME results \in Seq(ResultRow)
    PROVE  \A k \in DOMAIN held_out : held_out[k] \in ToSet(answers)
<1> DEFINE places == {i \in answered_at : results[i].split = "test"}
<1>1. places \in SUBSET answered_at /\ answered_at \in SUBSET DOMAIN results
  BY DEF answered_at
<1>2. held_out = RowsAt(places) /\ answers = RowsAt(answered_at)
  BY DEF held_out, answers
<1> HIDE DEF places, answered_at
<1>3. \A i \in answered_at : results[i] \in ToSet(RowsAt(answered_at))
  BY <1>1, RowsAtAll
<1>4. \A k \in DOMAIN RowsAt(places) : \E i \in places : RowsAt(places)[k] = results[i]
  BY <1>1, RowsAtAre
<1> QED
  BY <1>1, <1>2, <1>3, <1>4

-----------------------------------------------------------------------------
(* The nested loops of the benchmark.                                       *)

\* A place before the end belongs to one strategy and one case.
LEMMA PlaceWithin ==
    ASSUME NEW n \in Nat, NEW m \in Nat, NEW l \in Nat, l < n * m
    PROVE  n # 0 /\ l \div n \in 0..(m - 1) /\ l % n \in 0..(n - 1) /\ l = n * (l \div n) + (l % n)
<1>1. n # 0
  <2>1. n = 0 => n * m = 0
    OBVIOUS
  <2> QED
    BY <2>1
<1> DEFINE q == l \div n
           r == l % n
<1>2. q \in Nat /\ r \in 0..(n - 1) /\ l = n * q + r
  BY <1>1
<1> HIDE DEF q, r
<1>3. q < m
  <2> SUFFICES ASSUME m =< q PROVE FALSE
    BY <1>2
  <2>1. PICK d \in Nat : q = m + d
    <3>1. q - m \in Nat /\ q = m + (q - m)
      BY <1>2
    <3> QED
      BY <3>1
  <2>2. n * q = n * m + n * d
    BY <2>1
  <2>3. n * d \in Nat
    BY <2>1
  <2> QED
    BY <1>2, <2>2, <2>3
<1>4. q \in 0..(m - 1)
  BY <1>2, <1>3
<1> QED
  BY <1>1, <1>2, <1>4 DEF q, r

\* Every strategy and case has its place.
LEMMA PlaceOf ==
    ASSUME NEW n \in Nat, NEW m \in Nat, NEW q \in 0..(m - 1), NEW r \in 0..(n - 1)
    PROVE  LET l == n * q + r IN
           l \in Nat /\ l < n * m /\ l \div n = q /\ l % n = r
<1> DEFINE l == n * q + r
<1>1. l \in Nat
  OBVIOUS
<1>2. l < n * m
  <2>1. PICK d \in Nat : m = q + 1 + d
    <3>1. m - (q + 1) \in Nat /\ m = q + 1 + (m - (q + 1))
      OBVIOUS
    <3> QED
      BY <3>1
  <2>2. n * m = n * q + n + n * d
    BY <2>1
  <2>3. n * d \in Nat /\ n * q \in Nat
    BY <2>1
  <2> QED
    BY <2>2, <2>3
<1> HIDE DEF l
<1>3. n # 0 /\ l \div n \in 0..(m - 1) /\ l % n \in 0..(n - 1) /\ l = n * (l \div n) + (l % n)
  BY <1>1, <1>2, PlaceWithin
<1>4. l \div n = q
  <2> DEFINE p == l \div n
             t == l % n
  <2>1. p \in Nat /\ t \in 0..(n - 1) /\ n * p + t = n * q + r
    BY <1>3 DEF l
  <2> HIDE DEF p, t
  <2>2. ~(p < q)
    <3> SUFFICES ASSUME p < q PROVE FALSE
      OBVIOUS
    <3>1. PICK d \in Nat : q = p + 1 + d
      <4>1. q - (p + 1) \in Nat /\ q = p + 1 + (q - (p + 1))
        BY <2>1
      <4> QED
        BY <4>1
    <3>2. n * q = n * p + n + n * d
      BY <2>1, <3>1
    <3>3. n * d \in Nat /\ n * p \in Nat
      BY <2>1, <3>1
    <3> QED
      BY <2>1, <3>2, <3>3
  <2>3. ~(q < p)
    <3> SUFFICES ASSUME q < p PROVE FALSE
      OBVIOUS
    <3>1. PICK d \in Nat : p = q + 1 + d
      <4>1. p - (q + 1) \in Nat /\ p = q + 1 + (p - (q + 1))
        BY <2>1
      <4> QED
        BY <4>1
    <3>2. n * p = n * q + n + n * d
      BY <2>1, <3>1
    <3>3. n * d \in Nat /\ n * q \in Nat
      BY <2>1, <3>1
    <3> QED
      BY <2>1, <3>2, <3>3
  <2>4. p = q
    BY <2>1, <2>2, <2>3
  <2> QED
    BY <2>4 DEF p
<1>5. l % n = r
  <2> DEFINE t == l % n
  <2>1. t \in Nat /\ n * q + t = n * q + r /\ n * q \in Nat
    BY <1>3, <1>4 DEF l
  <2> HIDE DEF t
  <2>2. t = r
    BY <2>1
  <2> QED
    BY <2>2 DEF t
<1> QED
  BY <1>1, <1>2, <1>4, <1>5 DEF l

-----------------------------------------------------------------------------
(* The invariant holds.                                                     *)

\* It holds initially.
LEMMA InitIInv == Init => IInv
  BY DEF Init, NoCommand, IInv, Typed, Line, InTurn, Benchmarking, Summarized, Judging, Agreed

\* The operations that may change a file; none changes the cases.
LEMMA StepKeeps ==
    ASSUME [Next]_vars
    PROVE  /\ cases' = cases
           /\ results' = results \/ StartBenchmark \/ WriteRow
           /\ summary' = summary \/ WriteSummary
           /\ ratings' = ratings \/ Prepare \/ Annotate
           /\ judged' = judged \/ StartJudge \/ Judge
           /\ agreement' = agreement \/ Report
  BY DEF Next, vars, files, StartBenchmark, Ask, WriteRow, WriteSummary, Prepare, Annotate,
         StartJudge, Judge, Report, Stop

\* The command that runs after a step.
LEMMA StepCommand ==
    ASSUME Line(cmd), [Next]_vars
    PROVE  /\ Line(cmd')
           /\ \/ cmd' = cmd
              \/ cmd'.name = "none"
              \/ StartBenchmark /\ cmd'.name = "benchmark" /\ cmd'.response = None
              \/ Ask /\ cmd'.name = "benchmark"
              \/ WriteRow /\ cmd'.name = "benchmark" /\ cmd'.response = None
              \/ /\ StartJudge /\ cmd'.name = "judge" /\ cmd'.author = ratings
                 /\ cmd'.examples = SubSeq(development, 1, IF Len(development) < Examples
                                                           THEN Len(development) ELSE Examples)
<1> USE DEF Line, NoCommand
<1>1. CASE StartBenchmark
  BY <1>1 DEF StartBenchmark
<1>2. CASE Ask
  BY <1>2 DEF Ask
<1>3. CASE WriteRow
  BY <1>3 DEF WriteRow
<1>4. CASE WriteSummary \/ Report \/ Stop
  BY <1>4 DEF WriteSummary, Report, Stop
<1>5. CASE Prepare \/ Annotate \/ Judge
  BY <1>5 DEF Prepare, Annotate, Judge
<1>6. CASE StartJudge
  BY <1>6 DEF StartJudge
<1>7. CASE UNCHANGED vars
  BY <1>7 DEF vars
<1> QED
  BY <1>1, <1>2, <1>3, <1>4, <1>5, <1>6, <1>7 DEF Next

\* The file of cases and the strategies it is asked with.
LEMMA CasesAre ==
    ASSUME Typed
    PROVE  /\ Len(cases) \in Nat /\ DOMAIN cases = 1..Len(cases)
           /\ Strategies \in Seq(STRATEGIES) /\ Len(Strategies) \in Nat
           /\ DOMAIN Strategies = 1..Len(Strategies)
           /\ \A i, j \in DOMAIN Strategies : Strategies[i] = Strategies[j] => i = j
           /\ \A k \in DOMAIN cases : cases[k].id \in CaseIds /\ cases[k].split \in Splits
<1>1. cases \in Seq(ToSet(cases)) /\ cases \in CaseFiles
  BY FilesAssumption DEF Typed
<1>2. Strategies \in Seq(STRATEGIES) /\ IsInjective(Strategies)
  BY FilesAssumption DEF Typed, Strategies
<1>3. \A i, j \in DOMAIN Strategies : Strategies[i] = Strategies[j] => i = j
  BY <1>2 DEF IsInjective
<1>4. \A k \in DOMAIN cases : cases[k].id \in CaseIds /\ cases[k].split \in Splits
  BY <1>1 DEF CaseIds, Splits
<1>5. Len(cases) \in Nat /\ DOMAIN cases = 1..Len(cases)
  BY <1>1
<1>6. Len(Strategies) \in Nat /\ DOMAIN Strategies = 1..Len(Strategies)
  BY <1>2
<1> QED
  BY <1>2, <1>3, <1>4, <1>5, <1>6

\* The row of an answer: it scores only as far as its checks go.
LEMMA RowIs ==
    ASSUME NEW case, NEW strategy, NEW response, case.id \in CaseIds, case.split \in Splits,
           strategy \in STRATEGIES
    PROVE  LET row == Row(case, strategy, response) IN
           /\ row \in ResultRow /\ Consistent(row)
           /\ row.case = case.id /\ row.split = case.split /\ row.strategy = strategy
<1> DEFINE a == response # Failed
           c == response # Failed /\ outcome_correct(case, response)
           p == response # Failed /\ reference_checks_pass(case, response)
           row == [case |-> case.id, split |-> case.split, strategy |-> strategy,
                   answered |-> a, correct |-> c, passed |-> p]
<1>1. a \in BOOLEAN /\ c \in BOOLEAN /\ p \in BOOLEAN
  BY Zenon
<1>2. (c => a) /\ (p => c)
  BY Zenon DEF reference_checks_pass
<1>3. Row(case, strategy, response) = row
  BY Zenon DEF Row
<1> HIDE DEF a, c, p
<1>4. row \in ResultRow
  BY <1>1 DEF ResultRow
<1>5. row.case = case.id /\ row.split = case.split /\ row.strategy = strategy
  OBVIOUS
<1>6. row.answered = a /\ row.correct = c /\ row.passed = p
  BY Zenon
<1>7. Consistent(row)
  BY <1>2, <1>6, Zenon DEF Consistent
<1> QED
  BY <1>3, <1>4, <1>5, <1>7, Zenon

\* The row that the benchmark writes is the one whose turn it is.
LEMMA WrittenRow ==
    ASSUME IInv, cmd.name = "benchmark", cmd.response # None
    PROVE  LET row == Row(Case, Strategy, cmd.response) IN
           /\ results \in Seq(ResultRow) /\ Len(results) \in Nat /\ Len(results) < Total
           /\ row \in ResultRow /\ Consistent(row) /\ RowAt(Len(results) + 1, row)
<1> DEFINE l == Len(results)
           n == Len(cases)
           m == Len(Strategies)
<1>1. results \in Seq(ResultRow) /\ l < Total
  BY DEF IInv, Typed, Benchmarking
<1>2. l \in Nat
  BY <1>1
<1>3. /\ n \in Nat /\ DOMAIN cases = 1..n /\ m \in Nat /\ DOMAIN Strategies = 1..m
      /\ Strategies \in Seq(STRATEGIES)
      /\ \A k \in DOMAIN cases : cases[k].id \in CaseIds /\ cases[k].split \in Splits
  BY CasesAre DEF IInv
<1>4. l < n * m
  BY <1>1 DEF Total
<1>5. Case = cases[(l % n) + 1] /\ Strategy = Strategies[(l \div n) + 1]
  BY DEF Case, Strategy
<1>6. RowAt(l + 1, Row(Case, Strategy, cmd.response)) <=>
        LET row == Row(Case, Strategy, cmd.response) IN
        /\ row.case = cases[(((l + 1) - 1) % n) + 1].id
        /\ row.split = cases[(((l + 1) - 1) % n) + 1].split
        /\ row.strategy = Strategies[(((l + 1) - 1) \div n) + 1]
  BY DEF RowAt
<1>7. \A i \in DOMAIN Strategies : Strategies[i] \in STRATEGIES
  BY <1>3
<1> HIDE DEF l, n, m
<1>8. l \div n \in 0..(m - 1) /\ l % n \in 0..(n - 1)
  BY <1>2, <1>3, <1>4, PlaceWithin
<1>9. (l % n) + 1 \in DOMAIN cases /\ (l \div n) + 1 \in DOMAIN Strategies
  BY <1>3, <1>8
<1>10. Case.id \in CaseIds /\ Case.split \in Splits /\ Strategy \in STRATEGIES
  BY <1>3, <1>5, <1>7, <1>9
<1>11. (l + 1) - 1 = l
  BY <1>2
<1> DEFINE row == Row(Case, Strategy, cmd.response)
<1>12. row \in ResultRow /\ Consistent(row)
       /\ row.case = Case.id /\ row.split = Case.split /\ row.strategy = Strategy
  BY <1>10, RowIs
<1> HIDE DEF row
<1>13. RowAt(l + 1, row)
  BY <1>5, <1>6, <1>11, <1>12 DEF row
<1> QED
  BY <1>1, <1>2, <1>12, <1>13 DEF l, row

\* The author's score of an answer that has one.
LEMMA ScoreOfIs ==
    ASSUME NEW rows, NEW row, \E r \in ToSet(rows) : Key(r) = Key(row)
    PROVE  \E r \in ToSet(rows) : Key(r) = Key(row) /\ r.score = ScoreOf(rows, row)
<1> DEFINE found == CHOOSE r \in ToSet(rows) : Key(r) = Key(row)
<1>1. found \in ToSet(rows) /\ Key(found) = Key(row)
  BY Zenon
<1>2. ScoreOf(rows, row) = found.score
  BY DEF ScoreOf
<1> HIDE DEF found
<1> QED
  BY <1>1, <1>2

\* What the judge writes next.
LEMMA JudgedRow ==
    ASSUME IInv, Judge
    PROVE  /\ judged \in Seq(JudgeRow) /\ Len(judged) \in Nat /\ Len(judged) < Len(held_out)
           /\ \E row \in JudgeRow :
                /\ judged' = Append(judged, row) /\ Key(row) = Key(held_out[Len(judged) + 1])
                /\ \E r \in ToSet(ratings) : Key(r) = Key(row) /\ r.score = row.author
<1> DEFINE l == Len(judged)
           h == Len(held_out)
           row == held_out[l + 1]
<1>1. judged \in Seq(JudgeRow) /\ results \in Seq(ResultRow) /\ ratings \in Seq(Rating)
  BY DEF IInv, Typed, Judging, Judge
<1>2. l \in Nat
  BY <1>1
<1>3. /\ held_out \in Seq(ResultRow) /\ h \in Nat /\ DOMAIN held_out = 1..h
      /\ \A k \in DOMAIN held_out : held_out[k] \in ResultRow
  BY <1>1, HeldOutIs
<1>4. l < h
  BY DEF Judge
<1>5. PICK score \in Scores :
        judged' = Append(judged, [case |-> row.case, strategy |-> row.strategy,
                                  judge |-> score, author |-> ScoreOf(cmd.author, row)])
  BY DEF Judge
<1> HIDE DEF l, h
<1>6. l + 1 \in DOMAIN held_out
  BY <1>2, <1>3, <1>4
<1>7. row \in ResultRow
  BY <1>3, <1>6
<1>8. cmd.author = ratings /\ \E r \in ToSet(ratings) : Key(r) = Key(row)
  BY <1>6 DEF IInv, Judging, Judge
<1>9. PICK r \in ToSet(ratings) : Key(r) = Key(row) /\ r.score = ScoreOf(ratings, row)
  BY <1>8, ScoreOfIs
<1>10. r \in Rating
  BY <1>1 DEF ToSet
<1> DEFINE new == [case |-> row.case, strategy |-> row.strategy,
                   judge |-> score, author |-> ScoreOf(cmd.author, row)]
<1>11. row.case \in CaseIds /\ row.strategy \in STRATEGIES
  BY <1>7 DEF ResultRow
<1>12. ScoreOf(cmd.author, row) \in Scores \cup {None}
  BY <1>8, <1>9, <1>10 DEF Rating
<1> HIDE DEF row
<1>13. new \in JudgeRow
  BY <1>11, <1>12 DEF JudgeRow
<1>14. Key(new) = Key(row) /\ new.author = r.score
  BY <1>8, <1>9 DEF Key
<1> HIDE DEF new
<1>15. judged' = Append(judged, new)
  BY <1>5 DEF new
<1> QED
  BY <1>1, <1>2, <1>4, <1>9, <1>13, <1>14, <1>15 DEF l, h, row

\* A row more, after the ones there are.
LEMMA Appended ==
    ASSUME NEW S, NEW s \in Seq(S), NEW x \in S
    PROVE  /\ Append(s, x) \in Seq(S) /\ Len(Append(s, x)) = Len(s) + 1
           /\ DOMAIN Append(s, x) = 1..(Len(s) + 1)
           /\ \A i \in 1..Len(s) : Append(s, x)[i] = s[i]
           /\ Append(s, x)[Len(s) + 1] = x
  OBVIOUS

\* The author's edits keep a file of ratings.
LEMMA AnnotateTypes == ASSUME ratings \in Seq(Rating) \cup {None}, Annotate PROVE ratings' \in Seq(Rating)
<1>1. ratings \in Seq(Rating) /\ ratings # <<>>
  BY DEF Annotate
<1>2. PICK scores \in [DOMAIN ratings -> Scores] :
        LET filled == [i \in DOMAIN ratings |-> [ratings[i] EXCEPT !.score = scores[i]]] IN
        ratings' \in {filled, [filled EXCEPT ![1].score = None], Tail(filled), Append(filled, filled[1])}
  BY DEF Annotate
<1> DEFINE filled == [i \in DOMAIN ratings |-> [ratings[i] EXCEPT !.score = scores[i]]]
<1>3. \A i \in DOMAIN ratings : [ratings[i] EXCEPT !.score = scores[i]] \in Rating
  <2> SUFFICES ASSUME NEW i \in DOMAIN ratings PROVE [ratings[i] EXCEPT !.score = scores[i]] \in Rating
    OBVIOUS
  <2>1. ratings[i] \in Rating /\ scores[i] \in Scores
    BY <1>1
  <2> QED
    BY <2>1 DEF Rating
<1>4. filled \in Seq(Rating) /\ filled # <<>>
  BY <1>1, <1>3
<1>5. filled[1] \in Rating /\ 1 \in DOMAIN filled
  BY <1>4
<1> HIDE DEF filled
<1>6. [filled[1] EXCEPT !.score = None] \in Rating
  BY <1>5 DEF Rating
<1>7. [filled EXCEPT ![1].score = None] \in Seq(Rating)
  <2>1. [filled EXCEPT ![1] = [filled[1] EXCEPT !.score = None]] \in Seq(Rating)
    BY <1>4, <1>5, <1>6
  <2> QED
    BY <2>1
<1>8. Tail(filled) \in Seq(Rating) /\ Append(filled, filled[1]) \in Seq(Rating)
  BY <1>4, <1>5
<1> QED
  BY <1>2, <1>4, <1>7, <1>8 DEF filled

\* The file that is prepared for the author.
LEMMA PrepareTypes == ASSUME Typed, Prepare PROVE ratings' \in Seq(Rating)
<1>1. results \in Seq(ResultRow)
  BY DEF Typed, Prepare
<1>2. answers \in Seq(ResultRow) /\ Len(answers) \in Nat
  BY <1>1, AnswersAre
<1>3. PICK n \in 0..Len(answers) :
        ratings' = [i \in 1..n |-> [case |-> answers[i].case, strategy |-> answers[i].strategy,
                                    score |-> None]]
  BY DEF Prepare
<1>4. \A i \in 1..n : answers[i] \in ResultRow
  BY <1>2
<1>5. \A i \in 1..n : [case |-> answers[i].case, strategy |-> answers[i].strategy, score |-> None] \in Rating
  BY <1>4 DEF ResultRow, Rating
<1>6. n \in Nat
  BY <1>2
<1> QED
  BY <1>3, <1>5, <1>6

\* Every step keeps the types.
LEMMA StepTyped == ASSUME IInv, [Next]_vars PROVE Typed'
<1>1. Typed
  BY DEF IInv
<1>2. cases' \in CaseFiles
  BY <1>1, StepKeeps DEF Typed
<1>3. results' \in Seq(ResultRow) \cup {None}
  <2>1. CASE StartBenchmark
    BY <2>1 DEF StartBenchmark
  <2>2. CASE WriteRow
    <3> DEFINE row == Row(Case, Strategy, cmd.response)
    <3>1. results' = Append(results, row)
      BY <2>2 DEF WriteRow
    <3>2. results \in Seq(ResultRow) /\ row \in ResultRow
      BY <2>2, WrittenRow DEF WriteRow
    <3> HIDE DEF row
    <3> QED
      BY <3>1, <3>2
  <2> QED
    BY <1>1, <2>1, <2>2, StepKeeps DEF Typed
<1>4. ratings' \in Seq(Rating) \cup {None}
  BY <1>1, StepKeeps, PrepareTypes, AnnotateTypes DEF Typed
<1>5. judged' \in Seq(JudgeRow) \cup {None}
  <2>1. CASE StartJudge
    BY <2>1 DEF StartJudge
  <2>2. CASE Judge
    BY <2>2, JudgedRow
  <2> QED
    BY <1>1, <2>1, <2>2, StepKeeps DEF Typed
<1>6. Line(cmd') /\ cmd'.name \in {"none", "benchmark", "judge"}
  BY <1>1, StepCommand DEF Typed
<1> QED
  BY <1>2, <1>3, <1>4, <1>5, <1>6 DEF Typed

\* Every step keeps the rows in turn.
LEMMA StepInTurn == ASSUME IInv, [Next]_vars PROVE InTurn'
<1>1. cases' = cases /\ Strategies' = Strategies /\ Total' = Total
  BY StepKeeps DEF Strategies, Total
<1>2. \A i, row : RowAt(i, row)' <=> RowAt(i, row)
  BY <1>1 DEF RowAt
<1>3. CASE results' = results
  BY <1>1, <1>2, <1>3 DEF IInv, InTurn
<1>4. CASE StartBenchmark
  <2>1. results' = <<>> /\ Loadable(cases)
    BY <1>4 DEF StartBenchmark
  <2>2. Total \in Nat
    BY CasesAre DEF IInv, Total
  <2>3. Len(results') =< Total' /\ DOMAIN results' = {}
    BY <1>1, <2>1, <2>2
  <2> QED
    BY <1>1, <2>1, <2>3 DEF InTurn
<1>5. CASE WriteRow
  <2> DEFINE row == Row(Case, Strategy, cmd.response)
             l == Len(results)
  <2>1. results' = Append(results, row)
    BY <1>5 DEF WriteRow
  <2>2. /\ results \in Seq(ResultRow) /\ l \in Nat /\ l < Total
        /\ row \in ResultRow /\ Consistent(row) /\ RowAt(l + 1, row)
    BY <1>5, WrittenRow DEF WriteRow
  <2>3. results # None
    BY <2>2, NoneAssumption
  <2>4. Loadable(cases) /\ \A i \in 1..l : RowAt(i, results[i]) /\ Consistent(results[i])
    BY <2>2, <2>3 DEF IInv, InTurn
  <2> HIDE DEF row
  <2>5. /\ Len(results') = l + 1 /\ DOMAIN results' = 1..(l + 1)
        /\ \A i \in 1..l : results'[i] = results[i]
        /\ results'[l + 1] = row
    BY <2>1, <2>2, Appended
  <2> HIDE DEF l
  <2>6. \A i \in 1..(l + 1) : RowAt(i, results'[i]) /\ Consistent(results'[i])
    BY <2>2, <2>4, <2>5
  <2>7. Total \in Nat
    BY CasesAre DEF IInv, Total
  <2>8. Len(results') =< Total
    BY <2>2, <2>5, <2>7
  <2> QED
    BY <1>1, <1>2, <2>4, <2>5, <2>6, <2>8 DEF InTurn, Consistent
<1> QED
  BY <1>3, <1>4, <1>5, StepKeeps

\* While no row is written, no answer is lost or gained.
LEMMA AnswersStay ==
    ASSUME results' = results
    PROVE  held_out' = held_out /\ development' = development
  BY DEF held_out, development, RowsAt, answered_at

\* What a step of the benchmark leaves of the files: it has written none but its own.
LEMMA BenchmarkAlone ==
    ASSUME IInv, StartBenchmark \/ WriteRow
    PROVE  summary = None /\ judged = None /\ agreement = None /\ results' \in Seq(ResultRow)
<1>1. CASE StartBenchmark
  <2>1. results = None /\ results' = <<>>
    BY <1>1 DEF StartBenchmark
  <2> QED
    BY <2>1 DEF IInv, Summarized, Judging, Agreed
<1>2. CASE WriteRow
  <2> DEFINE row == Row(Case, Strategy, cmd.response)
  <2>1. results' = Append(results, row)
    BY <1>2 DEF WriteRow
  <2>2. results \in Seq(ResultRow) /\ row \in ResultRow
    BY <1>2, WrittenRow DEF WriteRow
  <2> HIDE DEF row
  <2>3. results' \in Seq(ResultRow)
    BY <2>1, <2>2
  <2> QED
    BY <1>2, <2>3 DEF WriteRow, IInv, Benchmarking, Agreed
<1> QED
  BY <1>1, <1>2

\* Every step keeps the benchmark on its own files.
LEMMA StepBenchmarking == ASSUME IInv, [Next]_vars PROVE Benchmarking'
<1> SUFFICES ASSUME cmd'.name = "benchmark"
             PROVE  /\ results' # None /\ summary' = None /\ judged' = None
                    /\ cmd'.response # None =>
                           Len(results') < Total' /\ cmd'.response \in Responses(Case') \cup {Failed}
  BY DEF Benchmarking
<1>1. Total' = Total
  BY StepKeeps DEF Strategies, Total
<1>2. CASE StartBenchmark \/ WriteRow
  <2>1. results' # None
    BY <1>2, BenchmarkAlone, NoneAssumption
  <2>2. summary' = None /\ judged' = None
    BY <1>2, BenchmarkAlone DEF StartBenchmark, WriteRow
  <2>3. cmd'.response = None
    BY <1>2 DEF StartBenchmark, WriteRow, NoCommand, IInv, Typed, Line
  <2> QED
    BY <2>1, <2>2, <2>3
<1>3. CASE Ask
  <2>1. UNCHANGED <<cases, results, summary, judged>> /\ Len(results) < Total
    BY <1>3 DEF Ask, files
  <2>2. PICK response \in Responses(Case) \cup {Failed} : cmd' = [cmd EXCEPT !.response = response]
    BY <1>3 DEF Ask
  <2>3. Case' = Case
    BY <2>1 DEF Case
  <2>4. cmd'.response \in Responses(Case) \cup {Failed}
    BY <2>2 DEF IInv, Typed, Line
  <2> QED
    BY <1>1, <1>3, <2>1, <2>3, <2>4 DEF Ask, IInv, Benchmarking
<1>4. CASE cmd' = cmd /\ ~StartBenchmark /\ ~WriteRow
  <2>1. cmd.name = "benchmark" /\ results' = results
    BY <1>4, StepKeeps
  <2>2. summary' = summary \/ WriteSummary
    BY StepKeeps
  <2>3. ~WriteSummary
    BY <1>4, <2>1 DEF WriteSummary, NoCommand
  <2>4. judged' = judged
    BY <2>1, StepKeeps DEF StartJudge, Judge, NoCommand
  <2>5. Case' = Case
    BY <2>1, StepKeeps DEF Case
  <2> QED
    BY <1>1, <1>4, <2>1, <2>2, <2>3, <2>4, <2>5 DEF IInv, Benchmarking
<1> QED
  BY <1>2, <1>3, <1>4, StepCommand DEF IInv, Typed

\* Every step keeps the summary that of the whole file.
LEMMA StepSummarized == ASSUME IInv, [Next]_vars PROVE Summarized'
<1>1. Total' = Total
  BY StepKeeps DEF Strategies, Total
<1>2. CASE StartBenchmark \/ WriteRow
  <2>1. summary' = None
    BY <1>2, BenchmarkAlone DEF StartBenchmark, WriteRow
  <2> QED
    BY <2>1 DEF Summarized
<1>3. CASE WriteSummary
  <2>1. results # None /\ results' = results /\ Len(results) = Total /\ summary' = summarize(results)
    BY <1>3 DEF WriteSummary, IInv, Benchmarking
  <2>2. summarize(results') = summarize(results)
    BY <2>1
  <2> QED
    BY <1>1, <2>1, <2>2 DEF Summarized
<1>4. CASE results' = results /\ summary' = summary
  <2>1. summarize(results') = summarize(results)
    BY <1>4
  <2> QED
    BY <1>1, <1>4, <2>1 DEF IInv, Summarized
<1> QED
  BY <1>2, <1>3, <1>4, StepKeeps

\* The file of results outlives a step.
LEMMA ResultsStay == ASSUME IInv, [Next]_vars, results # None PROVE results' # None
  BY StepKeeps, BenchmarkAlone, NoneAssumption

\* Every step keeps the judge on the held-out answers.
LEMMA StepJudging == ASSUME IInv, [Next]_vars PROVE Judging'
<1>1. CASE StartBenchmark \/ WriteRow
  <2>1. judged' = None /\ cmd'.name = "benchmark"
    BY <1>1, BenchmarkAlone DEF StartBenchmark, WriteRow, NoCommand, IInv, Typed, Line
  <2> QED
    BY <2>1 DEF Judging
<1>2. CASE StartJudge
  <2>1. /\ results # None /\ ratings # None /\ judged = None /\ judged' = <<>>
        /\ results' = results /\ ratings' = ratings /\ agreement' = agreement
    BY <1>2 DEF StartJudge
  <2>2. held_out' = held_out /\ development' = development
    BY <2>1, AnswersStay
  <2>3. agreement' = None
    BY <2>1 DEF IInv, Agreed
  <2>4. results \in Seq(ResultRow)
    BY <2>1 DEF IInv, Typed
  <2>5. Len(held_out) \in Nat /\ Len(development) \in Nat /\ development \in Seq(ResultRow)
    BY <2>4, HeldOutIs, DevelopmentIs
  <2>6. cmd'.author = ratings /\ ToSet(cmd'.examples) \subseteq ToSet(development)
    <3> DEFINE k == IF Len(development) < Examples THEN Len(development) ELSE Examples
    <3>1. cmd'.author = ratings /\ cmd'.examples = SubSeq(development, 1, k)
      BY <1>2 DEF StartJudge, NoCommand
    <3>2. k \in 0..Len(development)
      BY <2>5, ExamplesAssumption
    <3> HIDE DEF k
    <3>3. \A i \in DOMAIN SubSeq(development, 1, k) :
            i \in DOMAIN development /\ SubSeq(development, 1, k)[i] = development[i]
      BY <2>5, <3>2
    <3> QED
      BY <3>1, <3>3 DEF ToSet
  <2>7. \A i \in DOMAIN held_out : \E r \in ToSet(ratings) : Key(r) = Key(held_out[i])
    <3>1. \A row \in ToSet(answers) : \E r \in ToSet(ratings) : Key(r) = Key(row)
      BY <1>2 DEF StartJudge
    <3>2. \A i \in DOMAIN held_out : held_out[i] \in ToSet(answers)
      BY <2>4, HeldOutAnswered
    <3> QED
      BY <3>1, <3>2
  <2>8. <<>> # None /\ DOMAIN <<>> = {} /\ Len(<<>>) = 0
    <3>1. <<>> \in Seq(JudgeRow)
      OBVIOUS
    <3>2. <<>> # None
      BY <3>1, NoneAssumption
    <3>3. DOMAIN <<>> = {} /\ Len(<<>>) = 0
      OBVIOUS
    <3> QED
      BY <3>2, <3>3
  <2> QED
    BY <2>1, <2>2, <2>3, <2>5, <2>6, <2>7, <2>8 DEF Judging
<1>3. CASE Judge
  <2> DEFINE l == Len(judged)
  <2>1. /\ judged \in Seq(JudgeRow) /\ l \in Nat /\ l < Len(held_out)
    BY <1>3, JudgedRow
  <2>2. PICK row \in JudgeRow :
            /\ judged' = Append(judged, row) /\ Key(row) = Key(held_out[l + 1])
            /\ \E r \in ToSet(ratings) : Key(r) = Key(row) /\ r.score = row.author
    BY <1>3, JudgedRow
  <2>3. /\ results' = results /\ ratings' = ratings /\ agreement' = agreement /\ cmd' = cmd
        /\ cmd.name = "judge"
    BY <1>3 DEF Judge
  <2>4. held_out' = held_out /\ development' = development
    BY <2>3, AnswersStay
  <2>5. /\ Len(judged') = l + 1 /\ DOMAIN judged' = 1..(l + 1) /\ judged' \in Seq(JudgeRow)
        /\ \A i \in 1..l : judged'[i] = judged[i]
        /\ judged'[l + 1] = row
    BY <2>1, <2>2, Appended
  <2>6. DOMAIN judged = 1..l
    BY <2>1
  <2>7. judged' # None
    BY <2>5, NoneAssumption
  <2>8. results # None /\ Len(held_out) \in Nat
    BY <2>3, HeldOutIs DEF IInv, Typed, Judging
  <2> HIDE DEF l
  <2>9. Len(judged') =< Len(held_out)
    BY <2>1, <2>5, <2>8
  <2>10. \A i \in DOMAIN judged' : Key(judged'[i]) = Key(held_out[i])
    BY <2>1, <2>2, <2>3, <2>5, <2>6 DEF IInv, Judging
  <2>11. \A i \in DOMAIN judged' : \E r \in ToSet(ratings) :
            Key(r) = Key(judged'[i]) /\ r.score = judged'[i].author
    BY <2>1, <2>2, <2>3, <2>5, <2>6 DEF IInv, Judging
  <2> QED
    BY <2>3, <2>4, <2>7, <2>8, <2>9, <2>10, <2>11 DEF IInv, Judging
<1>4. CASE results' = results /\ judged' = judged /\ ~StartJudge
  <2>1. held_out' = held_out /\ development' = development
    BY <1>4, AnswersStay
  <2>2. judged' # None =>
        /\ results' # None /\ Len(judged') =< Len(held_out')
        /\ \A i \in DOMAIN judged' : Key(judged'[i]) = Key(held_out'[i])
    BY <1>4, <2>1 DEF IInv, Judging
  <2>3. ASSUME cmd'.name = "judge" PROVE cmd' = cmd /\ ratings' = ratings /\ agreement' = agreement
    <3>1. cmd' = cmd
      BY <1>4, <2>3, StepCommand DEF IInv, Typed
    <3>2. ~Prepare /\ ~Annotate
      BY <2>3, <3>1 DEF Prepare, Annotate, NoCommand
    <3>3. ~Report
      BY <2>3, <3>1 DEF Report, NoCommand
    <3> QED
      BY <3>1, <3>2, <3>3, StepKeeps
  <2> QED
    BY <1>4, <2>1, <2>2, <2>3 DEF IInv, Judging
<1>5. StartJudge \/ Judge \/ judged' = judged
  BY StepKeeps
<1> QED
  BY <1>1, <1>2, <1>3, <1>4, <1>5, StepKeeps

\* Every step keeps the agreement on all of them.
LEMMA StepAgreed == ASSUME IInv, [Next]_vars PROVE Agreed'
<1>1. CASE StartBenchmark \/ WriteRow \/ StartJudge \/ Judge
  <2>1. agreement' = None
    BY <1>1, BenchmarkAlone DEF StartBenchmark, WriteRow, StartJudge, Judge, IInv, Agreed, Judging
  <2> QED
    BY <2>1 DEF Agreed
<1>2. CASE Report
  <2> DEFINE same == {i \in DOMAIN judged : judged[i].judge = judged[i].author}
  <2>1. /\ results' = results /\ judged' = judged /\ judged # None /\ Len(judged) = Len(held_out)
        /\ agreement' = [held_out_answers |-> Len(judged), exact_agreement |-> Cardinality(same)]
    BY <1>2 DEF Report, IInv, Judging
  <2>2. judged \in Seq(JudgeRow)
    BY <2>1 DEF IInv, Typed
  <2>3. DOMAIN judged = 1..Len(judged) /\ Len(judged) \in Nat
    BY <2>2
  <2>4. same \in SUBSET (1..Len(judged))
    BY <2>3
  <2> HIDE DEF same
  <2>5. Cardinality(same) =< Len(judged)
    <3> DEFINE n == Len(judged)
    <3>1. n \in Nat /\ same \in SUBSET (1..n)
      BY <2>3, <2>4
    <3> HIDE DEF n
    <3>2. IsFiniteSet(1..n) /\ Cardinality(1..n) = n
      BY <3>1, FS_Interval
    <3>3. Cardinality(same) =< Cardinality(1..n)
      BY <3>1, <3>2, FS_Subset
    <3> QED
      BY <3>2, <3>3 DEF n
  <2>6. held_out' = held_out
    BY <2>1, AnswersStay
  <2>7. agreement'.held_out_answers = Len(judged) /\ agreement'.exact_agreement = Cardinality(same)
    BY <2>1
  <2> QED
    BY <2>1, <2>5, <2>6, <2>7 DEF Agreed
<1>3. CASE results' = results /\ judged' = judged /\ agreement' = agreement
  <2>1. held_out' = held_out
    BY <1>3, AnswersStay
  <2> QED
    BY <1>3, <2>1 DEF IInv, Agreed
<1> QED
  BY <1>1, <1>2, <1>3, StepKeeps

\* So the invariant holds throughout.
LEMMA InvariantHolds == Spec => []IInv
<1>1. IInv /\ [Next]_vars => IInv'
  BY StepTyped, StepInTurn, StepBenchmarking, StepSummarized, StepJudging, StepAgreed DEF IInv
<1> QED
  BY InitIInv, <1>1, PTL DEF Spec

-----------------------------------------------------------------------------
(* The theorems.                                                            *)

\* The places of a strategy's rows about one split are, one for one, the places of that
\* split's cases.
LEMMA GroupCounts ==
    ASSUME IInv, results # None, Len(results) = Total, NEW s \in DOMAIN Strategies, NEW split
    PROVE  LET group == {i \in DOMAIN results : Name(results[i]) = <<Strategies[s], split>>}
               places == {k \in DOMAIN cases : cases[k].split = split}
           IN  /\ IsFiniteSet(group) /\ Cardinality(group) = Cardinality(places)
               /\ places # {} => group # {}
<1> DEFINE n == Len(cases)
           m == Len(Strategies)
           row(i) == results[i]
           group == {i \in DOMAIN results : Name(results[i]) = <<Strategies[s], split>>}
           places == {k \in DOMAIN cases : cases[k].split = split}
           f == [k \in places |-> (n * (s - 1) + (k - 1)) + 1]
<1>1. /\ n \in Nat /\ m \in Nat /\ DOMAIN cases = 1..n /\ DOMAIN Strategies = 1..m
      /\ \A i, j \in DOMAIN Strategies : Strategies[i] = Strategies[j] => i = j
  BY CasesAre DEF IInv
<1>2. Len(results) = n * m /\ results \in Seq(ResultRow)
  BY DEF Total, IInv, Typed
<1>3. DOMAIN results = 1..(n * m)
  BY <1>2
<1>4. \A i \in DOMAIN results :
        /\ results[i].split = cases[((i - 1) % n) + 1].split
        /\ results[i].strategy = Strategies[((i - 1) \div n) + 1]
  BY DEF IInv, InTurn, RowAt
<1>5. \A i \in DOMAIN results :
        i \in group <=> results[i].strategy = Strategies[s] /\ results[i].split = split
  BY DEF Name
<1>6. n * m \in Nat
  BY <1>1
<1>7. group \in SUBSET (1..(n * m)) /\ places \in SUBSET (1..n)
  BY <1>1, <1>3
<1>8. IsFiniteSet(group) /\ IsFiniteSet(places)
  BY <1>1, <1>6, <1>7, Listable
<1>9. \A k \in DOMAIN cases : k \in places <=> cases[k].split = split
  OBVIOUS
<1>10. s \in 1..m
  BY <1>1
<1> HIDE DEF n, m, group, places
<1>11. ASSUME NEW k \in places
       PROVE  f[k] \in group
  <2> DEFINE l == n * (s - 1) + (k - 1)
  <2>1. s - 1 \in 0..(m - 1) /\ k - 1 \in 0..(n - 1) /\ k \in 1..n
    BY <1>1, <1>7, <1>10
  <2>2. l \in Nat /\ l < n * m /\ l \div n = s - 1 /\ l % n = k - 1
    BY <1>1, <2>1, PlaceOf
  <2>3. f[k] = l + 1
    OBVIOUS
  <2> HIDE DEF l
  <2>4. l + 1 \in DOMAIN results /\ (l + 1) - 1 = l
    BY <1>3, <1>6, <2>2
  <2>5. ((l % n) + 1) = k /\ ((l \div n) + 1) = s
    BY <1>10, <2>1, <2>2
  <2>6. results[l + 1].split = cases[k].split /\ results[l + 1].strategy = Strategies[s]
    BY <1>4, <2>4, <2>5
  <2>7. cases[k].split = split
    BY <1>1, <1>9, <2>1
  <2> QED
    BY <1>5, <2>3, <2>4, <2>6, <2>7
<1>12. ASSUME NEW i \in group PROVE \E k \in places : f[k] = i
  <2> DEFINE l == i - 1
  <2>1. i \in 1..(n * m) /\ i \in DOMAIN results
    BY <1>3, <1>7
  <2>2. l \in Nat /\ l < n * m /\ i = l + 1
    BY <1>6, <2>1
  <2>3. results[i].split = cases[(l % n) + 1].split /\ results[i].strategy = Strategies[(l \div n) + 1]
    BY <1>4, <2>1
  <2> HIDE DEF l
  <2>4. l \div n \in 0..(m - 1) /\ l % n \in 0..(n - 1) /\ l = n * (l \div n) + (l % n)
    BY <1>1, <2>2, PlaceWithin
  <2> DEFINE q == l \div n
             r == l % n
  <2>5. q \in 0..(m - 1) /\ r \in 0..(n - 1) /\ l = n * q + r
    BY <2>4
  <2>6. Strategies[q + 1] = Strategies[s] /\ cases[r + 1].split = split
    BY <1>5, <2>1, <2>3
  <2> HIDE DEF q, r
  <2>7. q + 1 \in DOMAIN Strategies /\ r + 1 \in DOMAIN cases
    BY <1>1, <2>5
  <2>8. q + 1 = s
    BY <1>1, <2>6, <2>7
  <2>9. r + 1 \in places
    BY <1>9, <2>6, <2>7
  <2>10. s - 1 = q /\ (r + 1) - 1 = r
    BY <2>5, <2>8
  <2>11. f[r + 1] = (n * q + r) + 1
    BY <2>9, <2>10
  <2>12. f[r + 1] = i
    BY <2>2, <2>5, <2>11
  <2> QED
    BY <2>9, <2>12
<1>13. ASSUME NEW k1 \in places, NEW k2 \in places, f[k1] = f[k2] PROVE k1 = k2
  <2>1. k1 \in 1..n /\ k2 \in 1..n /\ s - 1 \in Nat
    BY <1>1, <1>7, <1>10
  <2> DEFINE p == n * (s - 1)
  <2>2. p \in Nat
    BY <1>1, <2>1
  <2>3. f[k1] = (p + (k1 - 1)) + 1 /\ f[k2] = (p + (k2 - 1)) + 1
    OBVIOUS
  <2> HIDE DEF p, f
  <2>4. (p + (k1 - 1)) + 1 = (p + (k2 - 1)) + 1
    BY <1>13, <2>3
  <2>5. k1 \in Int /\ k2 \in Int
    BY <1>1, <2>1
  <2> QED
    BY <2>2, <2>4, <2>5
<1>14. DOMAIN f = places
  OBVIOUS
<1> HIDE DEF f
<1>15. f \in Bijection(places, group)
  <2>1. f \in [places -> group]
    <3>1. f = [k \in places |-> f[k]]
      BY DEF f
    <3> QED
      BY <1>11, <3>1
  <2> QED
    BY <1>12, <1>13, <2>1 DEF Bijection, Injection, Surjection, IsInjective
<1>16. Cardinality(group) = Cardinality(places)
  BY <1>8, <1>15, FS_Bijection DEF ExistsBijection
<1>17. places # {} => group # {}
  BY <1>11
<1> QED
  BY <1>8, <1>16, <1>17 DEF group, places

\* What is counted of a group: never more answers than rows, nor more right than answers.
LEMMA GroupIs ==
    ASSUME NEW rows, NEW group, IsFiniteSet(group), \A i \in group : Consistent(rows[i])
    PROVE  LET g == Group(rows, group) IN
           /\ g.cases = Cardinality(group)
           /\ g.passed =< g.correct /\ g.correct + g.operational_errors =< g.cases
<1> DEFINE successes == {i \in group : rows[i].answered}
           right == {i \in successes : rows[i].correct}
           passing == {i \in successes : rows[i].passed}
<1>1. successes \in SUBSET group /\ right \in SUBSET successes
  OBVIOUS
<1>2. passing \in SUBSET right
  BY Zenon DEF Consistent
<1>3. Group(rows, group) =
        [cases |-> Cardinality(group),
         operational_errors |-> Cardinality(group) - Cardinality(successes),
         passed |-> Cardinality(passing), correct |-> Cardinality(right)]
  BY Zenon DEF Group
<1> HIDE DEF successes, right, passing
<1>4. IsFiniteSet(successes) /\ Cardinality(successes) =< Cardinality(group)
  BY <1>1, FS_Subset
<1>5. IsFiniteSet(right) /\ Cardinality(right) =< Cardinality(successes)
  BY <1>1, <1>4, FS_Subset
<1>6. IsFiniteSet(passing) /\ Cardinality(passing) =< Cardinality(right)
  BY <1>2, <1>5, FS_Subset
<1>7. /\ Cardinality(group) \in Nat /\ Cardinality(successes) \in Nat
      /\ Cardinality(right) \in Nat /\ Cardinality(passing) \in Nat
  BY <1>4, <1>5, <1>6, FS_CardinalityType
<1> DEFINE a == Cardinality(group)
           b == Cardinality(successes)
           c == Cardinality(right)
           d == Cardinality(passing)
<1>8. a \in Nat /\ b \in Nat /\ c \in Nat /\ d \in Nat /\ b =< a /\ c =< b /\ d =< c
  BY <1>4, <1>5, <1>6, <1>7
<1>9. Group(rows, group) = [cases |-> a, operational_errors |-> a - b, passed |-> d, correct |-> c]
  BY <1>3
<1>10. a = Cardinality(group)
  OBVIOUS
<1> HIDE DEF a, b, c, d
<1> QED
  BY <1>8, <1>9, <1>10

\* Where the labels of a case agree with precedence, the checks and the policies pass the
\* same responses.
LEMMA ChecksAreRight ==
    ASSUME NEW case, NEW response, LabelsAgree(case),
           response.status \in {"answered", "needs_context", "conflict", "no_evidence"},
           response.status \in {"needs_context", "no_evidence"} => response.cited = {}
    PROVE  reference_checks_pass(case, response) <=> Right(case, response)
<1> DEFINE decided == case.status \in {"answered", "conflict"}
           main == {c.id : c \in MainRules(case)}
           values == {c.value : c \in MainRules(case)}
           applying == \A c \in Corpus : c.id \in response.cited => AppliesTo(c, case.context)
           counting == \A c \in Corpus : c.id \in response.cited =>
                           AppliesTo(c, case.context) /\ (c \in Covered(case) => Counts(c, case.context))
<1>1. case.status = RuleStatus(case)
  BY DEF LabelsAgree
<1>2. decided => case.required = main
  BY DEF LabelsAgree
<1>3. ~decided => case.required = {}
  BY DEF LabelsAgree
<1>4. case.facts \subseteq {response.value} <=> (case.status = "answered" => response.value \in values)
  BY DEF LabelsAgree
<1>5. ASSUME decided, response.cited \subseteq Known
      PROVE  applying /\ response.cited \cap case.forbidden = {} <=> counting
  <2>1. \A c \in Corpus : c.id \in case.forbidden => c \in Covered(case)
    BY <1>5 DEF LabelsAgree
  <2>2. \A c \in Covered(case) :
            Counts(c, case.context) <=> AppliesTo(c, case.context) /\ c.id \notin case.forbidden
    BY <1>5 DEF LabelsAgree
  <2>3. \A id \in response.cited : \E c \in Corpus : c.id = id
    BY <1>5 DEF Known
  <2>4. ASSUME applying, response.cited \cap case.forbidden = {} PROVE counting
    <3> SUFFICES ASSUME NEW c \in Corpus, c.id \in response.cited
                 PROVE  AppliesTo(c, case.context) /\ (c \in Covered(case) => Counts(c, case.context))
      BY Zenon
    <3>1. c.id \notin case.forbidden
      BY <2>4
    <3> QED
      BY <2>2, <2>4, <3>1
  <2>5. ASSUME counting PROVE applying /\ response.cited \cap case.forbidden = {}
    <3>1. applying
      BY <2>5, Zenon
    <3>2. ASSUME NEW id \in response.cited, id \in case.forbidden PROVE FALSE
      <4>1. PICK c \in Corpus : c.id = id
        BY <2>3
      <4>2. c \in Covered(case) /\ Counts(c, case.context)
        BY <2>1, <2>5, <3>2, <4>1
      <4> QED
        BY <2>2, <3>2, <4>1, <4>2
    <3> QED
      BY <3>1, <3>2
  <2> QED
    BY <2>4, <2>5
<1>6. reference_checks_pass(case, response) <=>
        /\ response.status = case.status
        /\ case.facts \subseteq {response.value}
        /\ case.required \subseteq response.cited
        /\ response.cited \subseteq Known
        /\ response.status \in {"answered", "no_evidence", "conflict"} => applying
        /\ response.cited \cap case.forbidden = {}
  BY Zenon DEF reference_checks_pass, outcome_correct
<1>7. Right(case, response) <=>
        /\ response.status = RuleStatus(case)
        /\ response.status \in {"answered", "conflict"} =>
               main \subseteq response.cited /\ response.cited \subseteq Known /\ counting
        /\ response.status = "answered" => response.value \in values
  BY Zenon DEF Right
<1> HIDE DEF main, values, counting
<1>8. CASE response.status # case.status
  BY <1>1, <1>6, <1>7, <1>8
<1>9. CASE response.status = case.status /\ decided
  BY <1>1, <1>2, <1>4, <1>5, <1>6, <1>7, <1>9
<1>10. CASE response.status = case.status /\ ~decided
  <2>1. response.cited = {} /\ case.required = {}
    BY <1>3, <1>10
  <2> QED
    BY <1>1, <1>4, <1>6, <1>7, <1>10, <2>1
<1> QED
  BY <1>8, <1>9, <1>10

\* Whatever the service answers, and however many clauses it cites: a response passes the
\* reference checks exactly if the policies themselves justify it.
THEOREM PassingIsRight == Spec => []PassMeansRight
<1>1. IInv => PassMeansRight
  <2> SUFFICES ASSUME IInv, cmd.name = "benchmark", cmd.response \notin {None, Failed}
               PROVE  reference_checks_pass(Case, cmd.response) <=> Right(Case, cmd.response)
    BY DEF PassMeansRight
  <2>1. results \in Seq(ResultRow) /\ Len(results) < Total /\ cmd.response \in Responses(Case)
    BY DEF IInv, Typed, Benchmarking
  <2>2. cases \in CaseFiles /\ \E k \in DOMAIN cases : Case = cases[k]
    <3>1. Len(results) % Len(cases) \in 0..(Len(cases) - 1) /\ Len(cases) # 0
      BY <2>1, CasesAre, PlaceWithin DEF IInv, Total
    <3>2. (Len(results) % Len(cases)) + 1 \in DOMAIN cases
      BY <3>1, CasesAre DEF IInv
    <3> QED
      BY <3>2 DEF IInv, Typed, Case
  <2>3. LabelsAgree(Case)
    BY <2>2, LabelsAssumption
  <2>4. /\ cmd.response.status \in {"answered", "needs_context", "conflict", "no_evidence"}
        /\ cmd.response.status \in {"needs_context", "no_evidence"} => cmd.response.cited = {}
    BY <2>1, <2>2, ResponsesAssumption
  <2> QED
    BY <2>3, <2>4, ChecksAreRight
<1> QED
  BY InvariantHolds, <1>1, PTL

\* Whatever stopped, failed or was refused before: a summary that exists counts every case
\* of the file once with each strategy, the operational errors included.
THEOREM SummariesCountAll == Spec => []SummaryCountsAll
<1>1. IInv => SummaryCountsAll
  <2> SUFFICES ASSUME IInv, summary # None, NEW strategy \in ToSet(Strategies),
                      NEW split \in {case.split : case \in ToSet(cases)}
               PROVE  LET g == summary[<<strategy, split>>] IN
                      /\ g.cases = Cardinality({k \in DOMAIN cases : cases[k].split = split})
                      /\ g.passed =< g.correct /\ g.correct + g.operational_errors =< g.cases
    BY Zenon DEF SummaryCountsAll
  <2>1. results # None /\ Len(results) = Total /\ summary = summarize(results)
    BY DEF IInv, Summarized
  <2>2. PICK s \in DOMAIN Strategies : Strategies[s] = strategy
    BY DEF ToSet
  <2>3. PICK k \in DOMAIN cases : cases[k].split = split
    BY DEF ToSet
  <2> DEFINE group == {i \in DOMAIN results : Name(results[i]) = <<Strategies[s], split>>}
             places == {j \in DOMAIN cases : cases[j].split = split}
  <2>4. IsFiniteSet(group) /\ Cardinality(group) = Cardinality(places) /\ (places # {} => group # {})
    BY <2>1, GroupCounts
  <2>5. PICK i \in group : TRUE
    BY <2>3, <2>4
  <2>6. <<strategy, split>> \in {Name(results[j]) : j \in DOMAIN results}
    BY <2>2, <2>5
  <2>7. summary[<<strategy, split>>] =
            Group(results, {j \in DOMAIN results : Name(results[j]) = <<strategy, split>>})
    BY <2>1, <2>6 DEF summarize
  <2>8. summary[<<strategy, split>>] = Group(results, group)
    BY <2>2, <2>7
  <2>9. \A j \in group : Consistent(results[j])
    BY <2>1 DEF IInv, InTurn
  <2>10. places = {j \in DOMAIN cases : cases[j].split = split}
    OBVIOUS
  <2> HIDE DEF group, places
  <2>11. LET g == Group(results, group) IN
         /\ g.cases = Cardinality(group)
         /\ g.passed =< g.correct /\ g.correct + g.operational_errors =< g.cases
    BY <2>4, <2>9, GroupIs
  <2> QED
    BY <2>4, <2>8, <2>10, <2>11
<1> QED
  BY InvariantHolds, <1>1, PTL

\* The family of the case that a row is about, as the judge's cases have it.
LEMMA FamilyOfRow ==
    ASSUME IInv, results # None, NEW i \in DOMAIN results
    PROVE  \E case \in ToSet(cases) :
               /\ case = CHOOSE c \in ToSet(cases) : c.id = results[i].case
               /\ case.split = results[i].split
<1> DEFINE n == Len(cases)
           m == Len(Strategies)
           k == ((i - 1) % n) + 1
<1>1. n \in Nat /\ m \in Nat /\ DOMAIN cases = 1..n
  BY CasesAre DEF IInv
<1>2. Len(results) =< n * m /\ Len(results) \in Nat /\ i \in 1..Len(results)
  BY DEF IInv, InTurn, Total, Typed
<1>3. results[i].case = cases[k].id /\ results[i].split = cases[k].split
  BY DEF IInv, InTurn, RowAt
<1>4. \A a, b \in DOMAIN cases : cases[a].id = cases[b].id => a = b
  BY DEF IInv, InTurn, Loadable
<1> HIDE DEF n, m
<1>5. i - 1 \in Nat /\ i - 1 < n * m
  <2> DEFINE p == n * m
             l == Len(results)
  <2>1. p \in Nat /\ l =< p /\ l \in Nat /\ i \in 1..l
    BY <1>1, <1>2
  <2> HIDE DEF l, p
  <2>2. i - 1 \in Nat /\ i - 1 < p
    BY <2>1
  <2> QED
    BY <2>2 DEF p
<1>6. (i - 1) % n \in 0..(n - 1)
  BY <1>1, <1>5, PlaceWithin
<1>7. k \in DOMAIN cases
  BY <1>1, <1>6
<1> HIDE DEF k
<1>8. cases[k] \in ToSet(cases)
  BY <1>7 DEF ToSet
<1>9. \A c \in ToSet(cases) : c.id = results[i].case => c = cases[k]
  BY <1>3, <1>4, <1>7 DEF ToSet
<1>10. cases[k] = CHOOSE c \in ToSet(cases) : c.id = results[i].case
  <2> DEFINE found == CHOOSE c \in ToSet(cases) : c.id = results[i].case
  <2>1. \E c \in ToSet(cases) : c.id = results[i].case
    BY <1>3, <1>8
  <2>2. found \in ToSet(cases) /\ found.id = results[i].case
    BY <2>1, Zenon
  <2>3. found = cases[k]
    BY <1>9, <2>2
  <2> QED
    BY <2>3
<1> QED
  BY <1>3, <1>8, <1>10

\* No family is on both sides of the split.
LEMMA FamiliesApart ==
    ASSUME IInv, results # None, NEW i \in DOMAIN results, NEW j \in DOMAIN results,
           results[i].split = "development", results[j].split = "test"
    PROVE  (CHOOSE c \in ToSet(cases) : c.id = results[i].case).family #
           (CHOOSE c \in ToSet(cases) : c.id = results[j].case).family
<1>1. PICK a \in ToSet(cases) :
        a = (CHOOSE c \in ToSet(cases) : c.id = results[i].case) /\ a.split = results[i].split
  BY FamilyOfRow
<1>2. PICK b \in ToSet(cases) :
        b = (CHOOSE c \in ToSet(cases) : c.id = results[j].case) /\ b.split = results[j].split
  BY FamilyOfRow
<1>3. \A x, y \in DOMAIN cases : cases[x].family = cases[y].family => cases[x].split = cases[y].split
  BY DEF IInv, InTurn, Loadable
<1>4. \A x, y \in ToSet(cases) : x.family = y.family => x.split = y.split
  BY <1>3 DEF ToSet
<1>5. a.family # b.family
  BY <1>1, <1>2, <1>4
<1> QED
  BY <1>1, <1>2, <1>5

\* An agreement covers every held-out answer once and in its place; the judge compares with
\* the author's own rating and has seen no example of a family it is tested on.
THEOREM AgreementsAreSound == Spec => []AgreementSound
<1>1. IInv => AgreementSound
  <2> SUFFICES ASSUME IInv PROVE AgreementSound
    OBVIOUS
  <2>1. ASSUME agreement # None
        PROVE  /\ [i \in DOMAIN judged |-> Key(judged[i])] = [i \in DOMAIN held_out |-> Key(held_out[i])]
               /\ agreement.held_out_answers = Len(held_out)
               /\ agreement.exact_agreement =< Len(held_out)
    <3>1. /\ judged # None /\ Len(judged) = Len(held_out)
          /\ agreement.held_out_answers = Len(judged) /\ agreement.exact_agreement =< Len(judged)
          /\ results # None /\ \A i \in DOMAIN judged : Key(judged[i]) = Key(held_out[i])
      BY <2>1 DEF IInv, Agreed, Judging
    <3>2. judged \in Seq(JudgeRow) /\ results \in Seq(ResultRow)
      BY <3>1 DEF IInv, Typed
    <3>3. DOMAIN judged = 1..Len(judged) /\ DOMAIN held_out = 1..Len(held_out)
      BY <3>2, HeldOutIs
    <3> QED
      BY <3>1, <3>3
  <2>2. ASSUME cmd.name = "judge", NEW row \in ToSet(judged)
        PROVE  \E r \in ToSet(ratings) : Key(r) = Key(row) /\ r.score = row.author
    BY <2>2 DEF IInv, Judging, ToSet
  <2>3. ASSUME cmd.name = "judge", NEW example \in ToSet(cmd.examples), NEW row \in ToSet(held_out)
        PROVE  (CHOOSE case \in ToSet(cases) : case.id = example.case).family #
               (CHOOSE case \in ToSet(cases) : case.id = row.case).family
    <3>1. results # None /\ example \in ToSet(development)
      BY <2>3 DEF IInv, Judging
    <3>2. results \in Seq(ResultRow)
      BY <3>1 DEF IInv, Typed
    <3>3. PICK i \in DOMAIN results : example = results[i] /\ results[i].split = "development"
      BY <3>1, <3>2, DevelopmentIs DEF ToSet
    <3>4. PICK j \in DOMAIN results : row = results[j] /\ results[j].split = "test"
      BY <2>3, <3>2, HeldOutIs DEF ToSet
    <3> QED
      BY <3>1, <3>3, <3>4, FamiliesApart
  <2> QED
    BY <2>1, <2>2, <2>3, Zenon DEF AgreementSound
<1> QED
  BY InvariantHolds, <1>1, PTL

\* A sequence is a prefix of itself and of itself with a row more.
LEMMA PrefixOfMore ==
    ASSUME NEW S, NEW s \in Seq(S), NEW x \in S
    PROVE  IsPrefix(s, s) /\ IsPrefix(s, Append(s, x))
  BY DEF IsPrefix

\* Whatever stops in between: no command removes or changes a line that an earlier one, or
\* the author, has written.
THEOREM EvidenceStays == Spec => EvidenceKept
<1>1. IInv /\ [Next]_vars =>
        [/\ Grows(results) /\ Grows(judged)
         /\ Kept(summary) /\ Kept(agreement)
         /\ Kept(ratings) \/ Annotate]_vars
  <2> SUFFICES ASSUME IInv, [Next]_vars
               PROVE  /\ Grows(results) /\ Grows(judged)
                      /\ Kept(summary) /\ Kept(agreement)
                      /\ Kept(ratings) \/ Annotate
    OBVIOUS
  <2>1. Grows(results)
    <3> SUFFICES ASSUME results # None PROVE results' # None /\ IsPrefix(results, results')
      BY DEF Grows
    <3>1. results' # None /\ results \in Seq(ResultRow)
      BY ResultsStay DEF IInv, Typed
    <3>2. CASE WriteRow
      <4> DEFINE row == Row(Case, Strategy, cmd.response)
      <4>1. row \in ResultRow
        BY <3>2, WrittenRow DEF WriteRow
      <4>2. results' = Append(results, row)
        BY <3>2 DEF WriteRow
      <4> HIDE DEF row
      <4> QED
        BY <3>1, <4>1, <4>2, PrefixOfMore
    <3>3. CASE results' = results
      <4>1. IsPrefix(results, results)
        BY <3>1 DEF IsPrefix
      <4> QED
        BY <3>1, <3>3, <4>1
    <3>4. ~StartBenchmark
      BY DEF StartBenchmark
    <3> QED
      BY <3>2, <3>3, <3>4, StepKeeps
  <2>2. Grows(judged)
    <3> SUFFICES ASSUME judged # None PROVE judged' # None /\ IsPrefix(judged, judged')
      BY DEF Grows
    <3>1. judged \in Seq(JudgeRow)
      BY DEF IInv, Typed
    <3>2. CASE Judge
      <4>1. PICK row \in JudgeRow : judged' = Append(judged, row)
        BY <3>2, JudgedRow
      <4>2. judged' \in Seq(JudgeRow)
        BY <3>1, <4>1
      <4> QED
        BY <3>1, <4>1, <4>2, PrefixOfMore, NoneAssumption
    <3>3. CASE judged' = judged
      <4>1. IsPrefix(judged, judged)
        BY <3>1 DEF IsPrefix
      <4> QED
        BY <3>3, <4>1
    <3>4. ~StartJudge
      BY DEF StartJudge
    <3> QED
      BY <3>2, <3>3, <3>4, StepKeeps
  <2>3. Kept(summary)
    BY StepKeeps DEF Kept, WriteSummary, IInv, Benchmarking
  <2>4. Kept(agreement)
    BY StepKeeps DEF Kept, Report, IInv, Judging
  <2>5. Kept(ratings) \/ Annotate
    BY StepKeeps DEF Kept, Prepare
  <2> QED
    BY <2>1, <2>2, <2>3, <2>4, <2>5
<1> QED
  BY InvariantHolds, <1>1, PTL DEF Spec, EvidenceKept

-----------------------------------------------------------------------------
(* The release script: the inductive invariant.                             *)

\* During an attempt, the state file is the one it started from.
AttemptKnown ==
    step # "idle" =>
        /\ image \in Images
        /\ state # Torn
        /\ previous = IF state = Nothing THEN Nothing ELSE state.image

\* As long as none was stopped or failed outside the `try`, what runs, what is active and what the
\* attempt remembers differ from the recorded release only as its own steps did.
CleanAttempt ==
    clean /\ Recorded =>
        /\ step \in {"idle", "prepare", "read", "ingest"} =>
               app = state.image /\ active = CorpusOf(state.image)
        /\ step \in {"ingest", "up", "ready", "write", "restore"} =>
               previousCorpus = CorpusOf(state.image)
        /\ step = "rollback" => active = CorpusOf(state.image)

\* Before the file is written, the candidate's image runs on the candidate's corpus.
CandidateUp ==
    /\ step \in {"up", "ready", "write"} => active = CorpusOf(image)
    /\ step \in {"ready", "write"} => app = image

ReleaseInv == TypeOK /\ AttemptKnown /\ CleanAttempt /\ CandidateUp /\ ReleaseRepairs /\ PriorPairRecorded

\* It holds initially.
LEMMA ReleaseInitially == ReleaseInit => ReleaseInv
<1>1. ReleaseInit => TypeOK
  <2>1. ReleaseInit => clean \in BOOLEAN
    BY Zenon DEF ReleaseInit
  <2> QED
    BY <2>1, AttemptsAssumption DEF ReleaseInit, TypeOK, Steps, Outcomes
<1>2. ReleaseInit => AttemptKnown /\ CandidateUp /\ ReleaseRepairs
  BY DEF ReleaseInit, AttemptKnown, CandidateUp, ReleaseRepairs
<1>3. ReleaseInit => CleanAttempt /\ PriorPairRecorded
  BY DEF ReleaseInit, CleanAttempt, PriorPairRecorded, Recorded
<1> QED
  BY <1>1, <1>2, <1>3 DEF ReleaseInv

-----------------------------------------------------------------------------
(* One lemma for each conjunct of the invariant.                             *)

\* Every step keeps the types.
LEMMA StepTypeOK == ASSUME ReleaseInv, [ReleaseNext]_release_vars PROVE TypeOK'
<1> USE DEF ReleaseInv, TypeOK, AttemptKnown, Steps, Outcomes, locals, End, Go
<1>1. \A i \in Images : CorpusOf(i) \in Corpora
  BY DEF Corpora
<1>2. ASSUME NEW i \in Images, Start(i) PROVE TypeOK'
  <2>1. state # Nothing /\ state # Torn => state.image \in Images
    BY DEF State
  <2>2. attempts' \in 0..Attempts
    BY <1>2, AttemptsAssumption DEF Start
  <2>3. previous' \in Images \cup {Nothing}
    BY <1>2, <2>1 DEF Start
  <2>4. step' \in Steps /\ outcome' \in Outcomes
    BY <1>2 DEF Start
  <2> QED
    BY <1>2, <2>2, <2>3, <2>4 DEF Start
<1>3. CASE PrepareImage
  BY <1>3 DEF PrepareImage
<1>4. CASE ReadCorpus
  BY <1>4 DEF ReadCorpus
<1>5. CASE Ingest
  BY <1>1, <1>5 DEF Ingest
<1>6. CASE Up
  BY <1>6 DEF Up
<1>7. CASE Ready
  BY <1>7 DEF Ready
<1>8. CASE Restore
  BY <1>8 DEF Restore
<1>9. CASE Rollback
  BY <1>9 DEF Rollback
<1>10. CASE Write
  <2>1. [image |-> image, previous_image |-> previous, previous_corpus |-> previousCorpus] \in State
    BY <1>10 DEF Write, State
  <2> QED
    BY <1>10, <2>1 DEF Write
<1>11. CASE Interrupt
  BY <1>11 DEF Interrupt
<1>12. CASE UNCHANGED release_vars
  BY <1>12 DEF release_vars
<1> QED
  BY <1>2, <1>3, <1>4, <1>5, <1>6, <1>7, <1>8, <1>9, <1>10, <1>11, <1>12 DEF ReleaseNext

\* Every step keeps the attempt on record.
LEMMA StepAttemptKnown == ASSUME ReleaseInv, [ReleaseNext]_release_vars PROVE AttemptKnown'
<1> USE DEF ReleaseInv, AttemptKnown, locals, End, Go
<1>1. ASSUME NEW i \in Images, Start(i) PROVE AttemptKnown'
  BY <1>1 DEF Start
<1>2. CASE PrepareImage \/ ReadCorpus \/ Ingest \/ Up \/ Ready \/ Restore \/ Rollback
  BY <1>2 DEF PrepareImage, ReadCorpus, Ingest, Up, Ready, Restore, Rollback
<1>3. CASE Write \/ Interrupt
  BY <1>3 DEF Write, Interrupt
<1>4. CASE UNCHANGED release_vars
  BY <1>4 DEF release_vars
<1> QED
  BY <1>1, <1>2, <1>3, <1>4 DEF ReleaseNext

\* Every step keeps the candidate that is serving recorded.
LEMMA StepCandidateUp == ASSUME ReleaseInv, [ReleaseNext]_release_vars PROVE CandidateUp'
<1> USE DEF ReleaseInv, CandidateUp, locals, End, Go
<1>1. ASSUME NEW i \in Images, Start(i) PROVE CandidateUp'
  BY <1>1 DEF Start
<1>2. CASE PrepareImage \/ ReadCorpus \/ Ingest \/ Up
  BY <1>2 DEF PrepareImage, ReadCorpus, Ingest, Up
<1>3. CASE Ready \/ Restore \/ Rollback
  BY <1>3 DEF Ready, Restore, Rollback
<1>4. CASE Write \/ Interrupt
  BY <1>4 DEF Write, Interrupt
<1>5. CASE UNCHANGED release_vars
  BY <1>5 DEF release_vars
<1> QED
  BY <1>1, <1>2, <1>3, <1>4, <1>5 DEF ReleaseNext

\* The restored corpus is the recorded one: an attempt that reached `restore` read it
\* before its ingest, and it is never Nothing.
LEMMA StepCleanAttempt == ASSUME ReleaseInv, [ReleaseNext]_release_vars PROVE CleanAttempt'
<1> USE DEF ReleaseInv, CleanAttempt, Recorded, locals, End, Go
<1>1. Recorded => state.image \in Images /\ CorpusOf(state.image) # Nothing
  BY NothingAssumption DEF TypeOK, State
<1>2. ASSUME NEW i \in Images, Start(i) PROVE CleanAttempt'
  BY <1>2 DEF Start
<1>3. CASE PrepareImage
  BY <1>3 DEF PrepareImage
<1>4. CASE ReadCorpus
  BY <1>4 DEF ReadCorpus
<1>5. CASE Ingest
  BY <1>5 DEF Ingest
<1>6. CASE Up \/ Ready
  BY <1>6 DEF Up, Ready
<1>7. CASE Restore
  BY <1>1, <1>7 DEF Restore
<1>8. CASE Rollback
  BY <1>1, <1>8, NothingAssumption DEF Rollback, AttemptKnown
<1>9. CASE Write
  <2>1. app' = image /\ active' = CorpusOf(image)
    BY <1>9 DEF Write, CandidateUp
  <2>2. state'.image = image /\ step' = "idle"
    BY <1>9 DEF Write
  <2> QED
    BY <2>1, <2>2
<1>10. CASE Interrupt
  BY <1>10 DEF Interrupt
<1>11. CASE UNCHANGED release_vars
  BY <1>11 DEF release_vars
<1> QED
  BY <1>2, <1>3, <1>4, <1>5, <1>6, <1>7, <1>8, <1>9, <1>10, <1>11 DEF ReleaseNext

\* Every step keeps the way back open.
LEMMA StepReleaseRepairs == ASSUME ReleaseInv, [ReleaseNext]_release_vars PROVE ReleaseRepairs'
<1> USE DEF ReleaseInv, ReleaseRepairs, locals, End, Go
<1>1. ASSUME NEW i \in Images, Start(i) PROVE ReleaseRepairs'
  BY <1>1 DEF Start
<1>2. CASE PrepareImage \/ ReadCorpus \/ Ingest \/ Up \/ Ready \/ Restore \/ Rollback \/ Interrupt
  BY <1>2 DEF PrepareImage, ReadCorpus, Ingest, Up, Ready, Restore, Rollback, Interrupt
<1>3. CASE Write
  BY <1>3 DEF Write, CandidateUp
<1>4. CASE UNCHANGED release_vars
  BY <1>4 DEF release_vars
<1> QED
  BY <1>1, <1>2, <1>3, <1>4 DEF ReleaseNext

\* Every step keeps the image and corpus to return to on record.
LEMMA StepPriorPairRecorded == ASSUME ReleaseInv, [ReleaseNext]_release_vars PROVE PriorPairRecorded'
<1> USE DEF ReleaseInv, PriorPairRecorded, Recorded, locals, End, Go
<1>1. ASSUME NEW i \in Images, Start(i) PROVE PriorPairRecorded'
  BY <1>1 DEF Start
<1>2. CASE PrepareImage \/ ReadCorpus \/ Ingest \/ Up \/ Ready \/ Restore \/ Rollback \/ Interrupt
  BY <1>2 DEF PrepareImage, ReadCorpus, Ingest, Up, Ready, Restore, Rollback, Interrupt
<1>3. CASE Write
  <2>1. clean' /\ previous # Nothing => previousCorpus = CorpusOf(previous)
    BY <1>3 DEF Write, AttemptKnown, CleanAttempt
  <2>2. state'.previous_image = previous /\ state'.previous_corpus = previousCorpus
    BY <1>3 DEF Write
  <2> QED
    BY <2>1, <2>2
<1>4. CASE UNCHANGED release_vars
  BY <1>4 DEF release_vars
<1> QED
  BY <1>1, <1>2, <1>3, <1>4 DEF ReleaseNext

\* So it holds throughout.
LEMMA ReleaseHolds == ReleaseSpec => []ReleaseInv
<1>1. ReleaseInv /\ [ReleaseNext]_release_vars => ReleaseInv'
  BY StepTypeOK, StepAttemptKnown, StepCleanAttempt, StepCandidateUp, StepReleaseRepairs,
     StepPriorPairRecorded DEF ReleaseInv
<1> QED
  BY ReleaseInitially, <1>1, PTL DEF ReleaseSpec

-----------------------------------------------------------------------------
(* The theorems.                                                            *)

\* Every variable keeps its type, the torn state file included.
THEOREM ReleaseTypes == ReleaseSpec => []TypeOK
<1>1. ReleaseInv => TypeOK
  BY DEF ReleaseInv
<1> QED
  BY ReleaseHolds, <1>1, PTL

\* However many attempts there are: as long as none was stopped, or failed outside the
\* `try` of main(), the running image and the active corpus are the recorded release.
THEOREM ImageOnItsCorpus == ReleaseSpec => []AuthorityMatchesImage
<1>1. ReleaseInv => AuthorityMatchesImage
  BY DEF ReleaseInv, CleanAttempt, AuthorityMatchesImage
<1> QED
  BY ReleaseHolds, <1>1, PTL

\* A release that succeeds repairs whatever any earlier attempts left behind.
THEOREM SuccessRepairs == ReleaseSpec => []ReleaseRepairs
<1>1. ReleaseInv => ReleaseRepairs
  BY DEF ReleaseInv
<1> QED
  BY ReleaseHolds, <1>1, PTL

\* The pair recorded for a rollback by hand was released together.
THEOREM PriorPairHolds == ReleaseSpec => []PriorPairRecorded
<1>1. ReleaseInv => PriorPairRecorded
  BY DEF ReleaseInv
<1> QED
  BY ReleaseHolds, <1>1, PTL
=============================================================================
