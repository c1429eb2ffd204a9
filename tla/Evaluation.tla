----------------------------- MODULE Evaluation -----------------------------
(***************************************************************************)
(* The offline evaluation: `policytime benchmark` (adapters/benchmark.py)    *)
(* asks the reference cases and scores the responses, `judge prepare` and    *)
(* `judge run` (adapters/judging.py) compare a model's ratings with the      *)
(* author's.  One operator runs one command at a time; a command may stop    *)
(* anywhere, and what it wrote stays.  A command that refuses to start       *)
(* changes nothing and is no step.                                           *)
(***************************************************************************)
EXTENDS PolicyFixture, FiniteSets

CONSTANTS
    CaseFiles,      \* files of cases
    StrategiesFor(_), \* the strategies that a file is asked with, in order
    Responses(_),   \* what the service may answer to a case
    Scores,         \* ratings on one dimension
    Examples,       \* development answers shown to the judge: 6
    Failed          \* any exception of ask(), kept as a row of its own

STRATEGIES == {"vector", "filtered", "complete", "without_reranker"}
\* _benchmark asks with all of them or with one, never twice with the same.
ASSUME FilesAssumption ==
    \A file \in CaseFiles :
        /\ file \in Seq(ToSet(file))
        /\ StrategiesFor(file) \in Seq(STRATEGIES)
        /\ IsInjective(StrategiesFor(file))
ASSUME ExamplesAssumption == Examples \in Nat

\* The lines of results.jsonl, of the ratings, and of judge-results.jsonl.
CaseIds == UNION {{file[k].id : k \in DOMAIN file} : file \in CaseFiles}
Splits == UNION {{file[k].split : k \in DOMAIN file} : file \in CaseFiles}
ResultRow == [case : CaseIds, split : Splits, strategy : STRATEGIES,
              answered : BOOLEAN, correct : BOOLEAN, passed : BOOLEAN]
Rating == [case : CaseIds, strategy : STRATEGIES, score : Scores \cup {None}]
JudgeRow == [case : CaseIds, strategy : STRATEGIES, judge : Scores, author : Scores \cup {None}]
\* A file that does not exist is no file of rows.
ASSUME NoneAssumption == None \notin Seq(ResultRow) \cup Seq(JudgeRow)

VARIABLES
    cases,      \* the file of cases
    results,    \* results.jsonl, None before the benchmark
    summary,    \* summary.json
    ratings,    \* the author's ratings, edited by hand
    judged,     \* judge-results.jsonl
    agreement,  \* agreement.json
    cmd         \* the running command

files == <<results, summary, ratings, judged, agreement>>
vars == <<cases, files, cmd>>

NoCommand == [name |-> "none", response |-> None, author |-> <<>>, examples |-> <<>>]

Init ==
    /\ cases \in CaseFiles
    /\ results = None /\ summary = None /\ ratings = None /\ judged = None /\ agreement = None
    /\ cmd = NoCommand

-----------------------------------------------------------------------------
(* The benchmark                                                            *)

\* Mutant: families may cross the split.
LoadableIds(file) == \A i, j \in DOMAIN file : file[i].id = file[j].id => i = j
\* load_cases.
Loadable(file) ==
    /\ \A i, j \in DOMAIN file : file[i].id = file[j].id => i = j
    /\ \A i, j \in DOMAIN file : file[i].family = file[j].family => file[i].split = file[j].split

Known == {c.id : c \in Corpus}
\* score_response, against the corpus that was read before the first case.
outcome_correct(case, response) == response.status = case.status
\* Mutant: a clause that the case forbids may be cited.
checks_without_forbidden(case, response) ==
    /\ outcome_correct(case, response)
    /\ case.facts \subseteq {response.value}
    /\ case.required \subseteq response.cited
    /\ response.cited \subseteq Known
    /\ response.status \in {"answered", "no_evidence", "conflict"} =>
           \A c \in Corpus : c.id \in response.cited => AppliesTo(c, case.context)
reference_checks_pass(case, response) ==
    /\ outcome_correct(case, response)
    /\ case.facts \subseteq {response.value}
    /\ case.required \subseteq response.cited
    /\ response.cited \subseteq Known
    /\ response.status \in {"answered", "no_evidence", "conflict"} =>
           \A c \in Corpus : c.id \in response.cited => AppliesTo(c, case.context)
    /\ response.cited \cap case.forbidden = {}

Row(case, strategy, response) ==
    [case |-> case.id, split |-> case.split, strategy |-> strategy,
     answered |-> response # Failed,
     correct |-> response # Failed /\ outcome_correct(case, response),
     passed |-> response # Failed /\ reference_checks_pass(case, response)]

\* Mutant: an old file is overwritten.
StartBenchmarkAnew ==
    /\ cmd = NoCommand /\ Loadable(cases)
    /\ results' = <<>>
    /\ cmd' = [NoCommand EXCEPT !.name = "benchmark"]
    /\ UNCHANGED <<cases, summary, ratings, judged, agreement>>
StartBenchmark ==
    /\ cmd = NoCommand /\ Loadable(cases) /\ results = None
    /\ results' = <<>>
    /\ cmd' = [NoCommand EXCEPT !.name = "benchmark"]
    /\ UNCHANGED <<cases, summary, ratings, judged, agreement>>

Strategies == StrategiesFor(cases)
\* The next case, strategy by strategy.
Case == cases[(Len(results) % Len(cases)) + 1]
Strategy == Strategies[(Len(results) \div Len(cases)) + 1]
Total == Len(cases) * Len(Strategies)

Ask ==
    /\ cmd.name = "benchmark" /\ cmd.response = None /\ Len(results) < Total
    /\ \E response \in Responses(Case) \cup {Failed} : cmd' = [cmd EXCEPT !.response = response]
    /\ UNCHANGED <<cases, files>>

WriteRow ==
    /\ cmd.name = "benchmark" /\ cmd.response # None
    /\ results' = Append(results, Row(Case, Strategy, cmd.response))
    /\ cmd' = [cmd EXCEPT !.response = None]
    /\ UNCHANGED <<cases, summary, ratings, judged, agreement>>

\* Mutant: rates are taken over the answers that were obtained.
GroupOfAnswers(rows, group) ==
    LET successes == {i \in group : rows[i].answered} IN
    [cases |-> Cardinality(successes),
     operational_errors |-> Cardinality(group) - Cardinality(successes),
     passed |-> Cardinality({i \in successes : rows[i].passed}),
     correct |-> Cardinality({i \in successes : rows[i].correct})]
\* A group is the set of its rows' places.  Rates are kept as their numerators;
\* `cases` is their denominator.
Group(rows, group) ==
    LET successes == {i \in group : rows[i].answered} IN
    [cases |-> Cardinality(group),
     operational_errors |-> Cardinality(group) - Cardinality(successes),
     passed |-> Cardinality({i \in successes : rows[i].passed}),
     correct |-> Cardinality({i \in successes : rows[i].correct})]

Name(row) == <<row.strategy, row.split>>
summarize(rows) ==
    [name \in {Name(rows[i]) : i \in DOMAIN rows} |->
        Group(rows, {i \in DOMAIN rows : Name(rows[i]) = name})]

WriteSummary ==
    /\ cmd.name = "benchmark" /\ cmd.response = None /\ Len(results) = Total
    /\ summary' = summarize(results)
    /\ cmd' = NoCommand
    /\ UNCHANGED <<cases, results, ratings, judged, agreement>>

-----------------------------------------------------------------------------
(* Ratings                                                                  *)

\* The rows of the file at some places, in the order of the file.
Ascending(places) ==
    CHOOSE s \in [1..Cardinality(places) -> places] :
        ToSet(s) = places /\ \A i, j \in DOMAIN s : i < j => s[i] < s[j]
RowsAt(places) == LET at == Ascending(places) IN [i \in DOMAIN at |-> results[at[i]]]

answered_at == {i \in DOMAIN results : results[i].answered}
answers == RowsAt(answered_at)
\* The CSV has a row for each answer; a stop leaves the first ones.
Prepare ==
    /\ cmd = NoCommand /\ results # None /\ ratings = None
    /\ \E n \in 0..Len(answers) :
        ratings' = [i \in 1..n |-> [case |-> answers[i].case, strategy |-> answers[i].strategy,
                                    score |-> None]]
    /\ UNCHANGED <<cases, results, summary, judged, agreement, cmd>>

\* The author fills in the file between commands, before the judge runs: all of it,
\* with a row left blank, with one lost, or with one twice.
Annotate ==
    /\ cmd = NoCommand /\ judged = None /\ ratings # None /\ Len(ratings) > 0
    /\ \E scores \in [DOMAIN ratings -> Scores] :
        LET filled == [i \in DOMAIN ratings |-> [ratings[i] EXCEPT !.score = scores[i]]] IN
        ratings' \in {filled, [filled EXCEPT ![1].score = None], Tail(filled),
                      Append(filled, filled[1])}
    /\ Len(ratings') =< Total    \* a bound of the model: a row is doubled once
    /\ UNCHANGED <<cases, results, summary, judged, agreement, cmd>>

-----------------------------------------------------------------------------
(* The judge                                                                *)

Key(row) == <<row.case, row.strategy>>
\* _read_ratings.
Complete(rows) ==
    /\ \A i \in DOMAIN rows : rows[i].score # None
    /\ \A i, j \in DOMAIN rows : Key(rows[i]) = Key(rows[j]) => i = j
ScoreOf(rows, row) == (CHOOSE r \in ToSet(rows) : Key(r) = Key(row)).score

\* The judge looks the split up by the identifier; the row repeats it.
development == RowsAt({i \in answered_at : results[i].split = "development"})
held_out == RowsAt({i \in answered_at : results[i].split = "test"})

StartJudge ==
    /\ cmd = NoCommand /\ results # None /\ ratings # None
    /\ Complete(ratings) /\ Loadable(cases)
    /\ development # <<>> /\ held_out # <<>>
    /\ \A row \in ToSet(answers) : \E r \in ToSet(ratings) : Key(r) = Key(row)
    /\ judged = None
    /\ judged' = <<>>
    /\ cmd' = [NoCommand EXCEPT !.name = "judge", !.author = ratings,
          !.examples = SubSeq(development, 1, IF Len(development) < Examples
                                              THEN Len(development) ELSE Examples)]
    /\ UNCHANGED <<cases, results, summary, ratings, agreement>>

\* One held-out answer: reserve, call, write, settle.  Any of them may fail, or
\* the rating not parse, which ends the command; what was written stays.
Judge ==
    /\ cmd.name = "judge" /\ Len(judged) < Len(held_out)
    /\ \E score \in Scores : LET row == held_out[Len(judged) + 1] IN
        judged' = Append(judged, [case |-> row.case, strategy |-> row.strategy,
                                  judge |-> score, author |-> ScoreOf(cmd.author, row)])
    /\ UNCHANGED <<cases, results, summary, ratings, agreement, cmd>>

Report ==
    /\ cmd.name = "judge" /\ Len(judged) = Len(held_out)
    /\ agreement' = [held_out_answers |-> Len(judged),
                     exact_agreement |->
                         Cardinality({i \in DOMAIN judged : judged[i].judge = judged[i].author})]
    /\ cmd' = NoCommand
    /\ UNCHANGED <<cases, results, summary, ratings, judged>>

\* A failure or an interruption ends the command.
Stop == cmd # NoCommand /\ cmd' = NoCommand /\ UNCHANGED <<cases, files>>

Next ==
    \/ StartBenchmark \/ Ask \/ WriteRow \/ WriteSummary
    \/ Prepare \/ Annotate
    \/ StartJudge \/ Judge \/ Report
    \/ Stop

Spec == Init /\ [][Next]_vars

-----------------------------------------------------------------------------
(* What makes the evidence trustworthy.                                     *)

\* What the corpus itself says of a case: the definition of precedence decides, and
\* neither the labels nor the resolver.
MainRules(case) ==
    {c \in ToSet(Policies(case.topic)) : c.key = <<case.topic, "main">> /\
        c.id \in Authoritative(Policies(case.topic), case.context)}
RuleStatus(case) ==
    IF \E field \in DOMAIN case.context : case.context[field] = None THEN "needs_context"
    ELSE IF case.topic = None \/ MainRules(case) = {} THEN "no_evidence"
    ELSE IF Cardinality({c.value : c \in MainRules(case)}) > 1 THEN "conflict"
    ELSE "answered"
\* The clauses whose use the labels of a case can judge: those of its topic, and those of
\* topics without exceptions.  Which clauses of another topic an exception replaces, no
\* label says.
Exceptions(topic) ==
    {c \in ToSet(Policies(topic)) : \E k \in DOMAIN c.links : c.links[k].kind = "overrides"}
Covered(case) == {c \in Corpus : c.topic = case.topic \/ Exceptions(c.topic) = {}}
\* The clause says something in the context, and none that precedes it does.
Counts(c, context) == c.id \in Authoritative(Policies(c.topic), context)

\* What the labels must say for a score to mean anything: the outcome, the clauses and the
\* value that precedence gives, and of the clauses that apply, which are replaced.
LabelsAgree(case) ==
    /\ case.status = RuleStatus(case)
    /\ case.status \in {"answered", "conflict"} =>
        /\ case.required = {c.id : c \in MainRules(case)}
        /\ \A c \in Corpus : c.id \in case.forbidden => c \in Covered(case)
        /\ \A c \in Covered(case) :
               Counts(c, case.context) <=> AppliesTo(c, case.context) /\ c.id \notin case.forbidden
    /\ case.status \notin {"answered", "conflict"} => case.required = {}
    /\ case.status = "answered" =>
        \E value \in case.facts : case.facts = {value} /\ {value} = {c.value : c \in MainRules(case)}
    /\ case.status # "answered" => case.facts = {}
ASSUME LabelsAssumption == \A file \in CaseFiles : \A k \in DOMAIN file : LabelsAgree(file[k])

\* NeedsContext and NoEvidence have no citations.
ASSUME ResponsesAssumption ==
    \A file \in CaseFiles : \A k \in DOMAIN file : \A response \in Responses(file[k]) :
        /\ response.status \in {"answered", "needs_context", "conflict", "no_evidence"}
        /\ response.status \in {"needs_context", "no_evidence"} => response.cited = {}

Right(case, response) ==
    /\ response.status = RuleStatus(case)
    /\ response.status \in {"answered", "conflict"} =>
        /\ {c.id : c \in MainRules(case)} \subseteq response.cited
        /\ response.cited \subseteq Known
        /\ \A c \in Corpus : c.id \in response.cited =>
               AppliesTo(c, case.context) /\ (c \in Covered(case) => Counts(c, case.context))
    /\ response.status = "answered" => response.value \in {c.value : c \in MainRules(case)}

\* A response passes the reference checks exactly if the policies themselves justify
\* it: the labels, written without the resolver, agree with precedence in every case,
\* and no answer scores that leans on a foreign clause, or on one that is replaced where
\* the labels can tell.
PassMeansRight ==
    cmd.name = "benchmark" /\ cmd.response \notin {None, Failed} =>
        (reference_checks_pass(Case, cmd.response) <=> Right(Case, cmd.response))

\* A summary accounts for every case of the file with every strategy: an operational
\* error lowers the rates and never leaves their denominator.
SummaryCountsAll ==
    summary # None =>
        \A strategy \in ToSet(Strategies), split \in {case.split : case \in ToSet(cases)} :
            LET g == summary[<<strategy, split>>] IN
            /\ g.cases = Cardinality({k \in DOMAIN cases : cases[k].split = split})
            /\ g.passed =< g.correct /\ g.correct + g.operational_errors =< g.cases

\* Evidence is never overwritten: no command removes or changes what an earlier one,
\* or the author, has written, whatever stopped in between.
Kept(file) == file # None => file' = file
Grows(file) == file # None => file' # None /\ IsPrefix(file, file')
EvidenceKept ==
    [][/\ Grows(results) /\ Grows(judged)
       /\ Kept(summary) /\ Kept(agreement)
       /\ Kept(ratings) \/ Annotate]_vars

\* The agreement covers every held-out answer once, with the rating the author gave
\* it, and the judge saw no example of a family it was tested on.
AgreementSound ==
    /\ agreement # None =>
        /\ [i \in DOMAIN judged |-> Key(judged[i])] = [i \in DOMAIN held_out |-> Key(held_out[i])]
        /\ agreement.held_out_answers = Len(held_out)
        /\ agreement.exact_agreement =< Len(held_out)
    /\ cmd.name = "judge" =>
        LET family(row) == (CHOOSE case \in ToSet(cases) : case.id = row.case).family IN
        /\ \A row \in ToSet(judged) : \E r \in ToSet(ratings) :
               Key(r) = Key(row) /\ r.score = row.author
        /\ \A example \in ToSet(cmd.examples), row \in ToSet(held_out) :
               family(example) # family(row)
=============================================================================
