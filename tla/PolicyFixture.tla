---------------------------- MODULE PolicyFixture ----------------------------
(***************************************************************************)
(* The fictional policies that scripts/author_corpus.py writes, and the      *)
(* reference cases that scripts/author_benchmark.py labels without looking   *)
(* at them.  Dates are numbers yyyymmdd; wording is left out, and the value  *)
(* of a clause stands for the phrase a case expects in an answer.            *)
(***************************************************************************)
EXTENDS PolicyRules, TLC

TOPICS == <<"lodging", "meals", "transport", "airfare", "approvals", "submission">>

-----------------------------------------------------------------------------
(* The corpus                                                               *)

AMOUNTS ==
    [lodging   |-> [BR |-> <<180, 220>>, US |-> <<140, 180>>],
     meals     |-> [BR |-> <<80, 100>>,  US |-> <<50, 65>>],
     transport |-> [BR |-> <<120, 150>>, US |-> <<60, 75>>]]

\* Amounts differ by country, the other rules only by edition.
main_rule(topic, country, edition) ==
    IF topic \in DOMAIN AMOUNTS THEN <<country, AMOUNTS[topic][country][edition]>>
                                ELSE <<topic, edition>>

Id(topic, country, edition, suffix) ==
    [topic |-> topic, country |-> country, edition |-> edition, suffix |-> suffix]

make_document(topic, country, edition) ==
    LET value == main_rule(topic, country, edition)
        start == IF edition = 1 THEN 20260101 ELSE 20260701
        clause(suffix, rule, from, employments, clause_value, links) ==
            [id |-> Id(topic, country, edition, suffix), key |-> <<topic, rule>>, topic |-> topic,
             start |-> from, end |-> IF edition = 1 THEN 20260701 ELSE None,
             countries |-> {country}, employments |-> employments,
             value |-> clause_value, links |-> links]
        general(suffix, clause_value) ==
            clause(suffix, suffix, start, {"employee", "contractor"}, clause_value,
                IF edition = 1 THEN <<>>
                ELSE <<[kind |-> "supersedes", target |-> Id(topic, country, 1, suffix)]>>)
        contractor ==
            clause("contractor", "main", start, {"contractor"},
                <<country, value[2] - (IF country = "BR" THEN 40 ELSE 20)>>,
                <<[kind |-> "overrides", target |-> Id(topic, country, edition, "main")]>>)
        bulletin ==
            clause("bulletin", "main", 20260901, {"employee"}, <<"US", 90>>, <<>>)
    IN  <<general("main", value), general("documentation", <<topic, 0>>)>>
        \o (IF edition = 2 /\ topic \in {"lodging", "meals"} THEN <<contractor>> ELSE <<>>)
        \o (IF edition = 2 /\ topic = "meals" /\ country = "US" THEN <<bulletin>> ELSE <<>>)

\* The clauses of a topic in the order of the files; precedence stays in a topic.
Policies(topic) ==
    make_document(topic, "BR", 1) \o make_document(topic, "BR", 2) \o
    make_document(topic, "US", 1) \o make_document(topic, "US", 2)
Corpus == UNION {ToSet(Policies(topic)) : topic \in ToSet(TOPICS)}

-----------------------------------------------------------------------------
(* The reference cases                                                      *)

\* The script's own tables of what an answer must say.
FACTS ==
    [lodging   |-> [BR |-> <<180, 220>>, US |-> <<140, 180>>],
     meals     |-> [BR |-> <<80, 100>>,  US |-> <<50, 65>>],
     transport |-> [BR |-> <<120, 150>>, US |-> <<60, 75>>]]
CONTRACTOR_FACTS == [lodging |-> [BR |-> 180, US |-> 160], meals |-> [BR |-> 60, US |-> 45]]
fact(topic, country, edition, employment) ==
    IF edition = 2 /\ employment = "contractor" /\ topic \in DOMAIN CONTRACTOR_FACTS
    THEN <<country, CONTRACTOR_FACTS[topic][country]>>
    ELSE IF topic \in DOMAIN FACTS THEN <<country, FACTS[topic][country][edition]>>
    ELSE <<topic, edition>>

\* What an answer to a contractor must not cite.
Replaced(topic, country, exception) ==
    IF exception THEN {Id(topic, country, 2, "main")} ELSE {}

answered(topic, country, edition, split, family, day, employment) ==
    LET exception == edition = 2 /\ employment = "contractor" /\ topic \in {"lodging", "meals"} IN
    [split |-> split, family |-> family, topic |-> topic,
     context |-> [day |-> day, country |-> country, employment |-> employment],
     status |-> "answered",
     required |-> {Id(topic, country, edition, IF exception THEN "contractor" ELSE "main")},
     forbidden |-> Replaced(topic, country, exception),
     facts |-> {fact(topic, country, edition, employment)}]

\* The other cases are answered ones with their outcome replaced.
Abstaining(case, status, required) ==
    [case EXCEPT !.status = status, !.required = required, !.facts = {}]

Labelled ==
    LET Each(F(_, _)) == FlattenSeq([i \in DOMAIN TOPICS |-> <<F(TOPICS[i], "BR"), F(TOPICS[i], "US")>>])
        topical(topics, F(_)) == [i \in DOMAIN topics |-> F(topics[i])]
        missing == answered("lodging", "BR", 1, "development", "missing", 20260615, "employee")
        unrelated == answered("lodging", "BR", 1, "development", "unrelated", 20260615, "employee")
        unsupported == answered("lodging", "BR", 2, "test", "unsupported", 20260715, "employee")
        incomplete == answered("lodging", "BR", 2, "test", "incomplete", 20260715, "employee")
    IN  Each(LAMBDA t, c : answered(t, c, 1, "development", "historical", 20260615, "employee"))
    \o topical(<<<<"lodging", "BR">>, <<"meals", "BR">>, <<"submission", "US">>, <<"transport", "US">>>>,
           LAMBDA p : answered(p[1], p[2], 2, "development", "updated", 20260715, "employee"))
    \o <<Abstaining([missing EXCEPT !.context.day = None], "needs_context", {}),
         Abstaining([missing EXCEPT !.context.employment = None], "needs_context", {})>>
    \o topical(<<1, 2>>, LAMBDA n : Abstaining([unrelated EXCEPT !.topic = None], "no_evidence", {}))
    \o FlattenSeq(topical(Each(LAMBDA t, c : <<t, c>>), LAMBDA p :
           <<answered(p[1], p[2], 2, "test", "boundary", 20260701, "employee"),
             answered(p[1], p[2], 2, "test", "contractor", 20260720, "contractor")>>))
    \o topical(TOPICS, LAMBDA t : Abstaining(
           answered(t, "BR", 1, "test", "gap", 20251231, "employee"), "no_evidence", {}))
    \o topical(<<20260901, 20261015>>, LAMBDA day : Abstaining(
           answered("meals", "US", 2, "test", "bulletin", day, "employee"), "conflict",
           {Id("meals", "US", 2, "main"), Id("meals", "US", 2, "bulletin")}))
    \o topical(<<"lodging", "meals">>, LAMBDA t :
           answered(t, "US", 2, "test", "exclusion", 20260915, "contractor"))
    \o topical(<<1, 2>>, LAMBDA n : Abstaining([unsupported EXCEPT !.topic = None], "no_evidence", {}))
    \o topical(<<None, "US">>, LAMBDA country : Abstaining(
           [incomplete EXCEPT !.context.country = country, !.context.employment = None],
           "needs_context", {}))
    \o topical(<<"lodging", "transport">>, LAMBDA t :
           answered(t, "BR", 2, "test", "injection", 20260715, "employee"))

\* The identifier of a case is its number.
Cases == [n \in DOMAIN Labelled |-> [id |-> n] @@ Labelled[n]]
=============================================================================
