---------------------------- MODULE MCEvaluation ----------------------------
(***************************************************************************)
(* An instance of Evaluation for TLC.  The files pair each reference case of *)
(* the test split with one of the development split, so that all 60 are      *)
(* asked.  One file is asked with two strategies; two break a rule of        *)
(* load_cases.                                                              *)
(***************************************************************************)
EXTENDS Evaluation

Neural == <<Cases[17], Cases[45]>>
MCCaseFiles ==
    {Neural} \cup {<<Cases[1 + (n % 20)], Cases[20 + n]>> : n \in 1..40}
    \cup {<<Cases[1], [Cases[1] EXCEPT !.id = 2, !.split = "test"]>>, <<Cases[1], Cases[1]>>}

\* _benchmark in demo mode and with neural models.
MCStrategiesFor(file) ==
    IF file = Neural THEN <<"vector", "complete">> ELSE <<"complete">>
MCScores == {1, 5}

\* The clauses an answer may lean on: what its topic says in its country, a clause of
\* the other country, and one that does not exist.
Evidence(case) ==
    LET topic == IF case.topic = None THEN "lodging" ELSE case.topic
        country == IF case.context.country = None THEN "BR" ELSE case.context.country
    IN  {c \in ToSet(Policies(topic)) : country \in c.countries}
Citable(case) ==
    {c.id : c \in Evidence(case)} \cup {Id("airfare", "BR", 2, "main"), Id("airfare", "BR", 3, "main")}
Cited(case) == {{a, b} : a, b \in Citable(case)}
Response(status, cited, value) == [status |-> status, cited |-> cited, value |-> value]

MCResponses(case) ==
    {Response(status, {}, None) : status \in {"needs_context", "no_evidence"}}
    \cup {Response("conflict", cited, None) : cited \in Cited(case)}
    \cup UNION {{Response("answered", cited, c.value) : c \in Evidence(case)} : cited \in Cited(case)}
=============================================================================
