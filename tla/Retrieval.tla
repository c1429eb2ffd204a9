------------------------------ MODULE Retrieval ------------------------------
(***************************************************************************)
(* PostgresRetriever.search (adapters/retrieval.py): the rows a search looks *)
(* at, and the fusion of its two rankings.  What the encoder and the text    *)
(* search find relevant is a parameter: a ranking is any sequence of clauses *)
(* of the right rows.                                                        *)
(***************************************************************************)
EXTENDS PolicyRules, FiniteSets

CONSTANTS
    Limit,      \* the length of a ranking and of the result: 12
    Offset      \* the constant of reciprocal rank fusion: 60

ASSUME RankingAssumption == Limit \in Nat \ {0} /\ Offset \in Nat /\ Limit =< Offset

\* The columns of a clause that _insert_corpus writes and a search compares.
RowOf(c, encoder) ==
    [id |-> c.id, starts |-> c.start, ends |-> c.end, countries |-> c.countries,
     employments |-> c.employments, encoder |-> encoder]

\* The WHERE clause; without a context only the corpus is fixed.
Matches(row, context) ==
    context # None =>
        /\ row.starts =< context.day /\ (row.ends = None \/ row.ends > context.day)
        /\ context.country \in row.countries
        /\ context.employment \in row.employments

\* Every ranking a query can return: some of the rows in some order, cut by the
\* query's LIMIT, and by the distance threshold or the text match.
Rankings(ids) ==
    UNION {SetToSeqs(found) : found \in {S \in SUBSET ids : Cardinality(S) =< Limit}}

-----------------------------------------------------------------------------
(* Reciprocal rank fusion.  The places of a clause are its ranks in the dense *)
(* and the lexical ranking, 0 where it was not found.                        *)

Place(ranking, id) ==
    IF id \in ToSet(ranking) THEN CHOOSE i \in DOMAIN ranking : ranking[i] = id ELSE 0

\* The score 1 / (60 + rank), summed over the rankings that found the clause, as a
\* fraction.
Numerator(places) ==
    IF places[1] = 0 \/ places[2] = 0 THEN 1 ELSE 2 * Offset + places[1] + places[2]
Denominator(places) ==
    (IF places[1] = 0 THEN 1 ELSE Offset + places[1]) *
    (IF places[2] = 0 THEN 1 ELSE Offset + places[2])
Ahead(p, q) == Numerator(p) * Denominator(q) > Numerator(q) * Denominator(p)

\* The higher score first, the lower id among equals.
Before(dense, lexical, i, j) ==
    LET places(id) == <<Place(dense, id), Place(lexical, id)>> IN
    \/ Ahead(places(i), places(j))
    \/ ~Ahead(places(j), places(i)) /\ i < j

Fused(dense, lexical) ==
    CHOOSE fused \in SetToSeqs(ToSet(dense) \cup ToSet(lexical)) :
        \A i, j \in DOMAIN fused : i < j => Before(dense, lexical, fused[i], fused[j])
\* Mutant: the cut keeps the end of the order.
FuseLast(dense, lexical) ==
    LET fused == Fused(dense, lexical) IN SubSeq(fused, Max({1, Len(fused) - Limit + 1}), Len(fused))
Fuse(dense, lexical) ==
    LET fused == Fused(dense, lexical) IN SubSeq(fused, 1, Min({Limit, Len(fused)}))
=============================================================================
