----------------------------- MODULE PolicyRules -----------------------------
(***************************************************************************)
(* Clauses, contexts and precedence as domain/models.py defines them, and    *)
(* what policy authority means, independent of any algorithm.  The clauses   *)
(* of a corpus are a sequence in the order of its documents.                 *)
(***************************************************************************)
EXTENDS Naturals, Sequences, SequencesExt

CONSTANT None   \* Python's None: an open end of a period, no related clause

\* clause:  [id, key, topic, start, end, countries, employments, value, links]
\* link:    [kind, target]           context: [day, country, employment]

\* EffectivePeriod: an inclusive start and an exclusive end that comes after it.
Ordered(c) == c.end # None => c.start < c.end
\* Mutant: the last day counts as covered.
InPeriodInclusive(c, day) == c.start =< day /\ (c.end # None => day =< c.end)
InPeriod(c, day) == c.start =< day /\ (c.end # None => day < c.end)

AppliesTo(c, context) ==
    /\ InPeriod(c, context.day)
    /\ context.country \in c.countries
    /\ context.employment \in c.employments

Ids(clauses) == {clauses[i].id : i \in DOMAIN clauses}
Targets(c) == [i \in DOMAIN c.links |-> c.links[i].target]
ClauseOf(clauses, id) == clauses[CHOOSE i \in DOMAIN clauses : clauses[i].id = id]

Unique(documents) == \A i, j \in DOMAIN documents : documents[i] = documents[j] => i = j
UniqueIds(clauses) == \A i, j \in DOMAIN clauses : clauses[i].id = clauses[j].id => i = j

\* A link names a clause of the same rule and topic; superseding follows time.
LinkOK(clauses, c, link) ==
    /\ link.target \in Ids(clauses)
    /\ LET target == ClauseOf(clauses, link.target) IN
        /\ target.key = c.key /\ target.topic = c.topic
        /\ link.kind = "supersedes" => target.start < c.start

LinksOK(clauses) ==
    \A i \in DOMAIN clauses : \A k \in DOMAIN clauses[i].links :
        LinkOK(clauses, clauses[i], clauses[i].links[k])

-----------------------------------------------------------------------------
(* Precedence.                                                              *)

\* The clauses of `among` that precede another: pairs of one explicit link.
LinksAmong(clauses, among) ==
    {<<c.id, t>> : c \in {d \in ToSet(clauses) : d.id \in among},
                   t \in among} \cap
    UNION {{<<c.id, t>> : t \in ToSet(Targets(c))} : c \in ToSet(clauses)}

\* c takes precedence over t when every set that holds what c links to, and with
\* a clause all it links to, holds t: the links lead from c to t within `among`.
Precedes(clauses, among, c, t) ==
    \A S \in SUBSET among :
        (\A link \in LinksAmong(clauses, among) :
            link[1] = c \/ link[1] \in S => link[2] \in S) => t \in S

\* A clause that takes precedence over itself makes the corpus contradict itself.
Cyclic(clauses) == \E id \in Ids(clauses) : Precedes(clauses, Ids(clauses), id, id)

\* What the corpus says in a context, without any reference to an algorithm: an
\* eligible clause counts unless another eligible clause takes precedence over it.
Eligible(clauses, context) == {c \in ToSet(clauses) : AppliesTo(c, context)}
EligibleIds(clauses, context) == {c.id : c \in Eligible(clauses, context)}
Authoritative(clauses, context) ==
    LET among == EligibleIds(clauses, context) IN
    {id \in among : ~\E other \in among : Precedes(clauses, among, other, id)}
=============================================================================
