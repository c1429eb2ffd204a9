------------------------- MODULE MCPolicyResolution -------------------------
(***************************************************************************)
(* Bounded inputs of PolicyResolution for TLC: every precedence graph over   *)
(* few clauses, and every combination of the fields of two clauses.          *)
(***************************************************************************)
EXTENDS PolicyResolution

Clause(id, key, topic, start, end, countries, employments, value, links) ==
    [id |-> id, key |-> key, topic |-> topic, start |-> start, end |-> end,
     countries |-> countries, employments |-> employments, value |-> value, links |-> links]

Link(kind, target) == [kind |-> kind, target |-> target]
Overrides(targets) == SetToSeq({Link("overrides", t) : t \in targets})

-----------------------------------------------------------------------------
(* Graphs: clauses of one rule, told apart by their links and their country. *)

Brazil == {[day |-> 1, country |-> "BR", employment |-> "employee"]}

Node(id, country, targets) ==
    Clause(id, "rule", "meals", 1, None, {country}, {"employee"}, id % 2, Overrides(targets))

Countries == {"BR", "US"}

\* Any links between three clauses, cycles and self-links included.
ThreeNodes ==
    {[i \in 1..3 |-> Node(i, country[i], links[i])] :
        country \in [1..3 -> Countries], links \in [1..3 -> SUBSET (1..3)]}

\* Any acyclic links between four clauses, in any order of the corpus.
FourOrders == {order \in [1..4 -> 1..4] : \A i, j \in 1..4 : order[i] = order[j] => i = j}
Later == {links \in [1..4 -> SUBSET (1..4)] : \A i \in 1..4 : \A j \in links[i] : i < j}
FourNodes ==
    {[i \in 1..4 |-> Node(order[i], country[i], links[order[i]])] :
        country \in [1..4 -> Countries], order \in FourOrders, links \in Later}

Graphs ==
    {[documents |-> <<1>>, clauses |-> c, contexts |-> Brazil] : c \in ThreeNodes \cup FourNodes}

-----------------------------------------------------------------------------
(* Fields: two clauses with any rule, topic, period, country, worker, value  *)
(* and link; the first has the first rule and topic.                         *)

Days == {[day |-> day, country |-> "BR", employment |-> "employee"] : day \in 1..3}

RuleTopics == {<<"k1", "t1">>, <<"k2", "t1">>, <<"k1", "t2">>}
Periods == {<<1, None>>, <<2, None>>, <<1, 2>>, <<2, 3>>}
Audiences == {<<{"BR"}, {"employee"}>>, <<{"US"}, {"employee"}>>, <<{"BR"}, {"contractor"}>>}
AnyLinks == {<<>>} \cup {<<Link(kind, t)>> : kind \in {"supersedes", "overrides"}, t \in 1..3}

ClausesOf(id, ruleTopics) ==
    {c \in {Clause(id, rt[1], rt[2], p[1], p[2], a[1], a[2], v, ls) :
                rt \in ruleTopics, p \in Periods, a \in Audiences, v \in 1..2, ls \in AnyLinks} :
        Ordered(c)}

TwoClauses ==
    {<<c, d>> : c \in {x \in ClausesOf(1, {<<"k1", "t1">>}) : x.value = 1},
                d \in ClausesOf(1, {<<"k1", "t1">>}) \cup ClausesOf(2, RuleTopics)}
\* Each clause in a document of its own, and the first pairs under one identifier.
Fields ==
    {[documents |-> <<1, 2>>, clauses |-> pair, contexts |-> Days] : pair \in TwoClauses} \cup
    {[documents |-> <<1, 1>>, clauses |-> pair, contexts |-> Days] :
        pair \in {p \in TwoClauses : p[1].links = <<>> /\ p[2].links = <<>>}}

MCInputs == Graphs \cup Fields
=============================================================================
