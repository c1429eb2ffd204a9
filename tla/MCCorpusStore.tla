---------------------------- MODULE MCCorpusStore ----------------------------
(***************************************************************************)
(* Small corpora for CorpusStore: two that can be published, one whose       *)
(* relationships the table refuses, one with a cycle, one with a lost heading.*)
(* On each day three clauses of v1 apply, one more than a search returns.    *)
(***************************************************************************)
EXTENDS CorpusStore

Clause(id, start, end, countries, links) ==
    [id |-> id, key |-> "k", topic |-> "t", start |-> start, end |-> end,
     countries |-> countries, employments |-> {"employee"}, value |-> id, links |-> links]
Link(kind, target) == [kind |-> kind, target |-> target]
Everywhere == {"BR", "US"}

MCVersions == {"v1", "v2", "twins", "cycle", "heading"}
MCFile(v) ==
    LET first == Clause(1, 1, 2, Everywhere, <<>>)
        second == Clause(2, 2, None, Everywhere, <<Link("supersedes", 1)>>)
        local == Clause(3, 1, None, {"BR"}, <<>>)
        general == Clause(4, 1, None, Everywhere, <<>>)
        file(headings, clauses) ==
            [documents |-> <<1>>, headings |-> headings, clauses |-> clauses]
    IN  CASE v = "v1" -> file(<<1, 2, 3, 4>>, <<first, second, local, general>>)
          [] v = "v2" -> file(<<2, 3>>, <<Clause(2, 1, None, {"US"}, <<>>), local>>)
          [] v = "twins" -> file(<<1, 2>>, <<first, Clause(2, 2, None, Everywhere,
                                     <<Link("supersedes", 1), Link("overrides", 1)>>)>>)
          [] v = "cycle" -> file(<<1, 3>>, <<Clause(1, 1, None, Everywhere, <<Link("overrides", 3)>>),
                                     Clause(3, 1, None, Everywhere, <<Link("overrides", 1)>>)>>)
          [] v = "heading" -> file(<<1, 2>>, <<first>>)

MCContexts == {None} \cup {[day |-> day, country |-> "BR", employment |-> "employee"] : day \in 1..2}
=============================================================================
