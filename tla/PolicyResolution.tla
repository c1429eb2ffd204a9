--------------------------- MODULE PolicyResolution --------------------------
(***************************************************************************)
(* validate_corpus and resolve (domain/resolution.py), one iteration of a    *)
(* loop per step.  A corpus is checked when it is loaded and published; one  *)
(* that is accepted is resolved for the context of a question.  `validate`   *)
(* walks the precedence links depth first; `resolve` filters the clauses by  *)
(* date and audience, spreads displacement over a work list and selects.     *)
(***************************************************************************)
EXTENDS PolicyRules, FiniteSets

CONSTANTS
    Inputs          \* what to start from: identifiers of documents, their clauses,
                    \* and the contexts to resolve them in

\* What the types of domain/models.py guarantee of any input.
ASSUME InputsAssumption ==
    \A i \in Inputs :
        /\ i.clauses \in Seq(ToSet(i.clauses))
        /\ None \notin Ids(i.clauses)
        /\ \A c \in ToSet(i.clauses) :
              /\ c.links \in Seq(ToSet(c.links))
              /\ c.start \in Nat /\ c.end \in Nat \cup {None}
        /\ \A k \in i.contexts : k.day \in Nat
ASSUME NoneAssumption == None \notin Nat

VARIABLES
    documents, corpus,  \* the input: identifiers of the documents, and the clauses
    context,            \* the input: the context of a question
    phase,              \* where the algorithm is
    at,                 \* position in the current outer loop
    path,               \* stack of visit(): a clause and the targets still to visit
    visiting, visited,  \* the two sets of _reject_cycles
    eligible,           \* the clauses that passed the filter, in order
    pending, seen,      \* work list and set of _displaced_clauses
    displaced,          \* the winner over each displaced clause
    selected,           \* the clauses that apply, in order
    conflicts,          \* groups of selected clauses that disagree
    steps               \* the explanation: a decision for each clause

input == <<documents, corpus, context>>
walk == <<path, visiting, visited>>
work == <<pending, seen, displaced>>
result == <<selected, conflicts, steps>>
vars == <<input, phase, at, walk, eligible, work, result>>

Phases == {"check", "visit", "filter", "displace", "select", "done", "rejected"}

Init ==
    /\ \E i \in Inputs :
        documents = i.documents /\ corpus = i.clauses /\ context \in i.contexts
    /\ phase = "check"
    /\ at = 0
    /\ path = <<>> /\ visiting = {} /\ visited = {}
    /\ eligible = <<>>
    /\ pending = <<>> /\ seen = {}
    /\ displaced = [id \in Ids(corpus) |-> None]
    /\ selected = <<>> /\ conflicts = {} /\ steps = <<>>

-----------------------------------------------------------------------------
(* validate_corpus                                                          *)

WellFormed == Unique(documents) /\ UniqueIds(corpus) /\ LinksOK(corpus)

CheckLinks ==
    /\ phase = "check"
    /\ phase' = IF WellFormed THEN "visit" ELSE "rejected"
    /\ UNCHANGED <<input, at, walk, eligible, work, result>>

\* Mutant: a clause counts as visited from the moment it is entered.
VisitOnce(id, below) ==
    \/ /\ id \in visited
       /\ path' = below
       /\ UNCHANGED <<phase, visiting, visited>>
    \/ /\ id \notin visited
       /\ path' = Append(below, [id |-> id, rest |-> Targets(ClauseOf(corpus, id))])
       /\ visiting' = visiting \cup {id}
       /\ visited' = visited \cup {id}
       /\ UNCHANGED phase
\* visit(id) on top of the callers in `below`.
Visit(id, below) ==
    \/ /\ id \in visiting
       /\ phase' = "rejected"
       /\ UNCHANGED walk
    \/ /\ id \notin visiting /\ id \in visited
       /\ path' = below
       /\ UNCHANGED <<phase, visiting, visited>>
    \/ /\ id \notin visiting \cup visited
       /\ path' = Append(below, [id |-> id, rest |-> Targets(ClauseOf(corpus, id))])
       /\ visiting' = visiting \cup {id}
       /\ UNCHANGED <<phase, visited>>

VisitRoot ==
    /\ phase = "visit" /\ path = <<>> /\ at < Len(corpus)
    /\ at' = at + 1
    /\ Visit(corpus[at + 1].id, <<>>)
    /\ UNCHANGED <<input, eligible, work, result>>

VisitTarget ==
    /\ phase = "visit" /\ path # <<>> /\ Last(path).rest # <<>>
    /\ Visit(Head(Last(path).rest), [path EXCEPT ![Len(path)].rest = Tail(@)])
    /\ UNCHANGED <<input, at, eligible, work, result>>

Leave ==
    /\ phase = "visit" /\ path # <<>> /\ Last(path).rest = <<>>
    /\ visiting' = visiting \ {Last(path).id}
    /\ visited' = visited \cup {Last(path).id}
    /\ path' = Front(path)
    /\ UNCHANGED <<input, phase, at, eligible, work, result>>

Accept ==
    /\ phase = "visit" /\ path = <<>> /\ at = Len(corpus)
    /\ phase' = "filter" /\ at' = 0
    /\ UNCHANGED <<input, walk, eligible, work, result>>

-----------------------------------------------------------------------------
(* resolve                                                                  *)

Step(c, decision, winner) == Append(steps, [id |-> c.id, decision |-> decision, related |-> winner])

\* Mutant: a clause for another audience is dropped without a word.
FilterSilently ==
    /\ phase = "filter" /\ at < Len(corpus)
    /\ at' = at + 1
    /\ LET c == corpus[at + 1] IN
        /\ steps' = IF InPeriod(c, context.day) THEN steps ELSE Step(c, "outside_date", None)
        /\ eligible' = IF AppliesTo(c, context) THEN Append(eligible, c) ELSE eligible
    /\ UNCHANGED <<input, phase, walk, work, selected, conflicts>>

Filter ==
    /\ phase = "filter" /\ at < Len(corpus)
    /\ at' = at + 1
    /\ LET c == corpus[at + 1] IN
        \/ /\ ~InPeriod(c, context.day)
           /\ steps' = Step(c, "outside_date", None)
           /\ UNCHANGED eligible
        \/ /\ InPeriod(c, context.day) /\ ~AppliesTo(c, context)
           /\ steps' = Step(c, "outside_audience", None)
           /\ UNCHANGED eligible
        \/ /\ AppliesTo(c, context)
           /\ eligible' = Append(eligible, c)
           /\ UNCHANGED steps
    /\ UNCHANGED <<input, phase, walk, work, selected, conflicts>>

Filtered ==
    /\ phase = "filter" /\ at = Len(corpus)
    /\ phase' = "displace" /\ at' = 0
    /\ UNCHANGED <<input, walk, eligible, work, result>>

DisplaceFrom ==
    /\ phase = "displace" /\ pending = <<>> /\ at < Len(eligible)
    /\ at' = at + 1
    /\ pending' = Targets(eligible[at + 1])
    /\ seen' = {}
    /\ UNCHANGED <<input, phase, walk, eligible, displaced, result>>

\* Mutant: displacement also runs through clauses that do not apply.
DisplaceThrough ==
    /\ phase = "displace" /\ pending # <<>>
    /\ LET target == Last(pending) IN
        \/ /\ target \in seen
           /\ pending' = Front(pending)
           /\ UNCHANGED <<seen, displaced>>
        \/ /\ target \notin seen
           /\ seen' = seen \cup {target}
           /\ displaced' = [displaced EXCEPT ![target] = eligible[at].id]
           /\ pending' = Front(pending) \o Targets(ClauseOf(corpus, target))
    /\ UNCHANGED <<input, phase, at, walk, eligible, result>>
\* Mutant: displacement stops after one link.
DisplaceDirect ==
    /\ phase = "displace" /\ pending # <<>>
    /\ LET target == Last(pending) IN
        /\ pending' = Front(pending)
        /\ seen' = seen \cup {target}
        /\ displaced' = IF target \in Ids(eligible)
                        THEN [displaced EXCEPT ![target] = eligible[at].id] ELSE displaced
    /\ UNCHANGED <<input, phase, at, walk, eligible, result>>
\* Mutant: a target that was seen is followed again.
DisplaceAgain ==
    /\ phase = "displace" /\ pending # <<>>
    /\ LET target == Last(pending) IN
        \/ /\ target \notin Ids(eligible)
           /\ pending' = Front(pending)
           /\ UNCHANGED <<seen, displaced>>
        \/ /\ target \in Ids(eligible)
           /\ seen' = seen \cup {target}
           /\ displaced' = [displaced EXCEPT ![target] = eligible[at].id]
           /\ pending' = Front(pending) \o Targets(ClauseOf(eligible, target))
    /\ UNCHANGED <<input, phase, at, walk, eligible, result>>

\* pending.pop() takes the last target.
Displace ==
    /\ phase = "displace" /\ pending # <<>>
    /\ LET target == Last(pending) IN
        \/ /\ target \in seen \/ target \notin Ids(eligible)
           /\ pending' = Front(pending)
           /\ UNCHANGED <<seen, displaced>>
        \/ /\ target \notin seen /\ target \in Ids(eligible)
           /\ seen' = seen \cup {target}
           /\ displaced' = [displaced EXCEPT ![target] = eligible[at].id]
           /\ pending' = Front(pending) \o Targets(ClauseOf(eligible, target))
    /\ UNCHANGED <<input, phase, at, walk, eligible, result>>

Displaced ==
    /\ phase = "displace" /\ pending = <<>> /\ at = Len(eligible)
    /\ phase' = "select" /\ at' = 0
    /\ UNCHANGED <<input, walk, eligible, work, result>>

Select ==
    /\ phase = "select" /\ at < Len(eligible)
    /\ at' = at + 1
    /\ LET c == eligible[at + 1] IN
        \/ /\ displaced[c.id] # None
           /\ steps' = Step(c, "overridden", displaced[c.id])
           /\ UNCHANGED selected
        \/ /\ displaced[c.id] = None
           /\ steps' = Step(c, "applies", None)
           /\ selected' = Append(selected, c)
    /\ UNCHANGED <<input, phase, walk, eligible, work, conflicts>>

\* Mutant: clauses are compared within their topic, whatever rule they state.
GroupByTopic(key) == {c \in ToSet(selected) : \E d \in ToSet(selected) :
                                                   d.key = key /\ d.topic = c.topic}
Group(key) == {c \in ToSet(selected) : c.key = key}

Selected ==
    /\ phase = "select" /\ at = Len(eligible)
    /\ phase' = "done" /\ at' = 0
    /\ conflicts' = {group \in {Group(c.key) : c \in ToSet(selected)} :
                         Cardinality({c.value : c \in group}) > 1}
    /\ UNCHANGED <<input, walk, eligible, work, selected, steps>>

Next ==
    \/ CheckLinks \/ VisitRoot \/ VisitTarget \/ Leave \/ Accept
    \/ Filter \/ Filtered \/ DisplaceFrom \/ Displace \/ Displaced \/ Select \/ Selected

Spec == Init /\ [][Next]_vars
\* The two functions run to their end in one thread.
FairSpec == Spec /\ WF_vars(Next)

-----------------------------------------------------------------------------
(* What makes a resolution correct.                                         *)

TypeOK ==
    /\ phase \in Phases
    /\ at \in 0..Len(corpus)
    /\ visiting \cup visited \cup seen \subseteq Ids(corpus)
    /\ ToSet(selected) \subseteq ToSet(eligible)
    /\ ToSet(eligible) \subseteq ToSet(corpus)
    /\ displaced \in [Ids(corpus) -> Ids(corpus) \cup {None}]
    /\ Len(steps) =< Len(corpus)

\* A corpus is accepted exactly when its links are well formed and no clause
\* takes precedence over itself through any chain of links.
VerdictExact ==
    /\ phase = "rejected" => ~WellFormed \/ Cyclic(corpus)
    /\ phase = "filter" => WellFormed /\ ~Cyclic(corpus)

\* What is selected is what the corpus says: the eligible clauses that no eligible
\* clause precedes, whatever the order of clauses, links and work list.
SelectionExact ==
    phase = "done" => Ids(selected) = Authoritative(corpus, context)

\* A displaced clause names an applicable clause that takes precedence over it,
\* and of the clauses that do, the last one in the order of the corpus.
WinnerPrecedes ==
    phase \in {"select", "done"} =>
        LET among == Ids(eligible) IN
        \A i \in DOMAIN eligible :
            LET winners == {j \in DOMAIN eligible :
                                Precedes(corpus, among, eligible[j].id, eligible[i].id)}
            IN  displaced[eligible[i].id] =
                    IF winners = {} THEN None
                    ELSE eligible[CHOOSE j \in winners : \A k \in winners : k =< j].id

\* The explanation decides every clause of the corpus exactly once, and says
\* "applies" of exactly the selected clauses.
ExplanationComplete ==
    phase = "done" =>
        /\ {steps[i].id : i \in DOMAIN steps} = Ids(corpus)
        /\ Len(steps) = Len(corpus)
        /\ {steps[i].id : i \in {j \in DOMAIN steps : steps[j].decision = "applies"}}
               = Ids(selected)

\* Two clauses that apply and disagree on a rule are always reported together,
\* and nothing else is a conflict.
ConflictsExact ==
    phase = "done" => \A c, d \in ToSet(selected) :
        (c.key = d.key /\ \E e \in ToSet(selected) : e.key = c.key /\ e.value # c.value)
            <=> \E group \in conflicts : {c, d} \subseteq group

\* Periods are half open: of two versions of which one ends on the day the other
\* starts, exactly one passes the filter by date on every day from the start of the
\* first to the end of the second, and both on none.  Neither is left to precedence.
VersionsTakeTurns ==
    LET InTime(v) == \E i \in DOMAIN steps :
                         steps[i].id = v.id /\ steps[i].decision # "outside_date"
    IN  phase = "done" => \A c, d \in ToSet(corpus) : c.end = d.start =>
            /\ ~(InTime(c) /\ InTime(d))
            /\ c.start =< context.day /\ (d.end = None \/ context.day < d.end)
                   => InTime(c) \/ InTime(d)

\* Displacement follows every link at most once for each clause it starts from: a step of
\* the work list leaves fewer links to follow, those that wait and those of the eligible
\* clauses not seen yet, however many paths of a diamond lead to one clause.
LinksLeft ==
    Len(pending) + SumFunctionOnSet([j \in DOMAIN eligible |-> Len(eligible[j].links)],
                                    {j \in DOMAIN eligible : eligible[j].id \notin seen})
LinksFollowedOnce == [][phase = "displace" /\ pending # <<>> => LinksLeft' < LinksLeft]_vars

\* Both functions terminate, and displacement without following a link again: a cycle
\* of links ends visit() with an error, and the work list drains.
Terminates == <>(phase \in {"done", "rejected"}) /\ LinksFollowedOnce
=============================================================================
