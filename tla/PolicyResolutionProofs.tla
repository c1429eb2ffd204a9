----------------------- MODULE PolicyResolutionProofs -----------------------
(***************************************************************************)
(* Proofs about PolicyResolution: for every corpus, any number of clauses,   *)
(* links, periods and audiences, and every question.                         *)
(*                                                                           *)
(* Precedence is defined by closed sets, so a set the algorithm has gathered *)
(* shows what does NOT take precedence (PrecedesWithin), and every link it   *)
(* follows shows what does (PrecedesExtends): no induction over paths.       *)
(***************************************************************************)
EXTENDS PolicyResolution, Sums

-----------------------------------------------------------------------------
(* Sequences and the set of their elements.                                 *)

\* The elements of a concatenation.
LEMMA RangeOfConcat ==
    ASSUME NEW S, NEW s \in Seq(S), NEW t \in Seq(S)
    PROVE  s \o t \in Seq(S) /\ ToSet(s \o t) = ToSet(s) \cup ToSet(t)
<1>1. /\ s \o t \in Seq(S) /\ Len(s \o t) = Len(s) + Len(t)
      /\ \A i \in 1..Len(s) : (s \o t)[i] = s[i]
      /\ \A i \in 1..Len(t) : (s \o t)[Len(s) + i] = t[i]
  OBVIOUS
<1>2. ASSUME NEW i \in 1..(Len(s) + Len(t)), i > Len(s)
      PROVE  i - Len(s) \in 1..Len(t) /\ Len(s) + (i - Len(s)) = i
  BY <1>2
<1>3. ToSet(s \o t) \subseteq ToSet(s) \cup ToSet(t)
  BY <1>1, <1>2 DEF ToSet
<1>4. ToSet(s) \subseteq ToSet(s \o t)
  BY <1>1 DEF ToSet
<1>5. ASSUME NEW i \in 1..Len(t) PROVE t[i] \in ToSet(s \o t)
  <2>1. Len(s) + i \in 1..Len(s \o t) /\ t[i] = (s \o t)[Len(s) + i]
    BY <1>1
  <2> QED
    BY <1>1, <2>1 DEF ToSet
<1>6. ToSet(t) \subseteq ToSet(s \o t)
  BY <1>5 DEF ToSet
<1> QED
  BY <1>1, <1>3, <1>4, <1>6

\* A nonempty sequence, split before its last element.
LEMMA RangeOfFront ==
    ASSUME NEW S, NEW s \in Seq(S), s # <<>>
    PROVE  /\ Front(s) \in Seq(S) /\ Last(s) \in S
           /\ Len(Front(s)) = Len(s) - 1 /\ Len(s) >= 1
           /\ \A i \in 1..Len(s) - 1 : Front(s)[i] = s[i]
           /\ ToSet(s) = ToSet(Front(s)) \cup {Last(s)}
<1>1. Len(s) \in Nat /\ Len(s) >= 1 /\ DOMAIN s = 1..Len(s)
  OBVIOUS
<1>2. /\ Front(s) \in Seq(S)
      /\ Len(Front(s)) = Len(s) - 1
      /\ \A i \in 1..Len(s) - 1 : Front(s)[i] = s[i]
  BY <1>1 DEF Front
<1>3. Last(s) = s[Len(s)] /\ s[Len(s)] \in S
  BY <1>1 DEF Last
<1>4. ToSet(s) = ToSet(Front(s)) \cup {Last(s)}
  BY <1>1, <1>2, <1>3 DEF ToSet
<1> QED
  BY <1>1, <1>2, <1>3, <1>4

\* The elements after an append.
LEMMA RangeOfAppend ==
    ASSUME NEW S, NEW s \in Seq(S), NEW x \in S
    PROVE  /\ Append(s, x) \in Seq(S) /\ Len(Append(s, x)) = Len(s) + 1
           /\ \A i \in 1..Len(s) : Append(s, x)[i] = s[i]
           /\ Append(s, x)[Len(s) + 1] = x
           /\ ToSet(Append(s, x)) = ToSet(s) \cup {x}
  BY DEF ToSet

\* A nonempty sequence, split after its first element.
LEMMA RangeOfTail ==
    ASSUME NEW S, NEW s \in Seq(S), s # <<>>
    PROVE  Tail(s) \in Seq(S) /\ Head(s) \in S /\ ToSet(s) = {Head(s)} \cup ToSet(Tail(s))
<1>1. /\ Tail(s) \in Seq(S) /\ Head(s) = s[1] /\ Len(s) >= 1 /\ s[1] \in S
      /\ Len(Tail(s)) = Len(s) - 1 /\ \A i \in 1..Len(s) - 1 : Tail(s)[i] = s[i + 1]
  OBVIOUS
<1>2. ASSUME NEW i \in 1..Len(s), i # 1 PROVE s[i] \in ToSet(Tail(s))
  <2>1. i - 1 \in 1..Len(s) - 1 /\ (i - 1) + 1 = i
    BY <1>2
  <2>2. s[i] = Tail(s)[i - 1] /\ i - 1 \in DOMAIN Tail(s)
    BY <1>1, <2>1
  <2> QED
    BY <2>2 DEF ToSet
<1>3. ToSet(s) \subseteq {Head(s)} \cup ToSet(Tail(s))
  BY <1>1, <1>2 DEF ToSet
<1>4. {Head(s)} \cup ToSet(Tail(s)) \subseteq ToSet(s)
  BY <1>1 DEF ToSet
<1> QED
  BY <1>1, <1>3, <1>4

-----------------------------------------------------------------------------
(* Clauses, links and precedence.                                           *)

\* The clauses that a clause links to.
Leads(clauses, id) == ToSet(Targets(ClauseOf(clauses, id)))

SequencesOK(clauses) ==
    /\ clauses \in Seq(ToSet(clauses))
    /\ \A c \in ToSet(clauses) : c.links \in Seq(ToSet(c.links))

\* Where ids are unique a clause is the one of its id.
LEMMA ClauseById ==
    ASSUME NEW clauses, UniqueIds(clauses), NEW c \in ToSet(clauses)
    PROVE  ClauseOf(clauses, c.id) = c
  BY DEF ClauseOf, UniqueIds, ToSet

\* An id of the corpus has its clause.
LEMMA ClauseOfId ==
    ASSUME NEW clauses, NEW id \in Ids(clauses)
    PROVE  ClauseOf(clauses, id) \in ToSet(clauses) /\ ClauseOf(clauses, id).id = id
  BY DEF ClauseOf, ToSet, Ids

\* The ids, by the set of the clauses.
LEMMA IdsOfRange ==
    ASSUME NEW clauses PROVE Ids(clauses) = {c.id : c \in ToSet(clauses)}
  BY DEF Ids, ToSet

\* A link of the graph is a lead from one clause to another, both among those chosen.
LEMMA LinkIsLead ==
    ASSUME NEW clauses, UniqueIds(clauses), NEW among \in SUBSET Ids(clauses), NEW s, NEW t
    PROVE  <<s, t>> \in LinksAmong(clauses, among)
               <=> s \in among /\ t \in among /\ t \in Leads(clauses, s)
<1>1. <<s, t>> \in LinksAmong(clauses, among) <=>
          \E c \in ToSet(clauses) : c.id = s /\ s \in among /\ t \in among /\ t \in ToSet(Targets(c))
  BY ClauseById DEF LinksAmong
<1>2. ASSUME s \in among PROVE ClauseOf(clauses, s) \in ToSet(clauses) /\ ClauseOf(clauses, s).id = s
  BY <1>2, ClauseOfId
<1> QED
  BY <1>1, <1>2, ClauseById DEF Leads

\* S holds what c leads to within `among`, and what its own members lead to.
Closed(clauses, among, c, S) ==
    \A s, t \in among : (s = c \/ s \in S) /\ t \in Leads(clauses, s) => t \in S

\* What precedes: every closed set the clause leads into holds it.
LEMMA PrecedesByLeads ==
    ASSUME NEW clauses, UniqueIds(clauses), NEW among \in SUBSET Ids(clauses), NEW c, NEW t
    PROVE  Precedes(clauses, among, c, t)
               <=> \A S \in SUBSET among : Closed(clauses, among, c, S) => t \in S
<1>1. ASSUME NEW S \in SUBSET among
      PROVE  Closed(clauses, among, c, S) <=>
                 (\A link \in LinksAmong(clauses, among) :
                     link[1] = c \/ link[1] \in S => link[2] \in S)
  <2>1. \A link \in LinksAmong(clauses, among) :
            link = <<link[1], link[2]>> /\ link[1] \in among /\ link[2] \in among
    BY DEF LinksAmong
  <2>2. \A s, u : <<s, u>> \in LinksAmong(clauses, among)
                      <=> s \in among /\ u \in among /\ u \in Leads(clauses, s)
    BY LinkIsLead
  <2>3. ASSUME Closed(clauses, among, c, S), NEW link \in LinksAmong(clauses, among),
               link[1] = c \/ link[1] \in S
        PROVE  link[2] \in S
    BY <2>1, <2>2, <2>3 DEF Closed
  <2>4. ASSUME \A link \in LinksAmong(clauses, among) :
                   link[1] = c \/ link[1] \in S => link[2] \in S,
               NEW s \in among, NEW u \in among, s = c \/ s \in S, u \in Leads(clauses, s)
        PROVE  u \in S
    <3>1. <<s, u>> \in LinksAmong(clauses, among)
      BY <2>2, <2>4
    <3>2. <<s, u>>[1] = s /\ <<s, u>>[2] = u
      OBVIOUS
    <3> QED
      BY <2>4, <3>1, <3>2
  <2> QED
    BY <2>3, <2>4 DEF Closed
<1> QED
  BY <1>1 DEF Precedes

\* A link gives precedence, and precedence passes on along links.
LEMMA PrecedesExtends ==
    ASSUME NEW clauses, UniqueIds(clauses), NEW among \in SUBSET Ids(clauses),
           NEW c \in among, NEW s \in among, NEW t \in among, t \in Leads(clauses, s),
           s = c \/ Precedes(clauses, among, c, s)
    PROVE  Precedes(clauses, among, c, t)
  BY PrecedesByLeads DEF Closed

\* A closed set holds all that the clause takes precedence over.
LEMMA PrecedesWithin ==
    ASSUME NEW clauses, UniqueIds(clauses), NEW among \in SUBSET Ids(clauses), NEW c, NEW t,
           NEW S \in SUBSET among, Closed(clauses, among, c, S), Precedes(clauses, among, c, t)
    PROVE  t \in S
  BY PrecedesByLeads

\* Sets with more than one element.
LEMMA TwoElements ==
    ASSUME NEW S, IsFiniteSet(S), NEW a \in S, NEW b \in S, a # b
    PROVE  Cardinality(S) > 1
<1>1. {a, b} \in SUBSET S
  OBVIOUS
<1>2. Cardinality({a}) = 1 /\ IsFiniteSet({a})
  BY FS_Singleton
<1>3. Cardinality({a} \cup {b}) = 2 /\ {a} \cup {b} = {a, b}
  BY <1>2, FS_AddElement
<1>4. Cardinality({a, b}) =< Cardinality(S)
  BY <1>1, FS_Subset
<1>5. Cardinality(S) \in Nat
  BY FS_CardinalityType
<1> QED
  BY <1>3, <1>4, <1>5

\* A set of more than one member has another one.
LEMMA AnotherElement ==
    ASSUME NEW S, IsFiniteSet(S), Cardinality(S) > 1, NEW a \in S
    PROVE  \E b \in S : b # a
<1> SUFFICES ASSUME \A b \in S : b = a PROVE FALSE
  OBVIOUS
<1>1. S = {a}
  OBVIOUS
<1>2. Cardinality(S) = 1
  BY <1>1, FS_Singleton
<1> QED
  BY <1>2

\* The values of a finite set under a function.
LEMMA FiniteImage ==
    ASSUME NEW S, IsFiniteSet(S), NEW f, DOMAIN f = S, NEW T, T = {f[x] : x \in S}
    PROVE  IsFiniteSet(T)
<1> DEFINE g == [x \in S |-> f[x]]
<1>1. g \in Surjection(S, T)
  BY DEF Surjection
<1> QED
  BY <1>1, FS_Surjection

-----------------------------------------------------------------------------
(* validate_corpus.                                                         *)

InputOK == SequencesOK(corpus) /\ None \notin Ids(corpus)

Before(s, t) == Precedes(corpus, Ids(corpus), s, t)
Frame == [id : Ids(corpus), rest : Seq(Ids(corpus))]

\* On the stack each clause takes precedence over those above it; a frame still has
\* to visit every target that is neither visited nor next on the stack; and nothing
\* leads out of the visited clauses, so none of them is on a cycle.
Chain(p) == \A i, j \in 1..Len(p) : i < j => p[i].id # p[j].id /\ Before(p[i].id, p[j].id)
Left(p, ed) ==
    \A i \in 1..Len(p) :
        /\ ToSet(p[i].rest) \subseteq Leads(corpus, p[i].id)
        /\ \A t \in Leads(corpus, p[i].id) :
              t \in ed \/ t \in ToSet(p[i].rest) \/ (i < Len(p) /\ t = p[i + 1].id)
Finished(ed) == \A id \in ed : ~Before(id, id) /\ Leads(corpus, id) \subseteq ed

Walked(p, ing, ed, n) ==
    /\ p \in Seq(Frame)
    /\ ing = {p[i].id : i \in 1..Len(p)}
    /\ ed \subseteq Ids(corpus) /\ ing \cap ed = {}
    /\ \A j \in 1..n : corpus[j].id \in ing \cup ed
    /\ Chain(p) /\ Left(p, ed) /\ Finished(ed)

\* In a corpus whose links are checked, the targets are clauses of the corpus.
LEMMA TargetsKnown ==
    ASSUME InputOK, WellFormed, NEW id \in Ids(corpus)
    PROVE  /\ Targets(ClauseOf(corpus, id)) \in Seq(Ids(corpus))
           /\ Leads(corpus, id) \subseteq Ids(corpus)
<1> DEFINE c == ClauseOf(corpus, id)
<1>1. c \in ToSet(corpus)
  BY ClauseOfId
<1>2. c.links \in Seq(ToSet(c.links))
  BY <1>1 DEF InputOK, SequencesOK
<1>3. \A k \in DOMAIN c.links : c.links[k].target \in Ids(corpus)
  BY <1>1 DEF WellFormed, LinksOK, LinkOK, ToSet
<1> HIDE DEF c
<1>4. Targets(c) \in Seq(Ids(corpus))
  BY <1>2, <1>3 DEF Targets
<1>5. ToSet(Targets(c)) \subseteq Ids(corpus)
  BY <1>4 DEF ToSet
<1> QED
  BY <1>4, <1>5 DEF Leads, c

\* visit() enters a clause: it is put on the stack with all its targets.
LEMMA EnterSound ==
    ASSUME InputOK, WellFormed, NEW n \in Nat,
           NEW p \in Seq(Frame), NEW ing, NEW ed \in SUBSET Ids(corpus), NEW id \in Ids(corpus),
           ing = {p[i].id : i \in 1..Len(p)}, ing \cap ed = {}, id \notin ing, id \notin ed,
           \A j \in 1..n : corpus[j].id \in ing \cup ed \cup {id},
           Chain(p), Finished(ed),
           \A i \in 1..Len(p) : Before(p[i].id, id),
           \A i \in 1..Len(p) :
               /\ ToSet(p[i].rest) \subseteq Leads(corpus, p[i].id)
               /\ \A t \in Leads(corpus, p[i].id) :
                     \/ t \in ed \/ t \in ToSet(p[i].rest)
                     \/ (i < Len(p) /\ t = p[i + 1].id)
                     \/ i = Len(p) /\ t = id
    PROVE  Walked(Append(p, [id |-> id, rest |-> Targets(ClauseOf(corpus, id))]),
                  ing \cup {id}, ed, n)
<1> DEFINE top == [id |-> id, rest |-> Targets(ClauseOf(corpus, id))]
           q == Append(p, top)
<1>1. top \in Frame /\ top.id = id /\ ToSet(top.rest) = Leads(corpus, id)
  BY TargetsKnown DEF Frame, Leads
<1> HIDE DEF top
<1>2. /\ q \in Seq(Frame) /\ Len(q) = Len(p) + 1 /\ Len(p) \in Nat /\ q[Len(q)] = top
      /\ \A i \in 1..Len(p) : q[i] = p[i]
  BY <1>1, RangeOfAppend
<1> HIDE DEF q
<1>3. ing \cup {id} = {q[i].id : i \in 1..Len(q)}
  BY <1>1, <1>2
<1>4. Chain(q)
  BY <1>1, <1>2 DEF Chain
<1>5. Left(q, ed)
  <2> SUFFICES ASSUME NEW i \in 1..Len(q)
               PROVE  /\ ToSet(q[i].rest) \subseteq Leads(corpus, q[i].id)
                      /\ \A t \in Leads(corpus, q[i].id) :
                            t \in ed \/ t \in ToSet(q[i].rest) \/ (i < Len(q) /\ t = q[i + 1].id)
    BY DEF Left
  <2>1. CASE i = Len(q)
    BY <1>1, <1>2, <2>1
  <2>2. CASE i # Len(q)
    <3>1. i \in 1..Len(p) /\ q[i] = p[i] /\ i < Len(q)
      BY <1>2, <2>2
    <3>2. i < Len(p) => q[i + 1] = p[i + 1]
      BY <1>2, <3>1
    <3>3. i = Len(p) => q[i + 1] = top
      BY <1>2, <3>1
    <3> QED
      BY <1>1, <3>1, <3>2, <3>3
  <2> QED
    BY <2>1, <2>2
<1> QED
  BY <1>2, <1>3, <1>4, <1>5 DEF Walked, q, top

\* visit() leaves a clause: everything it leads to was visited, so nothing leads back.
LEMMA LeaveSound ==
    ASSUME InputOK, WellFormed, NEW n \in Nat, NEW p, NEW ing, NEW ed,
           Walked(p, ing, ed, n), p # <<>>, Last(p).rest = <<>>
    PROVE  Walked(Front(p), ing \ {Last(p).id}, ed \cup {Last(p).id}, n)
<1> DEFINE q == Front(p)
           id == Last(p).id
           fin == ed \cup {id}
<1>1. /\ p \in Seq(Frame) /\ ing = {p[i].id : i \in 1..Len(p)}
      /\ ed \subseteq Ids(corpus) /\ ing \cap ed = {}
      /\ Chain(p) /\ Left(p, ed) /\ Finished(ed)
      /\ \A j \in 1..n : corpus[j].id \in ing \cup ed
  BY DEF Walked
<1>2. /\ q \in Seq(Frame) /\ Len(q) = Len(p) - 1 /\ Len(p) >= 1 /\ Len(p) \in Nat
      /\ \A i \in 1..Len(p) - 1 : q[i] = p[i]
      /\ Last(p) = p[Len(p)] /\ Last(p) \in Frame
  BY <1>1, RangeOfFront DEF Last
<1>3. id \in Ids(corpus) /\ id \in ing /\ id \notin ed
  <2>1. id \in Ids(corpus)
    BY <1>2 DEF Frame
  <2>2. Len(p) \in 1..Len(p) /\ p[Len(p)].id = id
    BY <1>2
  <2> QED
    BY <1>1, <2>1, <2>2
<1>4. Leads(corpus, id) \subseteq ed
  <2>1. ToSet(<<>>) = {}
    BY DEF ToSet
  <2> QED
    BY <1>1, <1>2, <2>1 DEF Left
<1>5. ~Before(id, id)
  <2>1. UniqueIds(corpus) /\ ed \in SUBSET Ids(corpus)
    BY <1>1 DEF WellFormed
  <2>2. Closed(corpus, Ids(corpus), id, ed)
    BY <1>1, <1>4 DEF Closed, Finished
  <2> QED
    BY <1>3, <2>1, <2>2, PrecedesWithin DEF Before
<1> HIDE DEF q, id
<1>6. \A i \in 1..Len(q) : q[i] = p[i] /\ i \in 1..Len(p) /\ i < Len(p)
  BY <1>2
<1>7. ing \ {id} = {q[i].id : i \in 1..Len(q)}
  <2>1. \A i \in 1..Len(q) : p[i].id # id
    BY <1>1, <1>2, <1>6 DEF Chain, id
  <2>2. \A i \in 1..Len(p) : i = Len(p) \/ i \in 1..Len(q)
    BY <1>2
  <2>3. p[Len(p)].id = id
    BY <1>2 DEF id
  <2> QED
    BY <1>1, <1>6, <2>1, <2>2, <2>3
<1>8. Chain(q)
  BY <1>1, <1>6 DEF Chain
<1>9. Finished(fin)
  BY <1>1, <1>4, <1>5 DEF Finished
<1>10. Left(q, fin)
  <2> SUFFICES ASSUME NEW i \in 1..Len(q)
               PROVE  /\ ToSet(q[i].rest) \subseteq Leads(corpus, q[i].id)
                      /\ \A t \in Leads(corpus, q[i].id) :
                            t \in fin \/ t \in ToSet(q[i].rest) \/ (i < Len(q) /\ t = q[i + 1].id)
    BY DEF Left
  <2>1. i < Len(q) => q[i + 1] = p[i + 1]
    BY <1>2
  <2>2. ~(i < Len(q)) => p[i + 1].id = id
    BY <1>2 DEF id
  <2> QED
    BY <1>1, <1>6, <2>1, <2>2 DEF Left
<1> QED
  BY <1>1, <1>2, <1>3, <1>7, <1>8, <1>9, <1>10 DEF Walked, q, id

\* visit() of a target: refused on the stack, skipped when it was visited, or entered.
LEMMA TargetSound ==
    ASSUME InputOK, WellFormed, at \in Nat, Walked(path, visiting, visited, at),
           path # <<>>, Last(path).rest # <<>>,
           Visit(Head(Last(path).rest), [path EXCEPT ![Len(path)].rest = Tail(@)])
    PROVE  \/ phase' = "rejected" /\ Cyclic(corpus)
           \/ phase' = phase /\ Walked(path', visiting', visited', at)
<1> DEFINE top == Last(path)
           id == Head(top.rest)
           rest == Tail(top.rest)
           lower == [id |-> top.id, rest |-> rest]
           below == [path EXCEPT ![Len(path)].rest = Tail(@)]
<1>1. /\ path \in Seq(Frame) /\ visiting = {path[i].id : i \in 1..Len(path)}
      /\ visited \in SUBSET Ids(corpus) /\ visiting \cap visited = {}
      /\ Chain(path) /\ Left(path, visited) /\ Finished(visited)
      /\ \A j \in 1..at : corpus[j].id \in visiting \cup visited
  BY DEF Walked
<1>2. /\ Len(path) \in Nat /\ Len(path) >= 1 /\ top = path[Len(path)] /\ top \in Frame
  BY <1>1, RangeOfFront DEF Last
<1> HIDE DEF top
<1>3. /\ top.id \in Ids(corpus) /\ top.rest \in Seq(Ids(corpus)) /\ Len(path) \in 1..Len(path)
      /\ ToSet(top.rest) \subseteq Leads(corpus, top.id)
      /\ \A t \in Leads(corpus, top.id) : t \in visited \/ t \in ToSet(top.rest)
  <2>1. top.id \in Ids(corpus) /\ top.rest \in Seq(Ids(corpus)) /\ Len(path) \in 1..Len(path)
    BY <1>2 DEF Frame
  <2>2. Left(path, visited)
    BY <1>1
  <2>3. ASSUME NEW i \in 1..Len(path), i = Len(path), path[i] = top
        PROVE  /\ ToSet(top.rest) \subseteq Leads(corpus, top.id)
               /\ \A t \in Leads(corpus, top.id) : t \in visited \/ t \in ToSet(top.rest)
    BY <1>2, <2>2, <2>3 DEF Left
  <2> QED
    BY <1>2, <2>1, <2>3
<1>4. /\ rest \in Seq(Ids(corpus)) /\ id \in Ids(corpus) /\ ToSet(top.rest) = {id} \cup ToSet(rest)
  <2>1. top.rest # <<>>
    BY DEF top
  <2> QED
    BY <1>3, <2>1, RangeOfTail
<1>5. id \in Leads(corpus, top.id)
  BY <1>3, <1>4
<1>6. \A i \in 1..Len(path) : path[i].id \in Ids(corpus) /\ Before(path[i].id, id)
  <2>1. ASSUME NEW i \in 1..Len(path) PROVE path[i].id \in Ids(corpus)
    <3>1. path[i] \in Frame
      BY <1>1
    <3> QED
      BY <3>1 DEF Frame
  <2>2. ASSUME NEW i \in 1..Len(path) PROVE path[i].id = top.id \/ Before(path[i].id, top.id)
    BY <1>1, <1>2 DEF Chain
  <2>3. UniqueIds(corpus) /\ Ids(corpus) \in SUBSET Ids(corpus)
    BY DEF WellFormed
  <2> QED
    BY <1>3, <1>4, <1>5, <2>1, <2>2, <2>3, PrecedesExtends DEF Before
<1>7. /\ below \in Seq(Frame) /\ Len(below) = Len(path)
      /\ \A i \in 1..Len(path) : /\ below[i].id = path[i].id
                                 /\ i < Len(path) => below[i].rest = path[i].rest
      /\ below[Len(path)].rest = rest
  <2>1. lower \in Frame
    BY <1>3, <1>4 DEF Frame
  <2>2. below = [path EXCEPT ![Len(path)] = lower]
    <3>1. ASSUME NEW f \in Frame, NEW r PROVE [f EXCEPT !.rest = r] = [id |-> f.id, rest |-> r]
      BY DEF Frame
    <3>2. [top EXCEPT !.rest = rest] = lower
      BY <1>2, <3>1
    <3> QED
      BY <1>1, <1>2, <3>2
  <2> HIDE DEF lower, below
  <2>3. below \in Seq(Frame) /\ Len(below) = Len(path) /\ below[Len(path)] = lower
        /\ \A i \in 1..Len(path) : i < Len(path) => below[i] = path[i]
    BY <1>1, <1>2, <2>1, <2>2
  <2>4. lower.id = path[Len(path)].id /\ lower.rest = rest
    BY <1>2 DEF lower
  <2> QED
    BY <1>2, <2>3, <2>4
<1> HIDE DEF below, rest, id, top, lower
<1>8. visiting = {below[i].id : i \in 1..Len(below)}
  BY <1>1, <1>7
<1>9. Chain(below)
  BY <1>1, <1>7 DEF Chain
<1>10. \A i \in 1..Len(below) :
           /\ ToSet(below[i].rest) \subseteq Leads(corpus, below[i].id)
           /\ \A t \in Leads(corpus, below[i].id) :
                 \/ t \in visited \/ t \in ToSet(below[i].rest)
                 \/ (i < Len(below) /\ t = below[i + 1].id)
                 \/ (i = Len(below) /\ t = id)
  <2> SUFFICES ASSUME NEW i \in 1..Len(below)
               PROVE  /\ ToSet(below[i].rest) \subseteq Leads(corpus, below[i].id)
                      /\ \A t \in Leads(corpus, below[i].id) :
                            \/ t \in visited \/ t \in ToSet(below[i].rest)
                            \/ (i < Len(below) /\ t = below[i + 1].id)
                            \/ (i = Len(below) /\ t = id)
    OBVIOUS
  <2>1. CASE i = Len(below)
    <3>1. /\ i = Len(path) /\ path[i] = top /\ below[i].id = top.id /\ below[i].rest = rest
      BY <1>2, <1>7, <2>1
    <3> QED
      BY <1>3, <1>4, <2>1, <3>1
  <2>2. CASE i < Len(below)
    <3>1. i + 1 \in 1..Len(path) /\ below[i + 1].id = path[i + 1].id
      BY <1>2, <1>7, <2>2
    <3> QED
      BY <1>1, <1>7, <2>2, <3>1 DEF Left
  <2> QED
    BY <1>2, <1>7, <2>1, <2>2
<1>11. Visit(id, below)
  BY DEF id, below, top
<1>12. CASE id \in visiting
  <2>1. phase' = "rejected"
    BY <1>1, <1>11, <1>12 DEF Visit
  <2>2. Cyclic(corpus)
    BY <1>1, <1>4, <1>6, <1>12 DEF Cyclic, Before
  <2> QED
    BY <2>1, <2>2
<1>13. CASE id \notin visiting /\ id \in visited
  <2>1. path' = below /\ UNCHANGED <<phase, visiting, visited>>
    BY <1>11, <1>13 DEF Visit
  <2>2. Left(below, visited)
    BY <1>10, <1>13 DEF Left
  <2> QED
    BY <1>1, <1>7, <1>8, <1>9, <2>1, <2>2 DEF Walked
<1>14. CASE id \notin visiting /\ id \notin visited
  <2>1. /\ path' = Append(below, [id |-> id, rest |-> Targets(ClauseOf(corpus, id))])
        /\ visiting' = visiting \cup {id} /\ UNCHANGED <<phase, visited>>
    BY <1>11, <1>14 DEF Visit
  <2>2. \A i \in 1..Len(below) : Before(below[i].id, id)
    BY <1>6, <1>7
  <2>3. \A j \in 1..at : corpus[j].id \in visiting \cup visited \cup {id}
    BY <1>1
  <2>4. Walked(Append(below, [id |-> id, rest |-> Targets(ClauseOf(corpus, id))]),
               visiting \cup {id}, visited, at)
    BY <1>1, <1>4, <1>7, <1>8, <1>9, <1>10, <1>14, <2>2, <2>3, EnterSound
  <2> QED
    BY <2>1, <2>4
<1> QED
  BY <1>12, <1>13, <1>14

\* visit() of the next clause of the corpus, with nothing on the stack.
LEMMA RootSound ==
    ASSUME InputOK, WellFormed, at \in Nat, at < Len(corpus),
           Walked(path, visiting, visited, at), path = <<>>,
           Visit(corpus[at + 1].id, <<>>)
    PROVE  phase' = phase /\ Walked(path', visiting', visited', at + 1)
<1> DEFINE id == corpus[at + 1].id
<1>1. corpus \in Seq(ToSet(corpus)) /\ at + 1 \in 1..Len(corpus)
  BY DEF InputOK, SequencesOK
<1>2. id \in Ids(corpus)
  BY <1>1 DEF Ids
<1>3. /\ visiting = {} /\ visited \in SUBSET Ids(corpus) /\ Finished(visited)
      /\ \A j \in 1..at : corpus[j].id \in visited
  BY DEF Walked
<1>4. /\ <<>> \in Seq(Frame) /\ Len(<<>>) = 0 /\ Chain(<<>>) /\ Left(<<>>, visited)
  BY DEF Chain, Left
<1>5. \A j \in 1..at + 1 : corpus[j].id \in visited \cup {id}
  BY <1>3
<1> HIDE DEF id
<1>6. Visit(id, <<>>)
  BY DEF id
<1>7. CASE id \in visited
  <2>1. path' = <<>> /\ UNCHANGED <<phase, visiting, visited>>
    BY <1>3, <1>6, <1>7 DEF Visit
  <2> QED
    BY <1>3, <1>4, <1>5, <1>7, <2>1 DEF Walked
<1>8. CASE id \notin visited
  <2>1. /\ path' = Append(<<>>, [id |-> id, rest |-> Targets(ClauseOf(corpus, id))])
        /\ visiting' = visiting \cup {id} /\ UNCHANGED <<phase, visited>>
    BY <1>3, <1>6, <1>8 DEF Visit
  <2> DEFINE none == <<>>
  <2>2. /\ none \in Seq(Frame) /\ 1..Len(none) = {} /\ {} = {none[i].id : i \in 1..Len(none)}
        /\ Chain(none) /\ at + 1 \in Nat
    BY <1>4
  <2> HIDE DEF none
  <2>3. \A j \in 1..at + 1 : corpus[j].id \in {} \cup visited \cup {id}
    BY <1>5
  <2>4. Walked(Append(none, [id |-> id, rest |-> Targets(ClauseOf(corpus, id))]),
               {} \cup {id}, visited, at + 1)
    BY <1>2, <1>3, <1>8, <2>2, <2>3, EnterSound
  <2> QED
    BY <1>3, <2>1, <2>4 DEF none
<1> QED
  BY <1>7, <1>8

-----------------------------------------------------------------------------
(* resolve: what holds after some clauses of each loop.                     *)

\* What a filter of the first n clauses leaves.
Kept(el, n) ==
    /\ el \in Seq(ToSet(corpus)) /\ UniqueIds(el) /\ Len(el) =< n
    /\ ToSet(el) = {corpus[j] : j \in {k \in 1..n : AppliesTo(corpus[k], context)}}

\* Clause j of the eligible ones takes precedence over t; the last of the first n that does.
Wins(el, j, t) == Precedes(corpus, Ids(el), el[j].id, t)
LastWinner(el, t, n, winner) ==
    \/ winner = None /\ \A j \in 1..n : ~Wins(el, j, t)
    \/ \E j \in 1..n : /\ Wins(el, j, t) /\ winner = el[j].id
                       /\ \A k \in 1..n : Wins(el, k, t) => k =< j

\* The work list of the n-th clause: what was seen or waits is what the clause
\* takes precedence over, and nothing it leads to is forgotten.
Reached(el, p, s, n) ==
    /\ \A t \in Ids(el) : t \in s \/ t \in ToSet(p) => Wins(el, n, t)
    /\ \A u, t \in Ids(el) : t \in Leads(corpus, u) /\ (u = el[n].id \/ u \in s)
                                 => t \in s \/ t \in ToSet(p)
Displacing(el, p, s, n, d) ==
    /\ n \in 0..Len(el)
    /\ p \in Seq(Ids(corpus)) /\ s \subseteq Ids(el)
    /\ d \in [Ids(corpus) -> Ids(corpus) \cup {None}]
    /\ IF n = 0 THEN p = <<>> /\ s = {} ELSE Reached(el, p, s, n)
    /\ \A t \in Ids(el) : IF t \in s THEN d[t] = el[n].id ELSE LastWinner(el, t, n - 1, d[t])
AllDisplaced(el, d) ==
    /\ d \in [Ids(corpus) -> Ids(corpus) \cup {None}]
    /\ \A t \in Ids(el) : LastWinner(el, t, Len(el), d[t])

\* The explanation after n clauses of the corpus and m eligible ones.
Decision == [id : Ids(corpus), related : Ids(corpus) \cup {None},
             decision : {"outside_date", "outside_audience", "overridden", "applies"}]
Explained(el, st, n, m) ==
    /\ st \in Seq(Decision)
    /\ Len(st) = (n - Len(el)) + m
    /\ {st[i].id : i \in 1..Len(st)}
           = {corpus[j].id : j \in {k \in 1..n : ~AppliesTo(corpus[k], context)}}
             \cup {el[j].id : j \in 1..m}
    /\ \A i \in 1..Len(st) : st[i].decision \in {"applies", "overridden"} => st[i].id \in Ids(el)
Chosen(el, sel, st, d, m) ==
    /\ sel \in Seq(ToSet(corpus))
    /\ ToSet(sel) = {el[j] : j \in {k \in 1..m : d[el[k].id] = None}}
    /\ {st[i].id : i \in {k \in 1..Len(st) : st[k].decision = "applies"}} = Ids(sel)

-----------------------------------------------------------------------------
(* The inductive invariant, by phase.                                       *)

Typed ==
    /\ phase \in Phases /\ at \in Nat
    /\ InputOK
    /\ \A c \in ToSet(corpus) : c.start \in Nat /\ c.end \in Nat \cup {None}
    /\ context.day \in Nat

Checked ==
    /\ phase = "check" => path = <<>> /\ visiting = {} /\ visited = {} /\ at = 0
    /\ phase = "visit" => WellFormed /\ at =< Len(corpus) /\ Walked(path, visiting, visited, at)
    /\ phase = "rejected" => ~WellFormed \/ Cyclic(corpus)
    /\ phase \in {"filter", "displace", "select", "done"} => WellFormed /\ ~Cyclic(corpus)

Blank ==
    /\ phase \in {"check", "visit"} => eligible = <<>> /\ steps = <<>>
    /\ phase \in {"check", "visit", "filter"} =>
           pending = <<>> /\ seen = {} /\ displaced = [id \in Ids(corpus) |-> None]
    /\ phase \in {"check", "visit", "filter", "displace"} => selected = <<>>

Filtering ==
    /\ phase = "filter" => at =< Len(corpus) /\ Kept(eligible, at)
    /\ phase \in {"displace", "select", "done"} => Kept(eligible, Len(corpus))

Spreading ==
    /\ phase = "displace" => Displacing(eligible, pending, seen, at, displaced)
    /\ phase \in {"select", "done"} => AllDisplaced(eligible, displaced)

Selecting ==
    /\ phase = "filter" => Explained(eligible, steps, at, 0)
    /\ phase = "displace" => Explained(eligible, steps, Len(corpus), 0)
    /\ phase \in {"filter", "displace"} => Chosen(eligible, selected, steps, displaced, 0)
    /\ phase = "select" =>
           /\ at =< Len(eligible)
           /\ Explained(eligible, steps, Len(corpus), at)
           /\ Chosen(eligible, selected, steps, displaced, at)
    /\ phase = "done" =>
           /\ Explained(eligible, steps, Len(corpus), Len(eligible))
           /\ Chosen(eligible, selected, steps, displaced, Len(eligible))
           /\ conflicts = {group \in {Group(c.key) : c \in ToSet(selected)} :
                               Cardinality({c.value : c \in group}) > 1}

IInv == Typed /\ Checked /\ Blank /\ Filtering /\ Spreading /\ Selecting

-----------------------------------------------------------------------------
(* The invariant, one part at a time.                                       *)

\* It holds initially.
LEMMA InitIInv == Init => IInv
<1> SUFFICES ASSUME Init PROVE IInv
  OBVIOUS
<1>1. PICK i \in Inputs : corpus = i.clauses /\ context \in i.contexts
  BY DEF Init
<1>2. /\ phase = "check" /\ at = 0 /\ path = <<>> /\ visiting = {} /\ visited = {}
      /\ eligible = <<>> /\ pending = <<>> /\ seen = {} /\ selected = <<>> /\ steps = <<>>
      /\ displaced = [id \in Ids(corpus) |-> None]
  BY DEF Init
<1>3. Typed
  BY <1>1, <1>2, InputsAssumption DEF Typed, Phases, InputOK, SequencesOK
<1>4. Checked
  BY <1>2 DEF Checked
<1>5. Blank
  BY <1>2 DEF Blank
<1>6. Filtering
  BY <1>2 DEF Filtering
<1>7. Spreading
  BY <1>2 DEF Spreading
<1>8. Selecting
  BY <1>2 DEF Selecting
<1> QED
  BY <1>3, <1>4, <1>5, <1>6, <1>7, <1>8 DEF IInv

\* No step touches the input.
LEMMA InputKept == ASSUME [Next]_vars PROVE UNCHANGED <<documents, corpus, context>>
<1>1. CASE UNCHANGED vars
  BY <1>1 DEF vars, input
<1>2. CASE CheckLinks
  BY <1>2, Zenon DEF CheckLinks, input
<1>3. CASE VisitRoot
  BY <1>3, Zenon DEF VisitRoot, input
<1>4. CASE VisitTarget
  BY <1>4, Zenon DEF VisitTarget, input
<1>5. CASE Leave
  BY <1>5, Zenon DEF Leave, input
<1>6. CASE Accept
  BY <1>6, Zenon DEF Accept, input
<1>7. CASE Filter
  BY <1>7, Zenon DEF Filter, input
<1>8. CASE Filtered
  BY <1>8, Zenon DEF Filtered, input
<1>9. CASE DisplaceFrom
  BY <1>9, Zenon DEF DisplaceFrom, input
<1>10. CASE Displace
  BY <1>10, Zenon DEF Displace, input
<1>11. CASE Displaced
  BY <1>11, Zenon DEF Displaced, input
<1>12. CASE Select
  BY <1>12, Zenon DEF Select, input
<1>13. CASE Selected
  BY <1>13, Zenon DEF Selected, input
<1> QED
  BY <1>1, <1>2, <1>3, <1>4, <1>5, <1>6, <1>7, <1>8, <1>9, <1>10, <1>11, <1>12, <1>13 DEF Next

\* What is asked of the input alone stays as it is.
LEMMA SameInput ==
    ASSUME UNCHANGED <<documents, corpus, context>>
    PROVE  /\ InputOK' <=> InputOK
           /\ WellFormed' <=> WellFormed
           /\ Cyclic(corpus)' <=> Cyclic(corpus)
<1>1. InputOK' <=> InputOK
  BY DEF InputOK
<1>2. WellFormed' <=> WellFormed
  BY DEF WellFormed
<1>3. Cyclic(corpus)' <=> Cyclic(corpus)
  BY DEF Cyclic
<1> QED
  BY <1>1, <1>2, <1>3

\* Every step keeps the types.
LEMMA StepTyped == ASSUME IInv, [Next]_vars PROVE Typed'
<1>1. UNCHANGED <<documents, corpus, context>> /\ InputOK'
  BY InputKept, SameInput DEF IInv, Typed
<1>2. phase' \in Phases /\ at' \in Nat
  <2>1. CASE UNCHANGED vars
    BY <2>1 DEF vars, IInv, Typed
  <2>2. CASE CheckLinks
    BY <2>2, Zenon DEF CheckLinks, IInv, Typed, Phases
  <2>3. CASE VisitRoot
    <3>1. at' = at + 1 /\ Visit(corpus[at + 1].id, <<>>)
      BY <2>3, Zenon DEF VisitRoot
    <3> QED
      BY <3>1 DEF Visit, IInv, Typed, Phases
  <2>4. CASE VisitTarget
    <3>1. at' = at /\ \E id, below : Visit(id, below)
      BY <2>4, Zenon DEF VisitTarget
    <3> QED
      BY <3>1, Zenon DEF Visit, IInv, Typed, Phases
  <2>5. CASE Leave
    BY <2>5, Zenon DEF Leave, IInv, Typed
  <2>6. CASE Accept \/ Filtered \/ Displaced \/ Selected
    <3>1. phase' \in {"filter", "displace", "select", "done"} /\ at' = 0
      BY <2>6, Zenon DEF Accept, Filtered, Displaced, Selected
    <3> QED
      BY <3>1 DEF Phases
  <2>7. CASE Filter \/ DisplaceFrom \/ Select
    <3>1. phase' = phase /\ at' = at + 1
      BY <2>7, Zenon DEF Filter, DisplaceFrom, Select
    <3> QED
      BY <3>1 DEF IInv, Typed
  <2>8. CASE Displace
    <3>1. phase' = phase /\ at' = at
      BY <2>8, Zenon DEF Displace
    <3> QED
      BY <3>1 DEF IInv, Typed
  <2> QED
    BY <2>1, <2>2, <2>3, <2>4, <2>5, <2>6, <2>7, <2>8 DEF Next
<1> QED
  BY <1>1, <1>2 DEF IInv, Typed

\* The walk is described by the corpus alone.
LEMMA WalkedStays ==
    ASSUME UNCHANGED corpus, Walked(path', visiting', visited', at')
    PROVE  Walked(path, visiting, visited, at)'
  BY DEF Walked, Chain, Left, Finished, Before, Frame

\* Every step keeps what the checks of the links and of the cycles have found.
LEMMA StepChecked == ASSUME IInv, [Next]_vars PROVE Checked'
<1>1. UNCHANGED corpus /\ (WellFormed' <=> WellFormed) /\ (Cyclic(corpus)' <=> Cyclic(corpus))
  BY InputKept, SameInput
<1>2. InputOK /\ at \in Nat /\ Checked
  BY DEF IInv, Typed
<1>3. CASE UNCHANGED vars
  <2>1. UNCHANGED <<phase, at, path, visiting, visited>>
    BY <1>3 DEF vars, walk
  <2>2. phase = "visit" => Walked(path', visiting', visited', at')
    BY <1>2, <2>1 DEF Checked
  <2> QED
    BY <1>1, <1>2, <2>1, <2>2, WalkedStays DEF Checked
<1>4. CASE CheckLinks
  <2>1. phase = "check" /\ phase' = (IF WellFormed THEN "visit" ELSE "rejected")
        /\ UNCHANGED <<at, path, visiting, visited>>
    BY <1>4, Zenon DEF CheckLinks, walk
  <2>2. path = <<>> /\ visiting = {} /\ visited = {} /\ at = 0
    BY <1>2, <2>1 DEF Checked
  <2>3. Walked(<<>>, {}, {}, 0)
    BY DEF Walked, Chain, Left, Finished
  <2>4. Walked(path, visiting, visited, at)'
    BY <1>1, <2>1, <2>2, <2>3, WalkedStays
  <2>5. corpus \in Seq(ToSet(corpus))
    BY <1>2 DEF InputOK, SequencesOK
  <2> QED
    BY <1>1, <2>1, <2>2, <2>4, <2>5 DEF Checked
<1>5. CASE VisitRoot
  <2>1. phase = "visit" /\ path = <<>> /\ at < Len(corpus) /\ at' = at + 1
        /\ Visit(corpus[at + 1].id, <<>>)
    BY <1>5, Zenon DEF VisitRoot
  <2>2. WellFormed /\ Walked(path, visiting, visited, at)
    BY <1>2, <2>1 DEF Checked
  <2>3. phase' = phase /\ Walked(path', visiting', visited', at')
    BY <1>2, <2>1, <2>2, RootSound
  <2>4. at' =< Len(corpus)
    <3>1. Len(corpus) \in Nat
      BY <1>2 DEF InputOK, SequencesOK
    <3> QED
      BY <1>2, <2>1, <3>1
  <2> QED
    BY <1>1, <2>1, <2>2, <2>3, <2>4, WalkedStays DEF Checked
<1>6. CASE VisitTarget
  <2>1. phase = "visit" /\ path # <<>> /\ Last(path).rest # <<>> /\ at' = at
        /\ Visit(Head(Last(path).rest), [path EXCEPT ![Len(path)].rest = Tail(@)])
    BY <1>6, Zenon DEF VisitTarget
  <2>2. WellFormed /\ Walked(path, visiting, visited, at) /\ at =< Len(corpus)
    BY <1>2, <2>1 DEF Checked
  <2>3. \/ phase' = "rejected" /\ Cyclic(corpus)
        \/ phase' = phase /\ Walked(path', visiting', visited', at)
    BY <1>2, <2>1, <2>2, TargetSound
  <2> QED
    BY <1>1, <2>1, <2>2, <2>3, WalkedStays DEF Checked
<1>7. CASE Leave
  <2>1. /\ phase = "visit" /\ path # <<>> /\ Last(path).rest = <<>>
        /\ visiting' = visiting \ {Last(path).id} /\ visited' = visited \cup {Last(path).id}
        /\ path' = Front(path) /\ UNCHANGED <<phase, at>>
    BY <1>7, Zenon DEF Leave
  <2>2. WellFormed /\ Walked(path, visiting, visited, at) /\ at =< Len(corpus)
    BY <1>2, <2>1 DEF Checked
  <2>3. Walked(path', visiting', visited', at')
    BY <1>2, <2>1, <2>2, LeaveSound
  <2> QED
    BY <1>1, <2>1, <2>2, <2>3, WalkedStays DEF Checked
<1>8. CASE Accept
  <2>1. phase = "visit" /\ path = <<>> /\ at = Len(corpus) /\ phase' = "filter"
    BY <1>8, Zenon DEF Accept
  <2>2. WellFormed /\ Walked(path, visiting, visited, at)
    BY <1>2, <2>1 DEF Checked
  <2>3. \A id \in Ids(corpus) : id \in visited
    <3>1. visiting = {} /\ \A j \in 1..Len(corpus) : corpus[j].id \in visiting \cup visited
      BY <2>1, <2>2 DEF Walked
    <3>2. DOMAIN corpus = 1..Len(corpus)
      BY <1>2 DEF InputOK, SequencesOK
    <3> QED
      BY <3>1, <3>2 DEF Ids
  <2>4. ~Cyclic(corpus)
    BY <2>2, <2>3 DEF Cyclic, Walked, Finished, Before
  <2> QED
    BY <1>1, <2>1, <2>2, <2>4 DEF Checked
<1>9. CASE Filter \/ Filtered \/ DisplaceFrom \/ Displace \/ Displaced \/ Select \/ Selected
  <2>1. phase \in {"filter", "displace", "select"}
        /\ phase' \in {"filter", "displace", "select", "done"}
    BY <1>9, Zenon DEF Filter, Filtered, DisplaceFrom, Displace, Displaced, Select, Selected
  <2> QED
    BY <1>1, <1>2, <2>1 DEF Checked
<1> QED
  BY <1>3, <1>4, <1>5, <1>6, <1>7, <1>8, <1>9 DEF Next

\* Every step keeps what is not yet begun empty.
LEMMA StepBlank == ASSUME IInv, [Next]_vars PROVE Blank'
<1>1. UNCHANGED <<documents, corpus, context>> /\ Blank
  BY InputKept DEF IInv
<1>2. CASE UNCHANGED vars
  BY <1>1, <1>2 DEF Blank, vars, work, result
<1>3. CASE CheckLinks \/ VisitRoot \/ VisitTarget \/ Leave \/ Accept
  <2>1. phase \in {"check", "visit"} /\ UNCHANGED <<eligible, pending, seen, displaced, selected, steps>>
    BY <1>3, Zenon DEF CheckLinks, VisitRoot, VisitTarget, Leave, Accept, work, result
  <2> QED
    BY <1>1, <2>1 DEF Blank
<1>4. CASE Filter \/ Filtered
  <2>1. phase = "filter" /\ phase' \in {"filter", "displace"} /\ UNCHANGED <<pending, seen, displaced, selected>>
    BY <1>4, Zenon DEF Filter, Filtered, work, result
  <2> QED
    BY <1>1, <2>1 DEF Blank
<1>5. CASE DisplaceFrom \/ Displace \/ Displaced
  <2>1. phase = "displace" /\ phase' \in {"displace", "select"} /\ UNCHANGED selected
    BY <1>5, Zenon DEF DisplaceFrom, Displace, Displaced, result
  <2> QED
    BY <1>1, <2>1 DEF Blank
<1>6. CASE Select \/ Selected
  <2>1. phase' \in {"select", "done"}
    BY <1>6, Zenon DEF Select, Selected
  <2> QED
    BY <2>1 DEF Blank
<1> QED
  BY <1>2, <1>3, <1>4, <1>5, <1>6 DEF Next

\* The next clause is kept when it applies, whatever came before it.
LEMMA KeptGrows ==
    ASSUME InputOK, WellFormed, NEW el, NEW n \in Nat, n < Len(corpus), Kept(el, n)
    PROVE  /\ AppliesTo(corpus[n + 1], context) => Kept(Append(el, corpus[n + 1]), n + 1)
           /\ ~AppliesTo(corpus[n + 1], context) => Kept(el, n + 1)
<1> DEFINE c == corpus[n + 1]
<1>1. /\ corpus \in Seq(ToSet(corpus)) /\ n + 1 \in 1..Len(corpus) /\ DOMAIN corpus = 1..Len(corpus)
      /\ UniqueIds(corpus)
  BY DEF InputOK, SequencesOK, WellFormed
<1>2. c \in ToSet(corpus) /\ \A k \in 1..n : k \in DOMAIN corpus /\ corpus[k].id # c.id
  BY <1>1 DEF ToSet, UniqueIds
<1>3. /\ el \in Seq(ToSet(corpus)) /\ UniqueIds(el) /\ Len(el) =< n /\ Len(el) \in Nat
      /\ ToSet(el) = {corpus[j] : j \in {k \in 1..n : AppliesTo(corpus[k], context)}}
      /\ DOMAIN el = 1..Len(el)
  BY DEF Kept
<1>4. 1..n + 1 = 1..n \cup {n + 1}
  OBVIOUS
<1>5. CASE AppliesTo(c, context)
  <2> DEFINE longer == Append(el, c)
  <2>1. /\ longer \in Seq(ToSet(corpus)) /\ Len(longer) = Len(el) + 1
        /\ \A i \in 1..Len(el) : longer[i] = el[i]
        /\ longer[Len(el) + 1] = c /\ ToSet(longer) = ToSet(el) \cup {c}
    BY <1>2, <1>3, RangeOfAppend
  <2> HIDE DEF longer
  <2>2. ToSet(longer) = {corpus[j] : j \in {k \in 1..n + 1 : AppliesTo(corpus[k], context)}}
    BY <1>3, <1>4, <1>5, <2>1
  <2>3. \A i \in 1..Len(el) : el[i].id # c.id
    <3>1. \A i \in 1..Len(el) : el[i] \in ToSet(el)
      BY <1>3 DEF ToSet
    <3> QED
      BY <1>2, <1>3, <3>1
  <2>4. UniqueIds(longer)
    <3>1. DOMAIN longer = 1..Len(el) + 1 /\ 1..Len(el) + 1 = 1..Len(el) \cup {Len(el) + 1}
      BY <1>3, <2>1
    <3> QED
      BY <1>3, <2>1, <2>3, <3>1 DEF UniqueIds
  <2> QED
    BY <1>3, <1>5, <2>1, <2>2, <2>4 DEF Kept, longer
<1>6. CASE ~AppliesTo(c, context)
  <2>1. ToSet(el) = {corpus[j] : j \in {k \in 1..n + 1 : AppliesTo(corpus[k], context)}}
    BY <1>3, <1>4, <1>6
  <2> QED
    BY <1>3, <1>6, <2>1 DEF Kept
<1> QED
  BY <1>5, <1>6

\* So are the clauses kept.
LEMMA KeptStays ==
    ASSUME UNCHANGED <<corpus, context>>, NEW el, NEW n, Kept(el, n)
    PROVE  Kept(el, n)'
  BY DEF Kept

\* What one step of the filter does.
LEMMA FilterStep ==
    ASSUME Filter
    PROVE  LET c == corpus[at + 1] IN
           /\ phase = "filter" /\ at < Len(corpus) /\ phase' = phase /\ at' = at + 1
           /\ UNCHANGED <<displaced, selected, conflicts>>
           /\ \/ /\ ~AppliesTo(c, context) /\ eligible' = eligible
                 /\ \E reason \in {"outside_date", "outside_audience"} :
                        steps' = Append(steps, [id |-> c.id, decision |-> reason, related |-> None])
              \/ AppliesTo(c, context) /\ eligible' = Append(eligible, c) /\ steps' = steps
<1>1. phase = "filter" /\ at < Len(corpus) /\ phase' = phase /\ at' = at + 1
      /\ UNCHANGED <<displaced, selected, conflicts>>
  BY Zenon DEF Filter, work
<1> DEFINE c == corpus[at + 1]
<1>2. \/ ~InPeriod(c, context.day) /\ steps' = Step(c, "outside_date", None) /\ eligible' = eligible
      \/ InPeriod(c, context.day) /\ ~AppliesTo(c, context)
             /\ steps' = Step(c, "outside_audience", None) /\ eligible' = eligible
      \/ AppliesTo(c, context) /\ eligible' = Append(eligible, c) /\ steps' = steps
  BY Zenon DEF Filter
<1>3. ~InPeriod(c, context.day) => ~AppliesTo(c, context)
  BY DEF AppliesTo
<1> QED
  BY <1>1, <1>2, <1>3, Zenon DEF Step

\* Every step keeps what the filter has decided.
LEMMA StepFiltering == ASSUME IInv, [Next]_vars PROVE Filtering'
<1>1. UNCHANGED <<documents, corpus, context>> /\ at \in Nat /\ InputOK
  BY InputKept DEF IInv, Typed
<1>2. Filtering /\ Checked /\ Blank /\ Len(corpus) \in Nat
  BY <1>1 DEF IInv, InputOK, SequencesOK
<1>3. CASE UNCHANGED vars
  <2>1. UNCHANGED <<phase, at, eligible>>
    BY <1>3 DEF vars
  <2> QED
    BY <1>1, <1>2, <2>1 DEF Filtering, Kept
<1>4. CASE CheckLinks \/ VisitRoot \/ VisitTarget \/ Leave
  <2>1. phase' \notin {"filter", "displace", "select", "done"}
    <3>1. CASE CheckLinks
      BY <3>1, Zenon DEF CheckLinks
    <3>2. CASE Leave
      BY <3>2, Zenon DEF Leave
    <3>3. CASE VisitRoot \/ VisitTarget
      <4>1. phase = "visit" /\ \E id, below : Visit(id, below)
        BY <3>3, Zenon DEF VisitRoot, VisitTarget
      <4> QED
        BY <4>1, Zenon DEF Visit
    <3> QED
      BY <1>4, <3>1, <3>2, <3>3
  <2> QED
    BY <2>1 DEF Filtering
<1>5. CASE Accept
  <2>1. phase = "visit" /\ phase' = "filter" /\ at' = 0 /\ eligible' = eligible
    BY <1>5, Zenon DEF Accept
  <2>2. eligible = <<>>
    BY <1>2, <2>1 DEF Blank
  <2>3. Kept(<<>>, 0)
    BY DEF Kept, ToSet, UniqueIds
  <2> QED
    BY <1>1, <1>2, <2>1, <2>2, <2>3, KeptStays DEF Filtering
<1>6. CASE Filter
  <2>1. /\ phase = "filter" /\ phase' = phase /\ at < Len(corpus) /\ at' = at + 1
        /\ \/ ~AppliesTo(corpus[at + 1], context) /\ eligible' = eligible
           \/ AppliesTo(corpus[at + 1], context) /\ eligible' = Append(eligible, corpus[at + 1])
    BY <1>6, FilterStep
  <2>2. WellFormed /\ Kept(eligible, at)
    BY <1>2, <2>1 DEF Checked, Filtering
  <2>3. Kept(eligible', at + 1)
    BY <1>1, <2>1, <2>2, KeptGrows
  <2>4. Kept(eligible, at)'
    BY <1>1, <2>1, <2>3 DEF Kept
  <2> QED
    BY <1>1, <1>2, <2>1, <2>4 DEF Filtering
<1>7. CASE Filtered
  <2>1. phase = "filter" /\ phase' = "displace" /\ at = Len(corpus) /\ eligible' = eligible
    BY <1>7, Zenon DEF Filtered
  <2> QED
    BY <1>1, <1>2, <2>1 DEF Filtering, Kept
<1>8. CASE DisplaceFrom \/ Displace \/ Displaced \/ Select \/ Selected
  <2>1. phase \in {"displace", "select"} /\ phase' \in {"displace", "select", "done"}
        /\ eligible' = eligible
    BY <1>8, Zenon DEF DisplaceFrom, Displace, Displaced, Select, Selected
  <2> QED
    BY <1>1, <1>2, <2>1 DEF Filtering, Kept
<1> QED
  BY <1>3, <1>4, <1>5, <1>6, <1>7, <1>8 DEF Next

\* The kept clauses are clauses of the corpus, each once.
LEMMA KeptFacts ==
    ASSUME InputOK, WellFormed, NEW el, NEW n, Kept(el, n)
    PROVE  /\ Len(el) \in Nat /\ el \in Seq(ToSet(corpus)) /\ UniqueIds(el)
           /\ Ids(el) \subseteq Ids(corpus) /\ None \notin Ids(corpus)
           /\ \A i \in 1..Len(el) : /\ el[i] \in ToSet(corpus) /\ el[i].id \in Ids(el)
                                    /\ Targets(el[i]) \in Seq(Ids(corpus))
                                    /\ ToSet(Targets(el[i])) = Leads(corpus, el[i].id)
           /\ \A id \in Ids(el) : \E i \in 1..Len(el) : id = el[i].id
           /\ \A id \in Ids(el) : ClauseOf(el, id) = ClauseOf(corpus, id)
<1>1. /\ el \in Seq(ToSet(corpus)) /\ UniqueIds(el) /\ Len(el) \in Nat /\ DOMAIN el = 1..Len(el)
      /\ UniqueIds(corpus) /\ None \notin Ids(corpus)
  BY DEF Kept, WellFormed, InputOK
<1>2. \A i \in 1..Len(el) : el[i] \in ToSet(corpus) /\ el[i].id \in Ids(el) /\ el[i].id \in Ids(corpus)
  <2>1. ASSUME NEW i \in 1..Len(el) PROVE el[i] \in ToSet(corpus) /\ i \in DOMAIN el
    BY <1>1
  <2>2. Ids(corpus) = {c.id : c \in ToSet(corpus)}
    BY IdsOfRange
  <2>3. ASSUME NEW i \in 1..Len(el) PROVE el[i].id \in Ids(el)
    BY <2>1 DEF Ids
  <2> QED
    BY <2>1, <2>2, <2>3
<1>3. \A id \in Ids(el) : \E i \in 1..Len(el) : id = el[i].id
  BY <1>1 DEF Ids
<1>4. \A i \in 1..Len(el) : ClauseOf(corpus, el[i].id) = el[i]
  BY <1>1, <1>2, ClauseById
<1>5. \A i \in 1..Len(el) : /\ Targets(el[i]) \in Seq(Ids(corpus))
                            /\ ToSet(Targets(el[i])) = Leads(corpus, el[i].id)
  BY <1>2, <1>4, TargetsKnown DEF Leads
<1>6. \A i \in 1..Len(el) : ClauseOf(el, el[i].id) = el[i]
  <2>1. \A i \in 1..Len(el) : el[i] \in ToSet(el)
    BY <1>1 DEF ToSet
  <2> QED
    BY <1>1, <2>1, ClauseById
<1> QED
  BY <1>1, <1>2, <1>3, <1>4, <1>5, <1>6

\* With the work list empty, the clauses seen are all that the n-th one precedes.
LEMMA RoundEnds ==
    ASSUME InputOK, WellFormed, NEW el, Kept(el, Len(corpus)), NEW s, NEW n, NEW d,
           Displacing(el, <<>>, s, n, d)
    PROVE  /\ d \in [Ids(corpus) -> Ids(corpus) \cup {None}]
           /\ \A t \in Ids(el) : LastWinner(el, t, n, d[t])
<1>1. /\ n \in 0..Len(el) /\ s \in SUBSET Ids(el)
      /\ d \in [Ids(corpus) -> Ids(corpus) \cup {None}]
      /\ n = 0 => s = {}
      /\ n # 0 => Reached(el, <<>>, s, n)
      /\ \A t \in Ids(el) : IF t \in s THEN d[t] = el[n].id ELSE LastWinner(el, t, n - 1, d[t])
  BY DEF Displacing
<1>2. /\ Len(el) \in Nat /\ Ids(el) \in SUBSET Ids(corpus) /\ UniqueIds(corpus)
      /\ \A i \in 1..Len(el) : el[i].id \in Ids(el)
  BY KeptFacts DEF WellFormed
<1>3. CASE n = 0
  <2>1. 1..n = {} /\ 1..n - 1 = {}
    BY <1>3
  <2> QED
    BY <1>1, <1>3, <2>1 DEF LastWinner
<1>4. CASE n # 0
  <2>1. n \in 1..Len(el) /\ n \in Nat /\ 1..n = 1..(n - 1) \cup {n}
        /\ \A k \in 1..n : k =< n
    BY <1>1, <1>2, <1>4
  <2>2. ToSet(<<>>) = {}
    BY DEF ToSet
  <2>3. /\ \A t \in Ids(el) : t \in s => Wins(el, n, t)
        /\ \A u, t \in Ids(el) : t \in Leads(corpus, u) /\ (u = el[n].id \/ u \in s) => t \in s
    BY <1>1, <1>4, <2>2 DEF Reached
  <2>4. \A t \in Ids(el) : Wins(el, n, t) => t \in s
    <3>1. Closed(corpus, Ids(el), el[n].id, s)
      BY <2>3 DEF Closed
    <3> QED
      BY <1>1, <1>2, <3>1, PrecedesWithin DEF Wins
  <2>5. ASSUME NEW t \in Ids(el) PROVE LastWinner(el, t, n, d[t])
    <3>1. CASE t \in s
      BY <1>1, <2>1, <2>3, <3>1 DEF LastWinner
    <3>2. CASE t \notin s
      <4>1. LastWinner(el, t, n - 1, d[t]) /\ ~Wins(el, n, t)
        BY <1>1, <2>4, <3>2
      <4> QED
        BY <2>1, <4>1 DEF LastWinner
    <3> QED
      BY <3>1, <3>2
  <2> QED
    BY <1>1, <2>5
<1> QED
  BY <1>3, <1>4

\* The next kept clause sets out with its own targets.
LEMMA RoundBegins ==
    ASSUME InputOK, WellFormed, NEW el, Kept(el, Len(corpus)), NEW s, NEW n, NEW d,
           Displacing(el, <<>>, s, n, d), n < Len(el)
    PROVE  Displacing(el, Targets(el[n + 1]), {}, n + 1, d)
<1> DEFINE p == Targets(el[n + 1])
           c == el[n + 1].id
<1>1. n \in 0..Len(el) /\ Len(el) \in Nat
  BY KeptFacts DEF Displacing
<1>2. n + 1 \in 1..Len(el) /\ n + 1 \in 0..Len(el) /\ n + 1 # 0 /\ (n + 1) - 1 = n
  BY <1>1
<1>3. /\ p \in Seq(Ids(corpus)) /\ ToSet(p) = Leads(corpus, c) /\ c \in Ids(el)
      /\ UniqueIds(corpus) /\ Ids(el) \in SUBSET Ids(corpus)
  BY <1>2, KeptFacts DEF WellFormed
<1>4. Reached(el, p, {}, n + 1)
  <2>1. ASSUME NEW t \in Ids(el), t \in Leads(corpus, c) PROVE Wins(el, n + 1, t)
    BY <1>3, <2>1, PrecedesExtends DEF Wins
  <2> HIDE DEF p
  <2> QED
    BY <1>3, <2>1 DEF Reached
<1>5. /\ d \in [Ids(corpus) -> Ids(corpus) \cup {None}]
      /\ \A t \in Ids(el) : LastWinner(el, t, n, d[t])
  BY RoundEnds
<1> HIDE DEF p
<1>6. Displacing(el, p, {}, n + 1, d)
  BY <1>2, <1>3, <1>4, <1>5 DEF Displacing
<1> QED
  BY <1>6 DEF p

\* One entry of the work list is passed over, or reached and displaced.
LEMMA RoundPops ==
    ASSUME InputOK, WellFormed, NEW el, Kept(el, Len(corpus)), NEW p, NEW s, NEW n, NEW d,
           Displacing(el, p, s, n, d), p # <<>>
    PROVE  LET target == Last(p) IN
           /\ target \in s \/ target \notin Ids(el) => Displacing(el, Front(p), s, n, d)
           /\ target \notin s /\ target \in Ids(el) =>
                  Displacing(el, Front(p) \o Targets(ClauseOf(el, target)), s \cup {target}, n,
                             [d EXCEPT ![target] = el[n].id])
<1> DEFINE target == Last(p)
           rest == Front(p)
<1>1. /\ n \in 0..Len(el) /\ p \in Seq(Ids(corpus)) /\ s \subseteq Ids(el)
      /\ d \in [Ids(corpus) -> Ids(corpus) \cup {None}]
      /\ n # 0 /\ Reached(el, p, s, n)
      /\ \A t \in Ids(el) : IF t \in s THEN d[t] = el[n].id ELSE LastWinner(el, t, n - 1, d[t])
  BY DEF Displacing
<1>2. /\ rest \in Seq(Ids(corpus)) /\ target \in Ids(corpus) /\ ToSet(p) = ToSet(rest) \cup {target}
  BY <1>1, RangeOfFront
<1>3. /\ n \in 1..Len(el) /\ el[n].id \in Ids(el) /\ Ids(el) \in SUBSET Ids(corpus)
      /\ UniqueIds(corpus)
      /\ \A id \in Ids(el) : ClauseOf(el, id) = ClauseOf(corpus, id)
  BY <1>1, KeptFacts DEF WellFormed
<1> HIDE DEF target, rest
<1>4. CASE target \in s \/ target \notin Ids(el)
  <2>1. Reached(el, rest, s, n)
    BY <1>1, <1>2, <1>4 DEF Reached
  <2> QED
    BY <1>1, <1>2, <1>4, <2>1 DEF Displacing, target, rest
<1>5. CASE target \notin s /\ target \in Ids(el)
  <2> DEFINE more == Targets(ClauseOf(el, target))
             q == rest \o more
             e == [d EXCEPT ![target] = el[n].id]
             seen2 == s \cup {target}
  <2>1. more \in Seq(Ids(corpus)) /\ ToSet(more) = Leads(corpus, target)
    BY <1>3, <1>5, TargetsKnown DEF Leads
  <2> HIDE DEF more
  <2>2. q \in Seq(Ids(corpus)) /\ ToSet(q) = ToSet(rest) \cup ToSet(more)
    BY <1>2, <2>1, RangeOfConcat
  <2>3. Wins(el, n, target)
    BY <1>1, <1>2, <1>5 DEF Reached
  <2>4. ASSUME NEW t \in Ids(el), t \in Leads(corpus, target) PROVE Wins(el, n, t)
    BY <1>3, <1>5, <2>3, <2>4, PrecedesExtends DEF Wins
  <2>5. /\ e \in [Ids(corpus) -> Ids(corpus) \cup {None}] /\ e[target] = el[n].id
        /\ \A t \in Ids(corpus) : t # target => e[t] = d[t]
    BY <1>1, <1>2, <1>3
  <2> HIDE DEF q, e
  <2>6. Reached(el, q, seen2, n)
    BY <1>1, <1>2, <2>1, <2>2, <2>3, <2>4 DEF Reached
  <2>7. \A t \in Ids(el) : IF t \in seen2 THEN e[t] = el[n].id ELSE LastWinner(el, t, n - 1, e[t])
    BY <1>1, <1>3, <2>5
  <2>8. Displacing(el, q, seen2, n, e)
    BY <1>1, <1>5, <2>2, <2>5, <2>6, <2>7 DEF Displacing
  <2> QED
    BY <1>5, <2>8 DEF q, e, more, target, rest
<1> QED
  BY <1>4, <1>5 DEF target, rest

\* Every step keeps what the walk along the links has displaced.
LEMMA StepSpreading == ASSUME IInv, [Next]_vars PROVE Spreading'
<1>1. UNCHANGED <<documents, corpus, context>> /\ at \in Nat /\ InputOK
  BY InputKept DEF IInv, Typed
<1>2. Spreading /\ Checked /\ Blank /\ Filtering
  BY DEF IInv
<1>3. ASSUME phase = "displace"
      PROVE  WellFormed /\ Kept(eligible, Len(corpus)) /\ Displacing(eligible, pending, seen, at, displaced)
  BY <1>2, <1>3 DEF Spreading, Checked, Filtering
<1>4. ASSUME phase' = phase, phase # "displace", UNCHANGED <<eligible, displaced>> PROVE Spreading'
  BY <1>1, <1>2, <1>4 DEF Spreading, AllDisplaced, LastWinner, Wins
<1>5. CASE UNCHANGED vars
  <2>1. UNCHANGED <<phase, at, eligible, pending, seen, displaced>>
    BY <1>5 DEF vars, work
  <2> QED
    BY <1>1, <1>3, <1>4, <2>1 DEF Spreading, Displacing, Reached, LastWinner, Wins
<1>6. CASE CheckLinks \/ VisitRoot \/ VisitTarget \/ Leave \/ Accept \/ Filter
  <2>1. phase' \notin {"displace", "select", "done"}
    <3>1. CASE CheckLinks
      BY <3>1, Zenon DEF CheckLinks
    <3>2. CASE Leave \/ Accept \/ Filter
      BY <3>2, Zenon DEF Leave, Accept, Filter
    <3>3. CASE VisitRoot \/ VisitTarget
      <4>1. phase = "visit" /\ \E id, below : Visit(id, below)
        BY <3>3, Zenon DEF VisitRoot, VisitTarget
      <4> QED
        BY <4>1, Zenon DEF Visit
    <3> QED
      BY <1>6, <3>1, <3>2, <3>3
  <2> QED
    BY <2>1 DEF Spreading
<1>7. CASE Filtered
  <2>1. phase = "filter" /\ phase' = "displace" /\ at' = 0
        /\ UNCHANGED <<eligible, pending, seen, displaced>>
    BY <1>7, Zenon DEF Filtered, work
  <2>2. /\ pending = <<>> /\ seen = {} /\ displaced = [id \in Ids(corpus) |-> None]
        /\ WellFormed /\ Kept(eligible, at)
    BY <1>2, <2>1 DEF Blank, Checked, Filtering
  <2>3. Len(eligible) \in Nat /\ Ids(eligible) \subseteq Ids(corpus)
    BY <1>1, <2>2, KeptFacts
  <2>4. Displacing(eligible, pending, seen, 0, displaced)
    BY <2>2, <2>3 DEF Displacing, LastWinner
  <2>5. Displacing(eligible, pending, seen, at, displaced)'
    BY <1>1, <2>1, <2>4 DEF Displacing, Reached, LastWinner, Wins
  <2> QED
    BY <2>1, <2>5 DEF Spreading
<1>8. CASE DisplaceFrom \/ Displace
  <2>1. phase = "displace" /\ phase' = phase /\ UNCHANGED eligible
    BY <1>8, Zenon DEF DisplaceFrom, Displace
  <2>2. Displacing(eligible, pending', seen', at', displaced')
    <3>1. CASE DisplaceFrom
      <4>1. /\ pending = <<>> /\ at < Len(eligible) /\ at' = at + 1
            /\ pending' = Targets(eligible[at + 1]) /\ seen' = {} /\ displaced' = displaced
        BY <3>1, Zenon DEF DisplaceFrom
      <4> QED
        BY <1>1, <1>3, <2>1, <4>1, RoundBegins
    <3>2. CASE Displace
      <4>1. /\ pending # <<>> /\ at' = at
            /\ \/ /\ Last(pending) \in seen \/ Last(pending) \notin Ids(eligible)
                  /\ pending' = Front(pending) /\ seen' = seen /\ displaced' = displaced
               \/ /\ Last(pending) \notin seen /\ Last(pending) \in Ids(eligible)
                  /\ seen' = seen \cup {Last(pending)}
                  /\ displaced' = [displaced EXCEPT ![Last(pending)] = eligible[at].id]
                  /\ pending' = Front(pending) \o Targets(ClauseOf(eligible, Last(pending)))
        BY <3>2, Zenon DEF Displace
      <4> DEFINE target == Last(pending)
      <4>2. /\ target \in seen \/ target \notin Ids(eligible) =>
                   Displacing(eligible, Front(pending), seen, at, displaced)
            /\ target \notin seen /\ target \in Ids(eligible) =>
                   Displacing(eligible, Front(pending) \o Targets(ClauseOf(eligible, target)),
                              seen \cup {target}, at, [displaced EXCEPT ![target] = eligible[at].id])
        BY <1>1, <1>3, <2>1, <4>1, RoundPops
      <4> QED
        BY <4>1, <4>2
    <3> QED
      BY <1>8, <3>1, <3>2
  <2>3. Displacing(eligible, pending, seen, at, displaced)'
    BY <1>1, <2>1, <2>2 DEF Displacing, Reached, LastWinner, Wins
  <2> QED
    BY <2>1, <2>3 DEF Spreading
<1>9. CASE Displaced
  <2>1. phase = "displace" /\ phase' = "select" /\ pending = <<>> /\ at = Len(eligible)
        /\ UNCHANGED <<eligible, displaced>>
    BY <1>9, Zenon DEF Displaced, work
  <2>2. AllDisplaced(eligible, displaced)
    BY <1>1, <1>3, <2>1, RoundEnds DEF AllDisplaced
  <2>3. AllDisplaced(eligible, displaced)'
    BY <1>1, <2>1, <2>2 DEF AllDisplaced, LastWinner, Wins
  <2> QED
    BY <2>1, <2>3 DEF Spreading
<1>10. CASE Select \/ Selected
  <2>1. phase = "select" /\ phase' \in {"select", "done"} /\ UNCHANGED <<eligible, displaced>>
    BY <1>10, Zenon DEF Select, Selected, work
  <2>2. AllDisplaced(eligible, displaced)
    BY <1>2, <2>1 DEF Spreading
  <2>3. AllDisplaced(eligible, displaced)'
    BY <1>1, <2>1, <2>2 DEF AllDisplaced, LastWinner, Wins
  <2> QED
    BY <2>1, <2>3 DEF Spreading
<1> QED
  BY <1>5, <1>6, <1>7, <1>8, <1>9, <1>10 DEF Next

\* One more decision is explained.
LEMMA DecisionAppends ==
    ASSUME NEW st \in Seq(Decision), NEW x \in Decision
    PROVE  /\ Append(st, x) \in Seq(Decision) /\ Len(Append(st, x)) = Len(st) + 1 /\ Len(st) \in Nat
           /\ 1..Len(st) + 1 = 1..Len(st) \cup {Len(st) + 1}
           /\ \A i \in 1..Len(st) : Append(st, x)[i] = st[i]
           /\ Append(st, x)[Len(st) + 1] = x
           /\ {Append(st, x)[i].id : i \in 1..Len(Append(st, x))} = {st[i].id : i \in 1..Len(st)} \cup {x.id}
           /\ {Append(st, x)[i].id : i \in {k \in 1..Len(Append(st, x)) : Append(st, x)[k].decision = "applies"}}
                  = {st[i].id : i \in {k \in 1..Len(st) : st[k].decision = "applies"}}
                    \cup (IF x.decision = "applies" THEN {x.id} ELSE {})
<1> DEFINE longer == Append(st, x)
<1>1. /\ longer \in Seq(Decision) /\ Len(longer) = Len(st) + 1 /\ Len(st) \in Nat
      /\ 1..Len(st) + 1 = 1..Len(st) \cup {Len(st) + 1}
      /\ \A i \in 1..Len(st) : longer[i] = st[i]
      /\ longer[Len(st) + 1] = x
  BY RangeOfAppend
<1> HIDE DEF longer
<1>2. {longer[i].id : i \in 1..Len(longer)} = {st[i].id : i \in 1..Len(st)} \cup {x.id}
  BY <1>1
<1>3. {longer[i].id : i \in {k \in 1..Len(longer) : longer[k].decision = "applies"}}
          = {st[i].id : i \in {k \in 1..Len(st) : st[k].decision = "applies"}}
            \cup (IF x.decision = "applies" THEN {x.id} ELSE {})
  BY <1>1
<1> QED
  BY <1>1, <1>2, <1>3 DEF longer

\* The filter explains each clause as it passes it.
LEMMA FilterExplains ==
    ASSUME InputOK, WellFormed, NEW el, NEW st, NEW n \in Nat, n < Len(corpus),
           Kept(el, n), Explained(el, st, n, 0)
    PROVE  LET c == corpus[n + 1] IN
           /\ AppliesTo(c, context) => Explained(Append(el, c), st, n + 1, 0)
           /\ ~AppliesTo(c, context) =>
                  \A reason \in {"outside_date", "outside_audience"} :
                      Explained(el, Append(st, [id |-> c.id, decision |-> reason, related |-> None]), n + 1, 0)
<1> DEFINE c == corpus[n + 1]
           out(k) == {corpus[j].id : j \in {i \in 1..k : ~AppliesTo(corpus[i], context)}}
<1>1. c \in ToSet(corpus) /\ c.id \in Ids(corpus) /\ 1..n + 1 = 1..n \cup {n + 1} /\ 1..0 = {}
  BY DEF InputOK, SequencesOK, ToSet, Ids
<1>2. /\ st \in Seq(Decision) /\ Len(st) = (n - Len(el)) + 0 /\ Len(st) \in Nat
      /\ {st[i].id : i \in 1..Len(st)} = out(n) \cup {el[j].id : j \in 1..0}
      /\ \A i \in 1..Len(st) : st[i].decision \in {"applies", "overridden"} => st[i].id \in Ids(el)
  <2>1. st \in Seq(Decision)
    BY DEF Explained
  <2>2. Len(st) \in Nat
    BY <2>1
  <2> QED
    BY <2>1, <2>2, Zenon DEF Explained
<1>3. el \in Seq(ToSet(corpus)) /\ Len(el) \in Nat
  BY DEF Kept
<1>4. CASE AppliesTo(c, context)
  <2> DEFINE more == Append(el, c)
  <2>1. /\ Len(more) = Len(el) + 1 /\ ToSet(more) = ToSet(el) \cup {c}
    BY <1>1, <1>3, RangeOfAppend
  <2> HIDE DEF more, c
  <2>2. out(n + 1) = out(n)
    BY <1>1, <1>4 DEF c
  <2>3. Len(st) = ((n + 1) - Len(more)) + 0
    BY <1>2, <1>3, <2>1
  <2>4. Ids(el) \subseteq Ids(more)
    BY <2>1, IdsOfRange
  <2>5. {el[j].id : j \in 1..0} = {more[j].id : j \in 1..0}
    BY <1>1
  <2> HIDE DEF out
  <2>6. {st[i].id : i \in 1..Len(st)} = out(n + 1) \cup {more[j].id : j \in 1..0}
    BY <1>2, <2>2, <2>5
  <2>7. \A i \in 1..Len(st) : st[i].decision \in {"applies", "overridden"} => st[i].id \in Ids(more)
    BY <1>2, <2>4
  <2>8. Explained(more, st, n + 1, 0)
    BY <1>2, <2>3, <2>6, <2>7 DEF Explained, out
  <2> QED
    BY <1>4, <2>8 DEF more, c
<1>5. ASSUME ~AppliesTo(c, context), NEW reason \in {"outside_date", "outside_audience"}
      PROVE  Explained(el, Append(st, [id |-> c.id, decision |-> reason, related |-> None]), n + 1, 0)
  <2> DEFINE x == [id |-> c.id, decision |-> reason, related |-> None]
             longer == Append(st, x)
  <2>1. x \in Decision /\ x.id = c.id /\ x.decision \notin {"applies", "overridden"}
    BY <1>1 DEF Decision
  <2> HIDE DEF x
  <2>2. /\ longer \in Seq(Decision) /\ Len(longer) = Len(st) + 1 /\ Len(st) \in Nat
        /\ 1..Len(st) + 1 = 1..Len(st) \cup {Len(st) + 1}
        /\ \A i \in 1..Len(st) : longer[i] = st[i]
        /\ longer[Len(st) + 1] = x
        /\ {longer[i].id : i \in 1..Len(longer)} = {st[i].id : i \in 1..Len(st)} \cup {x.id}
    BY <1>2, <2>1, DecisionAppends
  <2> HIDE DEF longer, c
  <2>3. out(n + 1) = out(n) \cup {c.id}
    BY <1>1, <1>5 DEF c
  <2>4. Len(longer) = ((n + 1) - Len(el)) + 0
    BY <1>2, <1>3, <2>2
  <2> HIDE DEF out
  <2>5. {longer[i].id : i \in 1..Len(longer)} = out(n + 1) \cup {el[j].id : j \in 1..0}
    BY <1>2, <2>1, <2>2, <2>3
  <2>6. \A i \in 1..Len(longer) : longer[i].decision \in {"applies", "overridden"} => longer[i].id \in Ids(el)
    BY <1>2, <2>1, <2>2
  <2>7. Explained(el, longer, n + 1, 0)
    BY <2>2, <2>4, <2>5, <2>6 DEF Explained, out
  <2> QED
    BY <2>7 DEF longer, x, c
<1> QED
  BY <1>4, <1>5

\* The selection explains each kept clause as it passes it.
LEMMA SelectExplains ==
    ASSUME InputOK, WellFormed, NEW el, NEW st, NEW sel, NEW d, NEW m \in Nat, m < Len(el),
           Kept(el, Len(corpus)), Explained(el, st, Len(corpus), m), Chosen(el, sel, st, d, m),
           d \in [Ids(corpus) -> Ids(corpus) \cup {None}]
    PROVE  LET c == el[m + 1] IN
           /\ d[c.id] # None =>
                  LET longer == Append(st, [id |-> c.id, decision |-> "overridden", related |-> d[c.id]])
                  IN  Explained(el, longer, Len(corpus), m + 1) /\ Chosen(el, sel, longer, d, m + 1)
           /\ d[c.id] = None =>
                  LET longer == Append(st, [id |-> c.id, decision |-> "applies", related |-> None])
                  IN  Explained(el, longer, Len(corpus), m + 1) /\ Chosen(el, Append(sel, c), longer, d, m + 1)
<1> DEFINE c == el[m + 1]
           n == Len(corpus)
           out == {corpus[j].id : j \in {i \in 1..n : ~AppliesTo(corpus[i], context)}}
           kept(k) == {el[j] : j \in {i \in 1..k : d[el[i].id] = None}}
           said(s) == {s[i].id : i \in {k \in 1..Len(s) : s[k].decision = "applies"}}
<1>1. /\ c \in ToSet(corpus) /\ c.id \in Ids(corpus) /\ c.id \in Ids(el) /\ d[c.id] \in Ids(corpus) \cup {None}
      /\ 1..m + 1 = 1..m \cup {m + 1} /\ Len(el) \in Nat /\ n \in Nat
  <2>1. m + 1 \in 1..Len(el) /\ Len(el) \in Nat
    BY KeptFacts
  <2> QED
    BY <2>1, KeptFacts DEF InputOK, SequencesOK
<1>2. /\ st \in Seq(Decision) /\ Len(st) = (n - Len(el)) + m
      /\ {st[i].id : i \in 1..Len(st)} = out \cup {el[j].id : j \in 1..m}
      /\ \A i \in 1..Len(st) : st[i].decision \in {"applies", "overridden"} => st[i].id \in Ids(el)
  BY DEF Explained
<1>3. sel \in Seq(ToSet(corpus)) /\ ToSet(sel) = kept(m) /\ said(st) = Ids(sel)
  BY DEF Chosen
<1>4. ASSUME NEW x \in Decision, x.id = c.id
      PROVE  /\ Explained(el, Append(st, x), n, m + 1)
             /\ said(Append(st, x)) = said(st) \cup (IF x.decision = "applies" THEN {c.id} ELSE {})
  <2> DEFINE longer == Append(st, x)
  <2>1. /\ longer \in Seq(Decision) /\ Len(longer) = Len(st) + 1 /\ Len(st) \in Nat
        /\ 1..Len(st) + 1 = 1..Len(st) \cup {Len(st) + 1}
        /\ \A i \in 1..Len(st) : longer[i] = st[i]
        /\ longer[Len(st) + 1] = x
        /\ {longer[i].id : i \in 1..Len(longer)} = {st[i].id : i \in 1..Len(st)} \cup {x.id}
        /\ said(longer) = said(st) \cup (IF x.decision = "applies" THEN {x.id} ELSE {})
    BY <1>2, DecisionAppends
  <2> HIDE DEF longer, said, n
  <2>2. {el[j].id : j \in 1..m + 1} = {el[j].id : j \in 1..m} \cup {c.id}
    BY <1>1
  <2> HIDE DEF c, out
  <2>3. {longer[i].id : i \in 1..Len(longer)} = out \cup {el[j].id : j \in 1..m + 1}
    BY <1>2, <1>4, <2>1, <2>2
  <2>4. Len(longer) = (n - Len(el)) + (m + 1)
    BY <1>1, <1>2, <2>1
  <2>5. \A i \in 1..Len(longer) : longer[i].decision \in {"applies", "overridden"} => longer[i].id \in Ids(el)
    BY <1>1, <1>2, <1>4, <2>1
  <2>6. Explained(el, longer, n, m + 1)
    BY <2>1, <2>3, <2>4, <2>5 DEF Explained, out
  <2> QED
    BY <1>4, <2>1, <2>6 DEF longer
<1>5. CASE d[c.id] # None
  <2> DEFINE x == [id |-> c.id, decision |-> "overridden", related |-> d[c.id]]
  <2>1. x \in Decision /\ x.id = c.id /\ x.decision # "applies"
    BY <1>1 DEF Decision
  <2> HIDE DEF x
  <2>2. kept(m + 1) = kept(m)
    BY <1>1, <1>5
  <2>3. Explained(el, Append(st, x), n, m + 1) /\ said(Append(st, x)) = said(st)
    BY <1>4, <2>1
  <2>4. Chosen(el, sel, Append(st, x), d, m + 1)
    BY <1>3, <2>2, <2>3 DEF Chosen
  <2> QED
    BY <1>5, <2>3, <2>4 DEF x
<1>6. CASE d[c.id] = None
  <2> DEFINE x == [id |-> c.id, decision |-> "applies", related |-> None]
             more == Append(sel, c)
  <2>1. x \in Decision /\ x.id = c.id /\ x.decision = "applies"
    BY <1>1 DEF Decision
  <2>2. more \in Seq(ToSet(corpus)) /\ ToSet(more) = ToSet(sel) \cup {c}
    BY <1>1, <1>3, RangeOfAppend
  <2> HIDE DEF x, more
  <2>3. kept(m + 1) = kept(m) \cup {c}
    BY <1>1, <1>6
  <2>4. Explained(el, Append(st, x), n, m + 1) /\ said(Append(st, x)) = said(st) \cup {c.id}
    BY <1>4, <2>1
  <2>5. Ids(more) = Ids(sel) \cup {c.id}
    BY <2>2, IdsOfRange
  <2>6. Chosen(el, more, Append(st, x), d, m + 1)
    BY <1>3, <2>2, <2>3, <2>4, <2>5 DEF Chosen
  <2> QED
    BY <1>6, <2>4, <2>6 DEF x, more
<1> QED
  BY <1>5, <1>6

\* Before the selection no clause is chosen.
LEMMA NothingChosen ==
    ASSUME NEW el, NEW st, NEW d, st \in Seq(Decision),
           \A i \in 1..Len(st) : st[i].decision # "applies"
    PROVE  Chosen(el, <<>>, st, d, 0)
<1>1. 1..0 = {} /\ ToSet(<<>>) = {} /\ Ids(<<>>) = {} /\ <<>> \in Seq(ToSet(corpus))
  BY DEF ToSet, Ids
<1> QED
  BY <1>1 DEF Chosen

\* Where nothing was chosen no decision says that a clause applies.
LEMMA NothingApplies ==
    ASSUME NEW el, NEW st, NEW d, NEW n, Explained(el, st, n, 0), Chosen(el, <<>>, st, d, 0)
    PROVE  st \in Seq(Decision) /\ \A i \in 1..Len(st) : st[i].decision # "applies"
<1>1. st \in Seq(Decision)
  BY DEF Explained
<1>2. {st[i].id : i \in {k \in 1..Len(st) : st[k].decision = "applies"}} = {}
  <2>1. Ids(<<>>) = {}
    BY DEF Ids
  <2> QED
    BY <2>1 DEF Chosen
<1> QED
  BY <1>1, <1>2

\* Every step keeps what the selection has decided.
LEMMA StepSelecting == ASSUME IInv, [Next]_vars PROVE Selecting'
<1>1. UNCHANGED <<documents, corpus, context>> /\ at \in Nat /\ InputOK
  BY InputKept DEF IInv, Typed
<1>2. Selecting /\ Spreading /\ Checked /\ Blank /\ Filtering
  BY DEF IInv
<1>3. ASSUME NEW el, NEW st, NEW n, NEW m, Explained(el, st, n, m) PROVE Explained(el, st, n, m)'
  BY <1>1, <1>3 DEF Explained, Decision
<1>4. ASSUME NEW el, NEW sel, NEW st, NEW d, NEW m, Chosen(el, sel, st, d, m)
      PROVE  Chosen(el, sel, st, d, m)'
  BY <1>1, <1>4 DEF Chosen
<1>5. CASE UNCHANGED vars
  <2>1. UNCHANGED <<phase, at, eligible, selected, steps, displaced, conflicts>>
    BY <1>5 DEF vars, work, result
  <2>2. Explained(eligible, steps, at, 0) => Explained(eligible, steps, at, 0)'
    BY <1>1, <2>1 DEF Explained, Decision
  <2>3. Explained(eligible, steps, Len(corpus), 0) => Explained(eligible, steps, Len(corpus), 0)'
    BY <1>1, <2>1 DEF Explained, Decision
  <2>4. Explained(eligible, steps, Len(corpus), at) => Explained(eligible, steps, Len(corpus), at)'
    BY <1>1, <2>1 DEF Explained, Decision
  <2>5. Explained(eligible, steps, Len(corpus), Len(eligible))
            => Explained(eligible, steps, Len(corpus), Len(eligible))'
    BY <1>1, <2>1 DEF Explained, Decision
  <2>6. /\ Chosen(eligible, selected, steps, displaced, 0) => Chosen(eligible, selected, steps, displaced, 0)'
        /\ Chosen(eligible, selected, steps, displaced, at) => Chosen(eligible, selected, steps, displaced, at)'
    BY <1>1, <2>1 DEF Chosen
  <2>7. Chosen(eligible, selected, steps, displaced, Len(eligible))
            => Chosen(eligible, selected, steps, displaced, Len(eligible))'
    BY <1>1, <2>1 DEF Chosen
  <2>8. conflicts' = conflicts /\ \A key : Group(key)' = Group(key)
    BY <2>1 DEF Group
  <2> QED
    BY <1>2, <2>1, <2>2, <2>3, <2>4, <2>5, <2>6, <2>7, <2>8 DEF Selecting
<1>6. CASE CheckLinks \/ VisitRoot \/ VisitTarget \/ Leave
  <2>1. phase' \notin {"filter", "displace", "select", "done"}
    <3>1. CASE CheckLinks
      BY <3>1, Zenon DEF CheckLinks
    <3>2. CASE Leave
      BY <3>2, Zenon DEF Leave
    <3>3. CASE VisitRoot \/ VisitTarget
      <4>1. phase = "visit" /\ \E id, below : Visit(id, below)
        BY <3>3, Zenon DEF VisitRoot, VisitTarget
      <4> QED
        BY <4>1, Zenon DEF Visit
    <3> QED
      BY <1>6, <3>1, <3>2, <3>3
  <2> QED
    BY <2>1 DEF Selecting
<1>7. CASE Accept
  <2>1. phase = "visit" /\ phase' = "filter" /\ at' = 0
        /\ UNCHANGED <<eligible, selected, steps, displaced>>
    BY <1>7, Zenon DEF Accept, work, result
  <2>2. eligible = <<>> /\ steps = <<>> /\ selected = <<>>
    BY <1>2, <2>1 DEF Blank
  <2>3. Explained(<<>>, <<>>, 0, 0)
    <3> DEFINE none == <<>>
    <3>1. 1..0 = {} /\ Len(none) = 0 /\ none \in Seq(Decision)
      OBVIOUS
    <3> HIDE DEF none
    <3>2. /\ {none[i].id : i \in 1..Len(none)} = {}
          /\ {corpus[j].id : j \in {k \in 1..0 : ~AppliesTo(corpus[k], context)}} = {}
          /\ {none[j].id : j \in 1..0} = {}
      BY <3>1
    <3>3. Len(none) = (0 - Len(none)) + 0
      BY <3>1
    <3>4. Explained(none, none, 0, 0)
      BY <3>1, <3>2, <3>3 DEF Explained
    <3> QED
      BY <3>4 DEF none
  <2>4. Chosen(<<>>, <<>>, <<>>, displaced, 0)
    <3> DEFINE none == <<>>
    <3>1. none \in Seq(Decision) /\ 1..Len(none) = {}
      OBVIOUS
    <3> HIDE DEF none
    <3>2. Chosen(eligible, <<>>, none, displaced, 0)
      BY <3>1, NothingChosen
    <3> QED
      BY <2>2, <3>2 DEF none
  <2>5. Explained(eligible, steps, at, 0)'
    BY <1>3, <2>1, <2>2, <2>3 DEF Explained, Decision
  <2>6. Chosen(eligible, selected, steps, displaced, 0)'
    BY <1>1, <2>1, <2>2, <2>4 DEF Chosen
  <2> QED
    BY <2>1, <2>5, <2>6 DEF Selecting
<1>8. CASE Filter
  <2> DEFINE c == corpus[at + 1]
  <2>1. /\ phase = "filter" /\ at < Len(corpus) /\ phase' = phase /\ at' = at + 1
        /\ UNCHANGED <<displaced, selected>>
        /\ \/ /\ ~AppliesTo(c, context) /\ eligible' = eligible
              /\ \E reason \in {"outside_date", "outside_audience"} :
                     steps' = Append(steps, [id |-> c.id, decision |-> reason, related |-> None])
           \/ AppliesTo(c, context) /\ eligible' = Append(eligible, c) /\ steps' = steps
    BY <1>8, FilterStep
  <2>2. /\ WellFormed /\ Kept(eligible, at) /\ selected = <<>>
        /\ Explained(eligible, steps, at, 0) /\ Chosen(eligible, selected, steps, displaced, 0)
    BY <1>2, <2>1 DEF Checked, Filtering, Blank, Selecting
  <2>3. /\ AppliesTo(c, context) => Explained(Append(eligible, c), steps, at + 1, 0)
        /\ ~AppliesTo(c, context) =>
               \A reason \in {"outside_date", "outside_audience"} :
                   Explained(eligible, Append(steps, [id |-> c.id, decision |-> reason, related |-> None]), at + 1, 0)
    BY <1>1, <2>1, <2>2, FilterExplains
  <2>4. steps \in Seq(Decision) /\ \A i \in 1..Len(steps) : steps[i].decision # "applies"
    BY <2>2, NothingApplies
  <2>5. Explained(eligible', steps', at', 0)
    BY <2>1, <2>3
  <2>6. steps' \in Seq(Decision) /\ \A i \in 1..Len(steps') : steps'[i].decision # "applies"
    <3>1. CASE steps' = steps
      BY <2>4, <3>1
    <3>2. ASSUME NEW reason \in {"outside_date", "outside_audience"},
                 steps' = Append(steps, [id |-> c.id, decision |-> reason, related |-> None])
          PROVE  \A i \in 1..Len(steps') : steps'[i].decision # "applies"
      <4> DEFINE x == [id |-> c.id, decision |-> reason, related |-> None]
      <4>1. x.decision # "applies"
        OBVIOUS
      <4> HIDE DEF x
      <4>2. steps' = Append(steps, x)
        BY <3>2 DEF x
      <4> QED
        BY <2>4, <4>1, <4>2
    <3> QED
      BY <2>1, <2>5, <3>1, <3>2 DEF Explained
  <2>7. Chosen(eligible', selected', steps', displaced', 0)
    BY <2>1, <2>2, <2>6, NothingChosen
  <2>8. Explained(eligible, steps, at, 0)' /\ Chosen(eligible, selected, steps, displaced, 0)'
    BY <1>1, <2>5, <2>7 DEF Explained, Decision, Chosen
  <2> QED
    BY <2>1, <2>8 DEF Selecting
<1>9. CASE Filtered \/ DisplaceFrom \/ Displace
  <2>1. /\ phase \in {"filter", "displace"} /\ phase' = "displace" /\ UNCHANGED <<eligible, selected, steps>>
        /\ phase = "filter" => at = Len(corpus)
    BY <1>9, Zenon DEF Filtered, DisplaceFrom, Displace, result
  <2>2. /\ Explained(eligible, steps, Len(corpus), 0) /\ selected = <<>>
        /\ Chosen(eligible, selected, steps, displaced, 0)
    BY <1>2, <2>1 DEF Selecting, Blank
  <2>3. Chosen(eligible, <<>>, steps, displaced', 0)
    BY <2>2, NothingApplies, NothingChosen
  <2>4. Explained(eligible, steps, Len(corpus), 0)'
    BY <1>1, <2>1, <2>2 DEF Explained, Decision
  <2>5. Chosen(eligible, selected, steps, displaced, 0)'
    BY <1>1, <2>1, <2>2, <2>3 DEF Chosen
  <2> QED
    BY <2>1, <2>4, <2>5 DEF Selecting
<1>10. CASE Displaced
  <2>1. /\ phase = "displace" /\ phase' = "select" /\ at' = 0
        /\ UNCHANGED <<eligible, selected, steps, displaced>>
    BY <1>10, Zenon DEF Displaced, work, result
  <2>2. /\ Explained(eligible, steps, Len(corpus), 0)
        /\ Chosen(eligible, selected, steps, displaced, 0)
        /\ Kept(eligible, Len(corpus))
    BY <1>2, <2>1 DEF Selecting, Filtering
  <2>3. Len(eligible) \in Nat
    BY <2>2 DEF Kept
  <2>4. Explained(eligible, steps, Len(corpus), at)'
    BY <1>1, <2>1, <2>2 DEF Explained, Decision
  <2>5. Chosen(eligible, selected, steps, displaced, at)'
    BY <1>1, <2>1, <2>2 DEF Chosen
  <2> QED
    BY <2>1, <2>3, <2>4, <2>5 DEF Selecting
<1>11. CASE Select
  <2> DEFINE c == eligible[at + 1]
  <2>1. /\ phase = "select" /\ at < Len(eligible) /\ phase' = phase /\ at' = at + 1
        /\ UNCHANGED <<eligible, displaced>>
        /\ \/ /\ displaced[c.id] # None /\ selected' = selected
              /\ steps' = Append(steps, [id |-> c.id, decision |-> "overridden", related |-> displaced[c.id]])
           \/ /\ displaced[c.id] = None /\ selected' = Append(selected, c)
              /\ steps' = Append(steps, [id |-> c.id, decision |-> "applies", related |-> None])
    BY <1>11, Zenon DEF Select, Step, work
  <2>2. /\ WellFormed /\ Kept(eligible, Len(corpus))
        /\ Explained(eligible, steps, Len(corpus), at) /\ Chosen(eligible, selected, steps, displaced, at)
        /\ displaced \in [Ids(corpus) -> Ids(corpus) \cup {None}]
    BY <1>2, <2>1 DEF Checked, Filtering, Selecting, Spreading, AllDisplaced
  <2>3. /\ displaced[c.id] # None =>
               LET longer == Append(steps, [id |-> c.id, decision |-> "overridden", related |-> displaced[c.id]])
               IN  /\ Explained(eligible, longer, Len(corpus), at + 1)
                   /\ Chosen(eligible, selected, longer, displaced, at + 1)
        /\ displaced[c.id] = None =>
               LET longer == Append(steps, [id |-> c.id, decision |-> "applies", related |-> None])
               IN  /\ Explained(eligible, longer, Len(corpus), at + 1)
                   /\ Chosen(eligible, Append(selected, c), longer, displaced, at + 1)
    BY <1>1, <2>1, <2>2, SelectExplains
  <2>4. Explained(eligible, steps', Len(corpus), at + 1) /\ Chosen(eligible, selected', steps', displaced, at + 1)
    BY <2>1, <2>3
  <2>5. Explained(eligible, steps, Len(corpus), at)' /\ Chosen(eligible, selected, steps, displaced, at)'
    BY <1>1, <2>1, <2>4 DEF Explained, Decision, Chosen
  <2>6. at + 1 =< Len(eligible)
    BY <1>1, <2>1, <2>2 DEF Kept
  <2> QED
    BY <2>1, <2>5, <2>6 DEF Selecting
<1>12. CASE Selected
  <2>1. /\ phase = "select" /\ phase' = "done" /\ at = Len(eligible)
        /\ UNCHANGED <<eligible, selected, steps, displaced>>
        /\ conflicts' = {group \in {Group(c.key) : c \in ToSet(selected)} :
                             Cardinality({c.value : c \in group}) > 1}
    BY <1>12, Zenon DEF Selected, work
  <2>2. /\ Explained(eligible, steps, Len(corpus), Len(eligible))
        /\ Chosen(eligible, selected, steps, displaced, Len(eligible))
    BY <1>2, <2>1 DEF Selecting
  <2>3. Explained(eligible, steps, Len(corpus), Len(eligible))'
    BY <1>1, <2>1, <2>2 DEF Explained, Decision
  <2>4. Chosen(eligible, selected, steps, displaced, Len(eligible))'
    BY <1>1, <2>1, <2>2 DEF Chosen
  <2>5. (conflicts = {group \in {Group(c.key) : c \in ToSet(selected)} :
                          Cardinality({c.value : c \in group}) > 1})'
    BY <2>1 DEF Group
  <2> QED
    BY <2>1, <2>3, <2>4, <2>5 DEF Selecting
<1> QED
  BY <1>5, <1>6, <1>7, <1>8, <1>9, <1>10, <1>11, <1>12 DEF Next

\* So it holds throughout.
LEMMA InvariantHolds == Spec => []IInv
<1>1. IInv /\ [Next]_vars => IInv'
  BY StepTyped, StepChecked, StepBlank, StepFiltering, StepSpreading, StepSelecting DEF IInv
<1> QED
  BY InitIInv, <1>1, PTL DEF Spec

-----------------------------------------------------------------------------
(* The theorems, for any corpus, links, audiences and question.             *)

\* A corpus is accepted exactly when its links are well formed and no clause takes
\* precedence over itself: the depth-first walk neither misses a cycle nor sees one
\* in clauses that merely share a target.
THEOREM VerdictIsExact == Spec => []VerdictExact
<1>1. IInv => VerdictExact
  BY DEF IInv, Checked, VerdictExact
<1> QED
  BY InvariantHolds, <1>1, PTL

\* The filter keeps exactly the clauses that apply in the context.
LEMMA EligibleAreKept ==
    ASSUME InputOK, Kept(eligible, Len(corpus))
    PROVE  Ids(eligible) = EligibleIds(corpus, context)
<1>1. ToSet(corpus) = {corpus[j] : j \in 1..Len(corpus)}
  BY DEF InputOK, SequencesOK, ToSet
<1>2. ToSet(eligible) = {c \in ToSet(corpus) : AppliesTo(c, context)}
  BY <1>1 DEF Kept
<1> QED
  BY <1>2, IdsOfRange DEF EligibleIds, Eligible

\* A displaced clause names the last applicable clause that takes precedence over it.
THEOREM WinnersPrecede == Spec => []WinnerPrecedes
<1>1. IInv => WinnerPrecedes
  <2> SUFFICES ASSUME IInv, phase \in {"select", "done"}, NEW i \in DOMAIN eligible
               PROVE  LET winners == {j \in DOMAIN eligible :
                              Precedes(corpus, Ids(eligible), eligible[j].id, eligible[i].id)}
                      IN  displaced[eligible[i].id] =
                              IF winners = {} THEN None
                              ELSE eligible[CHOOSE j \in winners : \A k \in winners : k =< j].id
    BY DEF WinnerPrecedes
  <2> DEFINE t == eligible[i].id
             winners == {j \in DOMAIN eligible : Precedes(corpus, Ids(eligible), eligible[j].id, t)}
  <2>1. InputOK /\ WellFormed /\ Kept(eligible, Len(corpus)) /\ AllDisplaced(eligible, displaced)
    BY DEF IInv, Typed, Checked, Filtering, Spreading
  <2>2. /\ Len(eligible) \in Nat /\ DOMAIN eligible = 1..Len(eligible) /\ t \in Ids(eligible)
        /\ \A j \in 1..Len(eligible) : eligible[j].id \in Ids(corpus)
        /\ None \notin Ids(corpus)
    BY <2>1, KeptFacts
  <2>3. winners = {j \in 1..Len(eligible) : Wins(eligible, j, t)}
    BY <2>2 DEF Wins
  <2>4. LastWinner(eligible, t, Len(eligible), displaced[t])
    BY <2>1, <2>2 DEF AllDisplaced
  <2> HIDE DEF winners, t
  <2>5. CASE \A j \in 1..Len(eligible) : ~Wins(eligible, j, t)
    <3>1. winners = {} /\ displaced[t] = None
      BY <2>3, <2>4, <2>5 DEF LastWinner
    <3> QED
      BY <3>1 DEF winners, t
  <2>6. ASSUME NEW j \in 1..Len(eligible), Wins(eligible, j, t), displaced[t] = eligible[j].id,
               \A k \in 1..Len(eligible) : Wins(eligible, k, t) => k =< j
        PROVE  displaced[t] = eligible[CHOOSE l \in winners : \A k \in winners : k =< l].id
               /\ winners # {}
    <3>1. j \in winners /\ \A k \in winners : k =< j
      BY <2>3, <2>6
    <3>2. \A l \in winners : l \in Nat
      BY <2>3
    <3>3. (CHOOSE l \in winners : \A k \in winners : k =< l) = j
      <4>1. \A l \in winners : (\A k \in winners : k =< l) => l = j
        BY <3>1, <3>2
      <4> QED
        BY <3>1, <4>1
    <3> QED
      BY <2>6, <3>1, <3>3
  <2> QED
    BY <2>4, <2>5, <2>6 DEF LastWinner, winners, t
<1> QED
  BY InvariantHolds, <1>1, PTL

\* What is selected is exactly what the corpus says in the context, whatever the order
\* of the clauses, of their links and of the work list.
THEOREM SelectionIsExact == Spec => []SelectionExact
<1>1. IInv => SelectionExact
  <2> SUFFICES ASSUME IInv, phase = "done" PROVE Ids(selected) = Authoritative(corpus, context)
    BY DEF SelectionExact
  <2>1. /\ InputOK /\ WellFormed /\ Kept(eligible, Len(corpus)) /\ AllDisplaced(eligible, displaced)
        /\ Chosen(eligible, selected, steps, displaced, Len(eligible))
    BY DEF IInv, Typed, Checked, Filtering, Spreading, Selecting
  <2>2. /\ Len(eligible) \in Nat /\ None \notin Ids(corpus) /\ Ids(eligible) \subseteq Ids(corpus)
        /\ \A i \in 1..Len(eligible) : eligible[i].id \in Ids(eligible)
        /\ \A id \in Ids(eligible) : \E i \in 1..Len(eligible) : id = eligible[i].id
    BY <2>1, KeptFacts
  <2>3. Ids(eligible) = EligibleIds(corpus, context)
    BY <2>1, EligibleAreKept
  <2>4. \A id \in Ids(eligible) :
            displaced[id] = None <=> ~\E j \in 1..Len(eligible) : Wins(eligible, j, id)
    BY <2>1, <2>2 DEF AllDisplaced, LastWinner
  <2>5. \A id \in Ids(eligible) :
            (\E j \in 1..Len(eligible) : Wins(eligible, j, id))
                <=> \E other \in Ids(eligible) : Precedes(corpus, Ids(eligible), other, id)
    BY <2>2 DEF Wins
  <2>6. Ids(selected) = {id \in Ids(eligible) : displaced[id] = None}
    <3>1. ToSet(selected) = {eligible[j] : j \in {k \in 1..Len(eligible) : displaced[eligible[k].id] = None}}
      BY <2>1 DEF Chosen
    <3> QED
      BY <2>2, <3>1, IdsOfRange
  <2> QED
    BY <2>3, <2>4, <2>5, <2>6 DEF Authoritative
<1> QED
  BY InvariantHolds, <1>1, PTL

\* At the end every clause has its decision.
LEMMA AllExplained == IInv => ExplanationComplete
<1> SUFFICES ASSUME IInv, phase = "done"
             PROVE  /\ {steps[i].id : i \in DOMAIN steps} = Ids(corpus)
                    /\ Len(steps) = Len(corpus)
                    /\ {steps[i].id : i \in {j \in DOMAIN steps : steps[j].decision = "applies"}}
                           = Ids(selected)
  BY DEF ExplanationComplete
<1>1. /\ InputOK /\ Kept(eligible, Len(corpus))
      /\ Explained(eligible, steps, Len(corpus), Len(eligible))
      /\ Chosen(eligible, selected, steps, displaced, Len(eligible))
  BY DEF IInv, Typed, Filtering, Selecting
<1>2. /\ Len(eligible) \in Nat /\ Len(corpus) \in Nat
      /\ steps \in Seq(Decision) /\ DOMAIN steps = 1..Len(steps)
      /\ Len(steps) = (Len(corpus) - Len(eligible)) + Len(eligible)
  BY <1>1 DEF Kept, Explained, InputOK, SequencesOK
<1>3. {steps[i].id : i \in 1..Len(steps)} = Ids(corpus)
  <2>1. {steps[i].id : i \in 1..Len(steps)}
            = {corpus[j].id : j \in {k \in 1..Len(corpus) : ~AppliesTo(corpus[k], context)}}
              \cup {eligible[j].id : j \in 1..Len(eligible)}
    BY <1>1 DEF Explained
  <2>2. {eligible[j].id : j \in 1..Len(eligible)}
            = {corpus[j].id : j \in {k \in 1..Len(corpus) : AppliesTo(corpus[k], context)}}
    <3>1. /\ DOMAIN eligible = 1..Len(eligible)
          /\ ToSet(eligible) = {corpus[j] : j \in {k \in 1..Len(corpus) : AppliesTo(corpus[k], context)}}
      BY <1>1 DEF Kept
    <3>2. {eligible[j].id : j \in 1..Len(eligible)} = {c.id : c \in ToSet(eligible)}
      BY <3>1 DEF ToSet
    <3> QED
      BY <3>1, <3>2
  <2>3. Ids(corpus) = {corpus[j].id : j \in 1..Len(corpus)}
    BY <1>1 DEF Ids, InputOK, SequencesOK
  <2> QED
    BY <2>1, <2>2, <2>3
<1>4. {steps[i].id : i \in {j \in 1..Len(steps) : steps[j].decision = "applies"}} = Ids(selected)
  BY <1>1 DEF Chosen
<1> QED
  BY <1>2, <1>3, <1>4

\* The explanation decides each clause of the corpus once, and says "applies" of exactly
\* the selected ones.
THEOREM ExplanationIsComplete == Spec => []ExplanationComplete
BY InvariantHolds, AllExplained, PTL

\* Two selected clauses are reported together exactly when their rule has two values.
THEOREM ConflictsAreExact == Spec => []ConflictsExact
<1>1. IInv => ConflictsExact
  <2> SUFFICES ASSUME IInv, phase = "done", NEW c \in ToSet(selected), NEW d \in ToSet(selected)
               PROVE  (c.key = d.key /\ \E e \in ToSet(selected) : e.key = c.key /\ e.value # c.value)
                          <=> \E group \in conflicts : {c, d} \subseteq group
    BY DEF ConflictsExact
  <2> DEFINE values(group) == {e.value : e \in group}
  <2>1. /\ conflicts = {group \in {Group(e.key) : e \in ToSet(selected)} : Cardinality(values(group)) > 1}
        /\ selected \in Seq(ToSet(corpus))
    BY DEF IInv, Selecting, Chosen
  <2>2. IsFiniteSet(ToSet(selected))
    <3>1. Len(selected) \in Nat /\ ToSet(selected) = {selected[i] : i \in 1..Len(selected)}
      BY <2>1 DEF ToSet
    <3>2. IsFiniteSet(1..Len(selected))
      BY <3>1, FS_Interval
    <3>3. selected \in Seq(ToSet(corpus)) => DOMAIN selected = 1..Len(selected)
      OBVIOUS
    <3> QED
      BY <2>1, <3>1, <3>2, <3>3, FiniteImage
  <2>3. ASSUME NEW key, NEW group, group = Group(key)
        PROVE  /\ group \subseteq ToSet(selected) /\ IsFiniteSet(values(group))
               /\ \A e : e \in group <=> e \in ToSet(selected) /\ e.key = key
    <3>1. group \subseteq ToSet(selected) /\ \A e : e \in group <=> e \in ToSet(selected) /\ e.key = key
      BY <2>3 DEF Group
    <3>2. IsFiniteSet(group)
      BY <2>2, <3>1, FS_Subset
    <3> DEFINE f == [e \in group |-> e.value]
    <3>3. DOMAIN f = group /\ values(group) = {f[e] : e \in group}
      OBVIOUS
    <3> HIDE DEF f, values
    <3>4. IsFiniteSet(values(group))
      BY <3>2, <3>3, FiniteImage
    <3> QED
      BY <3>1, <3>4
  <2>4. ASSUME NEW e \in ToSet(selected), e.key = c.key, e.value # c.value, c.key = d.key
        PROVE  \E group \in conflicts : {c, d} \subseteq group
    <3> DEFINE group == Group(c.key)
    <3>1. c \in group /\ d \in group /\ e \in group /\ IsFiniteSet(values(group))
      BY <2>3, <2>4
    <3>2. c.value \in values(group) /\ e.value \in values(group)
      BY <3>1
    <3> HIDE DEF group
    <3>3. Cardinality(values(group)) > 1
      BY <2>4, <3>1, <3>2, TwoElements
    <3> QED
      BY <2>1, <3>1, <3>3 DEF group
  <2>5. ASSUME NEW group \in conflicts, {c, d} \subseteq group
        PROVE  c.key = d.key /\ \E e \in ToSet(selected) : e.key = c.key /\ e.value # c.value
    <3>1. PICK a \in ToSet(selected) : group = Group(a.key)
      BY <2>1, <2>5
    <3>2. c.key = a.key /\ d.key = a.key /\ IsFiniteSet(values(group)) /\ c \in group
      BY <2>3, <2>5, <3>1
    <3>3. Cardinality(values(group)) > 1
      BY <2>1, <2>5
    <3>4. c.value \in values(group)
      BY <3>2
    <3> HIDE DEF values
    <3>5. PICK v \in values(group) : v # c.value
      BY <3>2, <3>3, <3>4, AnotherElement
    <3>6. PICK e \in group : v = e.value
      BY <3>5 DEF values
    <3> QED
      BY <2>3, <3>1, <3>2, <3>5, <3>6
  <2> QED
    BY <2>4, <2>5
<1> QED
  BY InvariantHolds, <1>1, PTL

\* A decision says "outside_date" exactly when the clause is.
Dated(st) ==
    \A i \in 1..Len(st) : \A v \in ToSet(corpus) :
        v.id = st[i].id => (st[i].decision = "outside_date" <=> ~InPeriod(v, context.day))

\* One more right decision leaves them all right.
LEMMA DatedAppends ==
    ASSUME WellFormed, NEW st \in Seq(Decision), Dated(st), NEW x \in Decision,
           NEW c \in ToSet(corpus), x.id = c.id,
           x.decision = "outside_date" <=> ~InPeriod(c, context.day)
    PROVE  Dated(Append(st, x))
<1>1. \A v, w \in ToSet(corpus) : v.id = w.id => v = w
  BY DEF WellFormed, UniqueIds, ToSet
<1> DEFINE longer == Append(st, x)
<1>2. /\ Len(longer) = Len(st) + 1 /\ Len(st) \in Nat
      /\ 1..Len(st) + 1 = 1..Len(st) \cup {Len(st) + 1}
      /\ \A i \in 1..Len(st) : longer[i] = st[i]
      /\ longer[Len(st) + 1] = x
  BY DecisionAppends
<1> HIDE DEF longer
<1>3. Dated(longer)
  BY <1>1, <1>2 DEF Dated
<1> QED
  BY <1>3 DEF longer

\* Every step keeps the decisions right about dates.
LEMMA StepDated == ASSUME IInv, Dated(steps), [Next]_vars PROVE Dated(steps)'
<1>1. UNCHANGED <<corpus, context>> /\ InputOK
  BY InputKept DEF IInv, Typed
<1>2. CASE UNCHANGED steps
  BY <1>1, <1>2 DEF Dated
<1>3. CASE Filter
  <2> DEFINE c == corpus[at + 1]
  <2>1. phase = "filter" /\ at < Len(corpus) /\ at \in Nat
    BY <1>3 DEF Filter, IInv, Typed
  <2>2. WellFormed /\ Explained(eligible, steps, at, 0)
    BY <2>1 DEF IInv, Checked, Selecting
  <2>3. steps \in Seq(Decision)
    BY <2>2 DEF Explained
  <2>4. c \in ToSet(corpus) /\ c.id \in Ids(corpus)
    BY <1>1, <2>1 DEF InputOK, SequencesOK, ToSet, Ids
  <2>5. CASE steps' = Append(steps, [id |-> c.id, decision |-> "outside_date", related |-> None])
             /\ ~InPeriod(c, context.day)
    <3> DEFINE x == [id |-> c.id, decision |-> "outside_date", related |-> None]
    <3>1. x \in Decision /\ x.id = c.id /\ x.decision = "outside_date"
      BY <2>4 DEF Decision
    <3> HIDE DEF c
    <3>2. Dated(Append(steps, x))
      BY <2>2, <2>3, <2>4, <2>5, <3>1, DatedAppends
    <3> QED
      BY <1>1, <2>5, <3>2 DEF Dated
  <2>6. CASE steps' = Append(steps, [id |-> c.id, decision |-> "outside_audience", related |-> None])
             /\ InPeriod(c, context.day)
    <3> DEFINE x == [id |-> c.id, decision |-> "outside_audience", related |-> None]
    <3>1. x \in Decision /\ x.id = c.id /\ x.decision # "outside_date"
      BY <2>4 DEF Decision
    <3> HIDE DEF c
    <3>2. Dated(Append(steps, x))
      BY <2>2, <2>3, <2>4, <2>6, <3>1, DatedAppends
    <3> QED
      BY <1>1, <2>6, <3>2 DEF Dated
  <2> QED
    BY <1>2, <1>3, <2>5, <2>6, Zenon DEF Filter, Step
<1>4. CASE Select
  <2> DEFINE c == eligible[at + 1]
  <2>1. phase = "select" /\ at < Len(eligible) /\ at \in Nat
    BY <1>4 DEF Select, IInv, Typed
  <2>2. /\ WellFormed /\ Explained(eligible, steps, Len(corpus), at) /\ Kept(eligible, Len(corpus))
        /\ displaced \in [Ids(corpus) -> Ids(corpus) \cup {None}]
    BY <2>1 DEF IInv, Checked, Selecting, Filtering, Spreading, AllDisplaced
  <2>3. steps \in Seq(Decision)
    BY <2>2 DEF Explained
  <2>4. c \in ToSet(corpus) /\ c.id \in Ids(corpus) /\ displaced[c.id] \in Ids(corpus) \cup {None}
    <3>1. at + 1 \in 1..Len(eligible)
      BY <2>1, <2>2, <1>1, KeptFacts
    <3>2. c \in ToSet(corpus) /\ c.id \in Ids(eligible) /\ Ids(eligible) \subseteq Ids(corpus)
      BY <1>1, <2>2, <3>1, KeptFacts
    <3> QED
      BY <2>2, <3>2
  <2>5. InPeriod(c, context.day)
    <3>1. c \in ToSet(eligible)
      <4>1. at + 1 \in DOMAIN eligible
        BY <2>1, <2>2 DEF Kept
      <4> QED
        BY <4>1 DEF ToSet
    <3>2. \A e \in ToSet(eligible) : AppliesTo(e, context)
      BY <2>2 DEF Kept
    <3> QED
      BY <3>1, <3>2 DEF AppliesTo
  <2>6. ASSUME NEW x \in Decision, x.id = c.id, x.decision \in {"applies", "overridden"},
               steps' = Append(steps, x)
        PROVE  Dated(steps)'
    <3> HIDE DEF c
    <3>1. Dated(Append(steps, x))
      BY <2>2, <2>3, <2>4, <2>5, <2>6, DatedAppends
    <3> QED
      BY <1>1, <2>6, <3>1 DEF Dated
  <2>7. CASE steps' = Append(steps, [id |-> c.id, decision |-> "overridden", related |-> displaced[c.id]])
    <3>1. [id |-> c.id, decision |-> "overridden", related |-> displaced[c.id]] \in Decision
      BY <2>4 DEF Decision
    <3> QED
      BY <2>6, <2>7, <3>1
  <2>8. CASE steps' = Append(steps, [id |-> c.id, decision |-> "applies", related |-> None])
    <3>1. [id |-> c.id, decision |-> "applies", related |-> None] \in Decision
      BY <2>4 DEF Decision
    <3> QED
      BY <2>6, <2>8, <3>1
  <2> QED
    BY <1>4, <2>7, <2>8, Zenon DEF Select, Step
<1>5. CASE CheckLinks \/ VisitRoot \/ VisitTarget \/ Leave \/ Accept
  <2>1. UNCHANGED steps
    BY <1>5, Zenon DEF CheckLinks, VisitRoot, VisitTarget, Leave, Accept, result
  <2> QED
    BY <1>2, <2>1
<1>6. CASE Filtered \/ DisplaceFrom \/ Displace \/ Displaced \/ Selected
  <2>1. UNCHANGED steps
    BY <1>6, Zenon DEF Filtered, DisplaceFrom, Displace, Displaced, Selected, result
  <2> QED
    BY <1>2, <2>1
<1>7. CASE UNCHANGED vars
  BY <1>2, <1>7 DEF vars, result
<1> QED
  BY <1>3, <1>4, <1>5, <1>6, <1>7, Zenon DEF Next

\* Of two versions of which one ends on the day the other starts, exactly one passes the
\* filter by date on any day from the start of the first to the end of the second.
THEOREM VersionsDoTakeTurns == Spec => []VersionsTakeTurns
<1>1. IInv /\ Dated(steps) => VersionsTakeTurns
  <2> DEFINE InTime(v) == \E i \in DOMAIN steps :
                              steps[i].id = v.id /\ steps[i].decision # "outside_date"
  <2> SUFFICES ASSUME IInv, Dated(steps), phase = "done",
                      NEW c \in ToSet(corpus), NEW d \in ToSet(corpus), c.end = d.start
               PROVE  /\ ~(InTime(c) /\ InTime(d))
                      /\ c.start =< context.day /\ (d.end = None \/ context.day < d.end)
                             => InTime(c) \/ InTime(d)
    BY DEF VersionsTakeTurns
  <2>1. /\ c.start \in Nat /\ c.end \in Nat \cup {None} /\ d.start \in Nat /\ d.end \in Nat \cup {None}
        /\ context.day \in Nat /\ InputOK
    BY DEF IInv, Typed
  <2>2. DOMAIN steps = 1..Len(steps)
    BY DEF IInv, Selecting, Explained
  <2>3. \A v \in ToSet(corpus) : InTime(v) <=> InPeriod(v, context.day)
    <3> SUFFICES ASSUME NEW v \in ToSet(corpus) PROVE InTime(v) <=> InPeriod(v, context.day)
      OBVIOUS
    <3>1. v.id \in {steps[i].id : i \in DOMAIN steps}
      <4>1. v.id \in Ids(corpus)
        BY IdsOfRange
      <4> QED
        BY <4>1, AllExplained DEF ExplanationComplete
    <3>2. PICK i \in DOMAIN steps : steps[i].id = v.id
      BY <3>1
    <3> QED
      BY <2>2, <3>2 DEF Dated
  <2>4. c.end \in Nat
    BY <2>1, NoneAssumption
  <2> HIDE DEF InTime
  <2> QED
    BY <2>1, <2>3, <2>4, NoneAssumption DEF InPeriod
<1>2. Init => Dated(steps)
  <2>1. Init => steps = <<>>
    BY DEF Init
  <2> QED
    BY <2>1 DEF Dated
<1>3. IInv /\ Dated(steps) /\ [Next]_vars => Dated(steps)'
  BY StepDated
<1> QED
  BY InvariantHolds, <1>1, <1>2, <1>3, PTL DEF Spec

\* One link less is left when the target is skipped, and one when its own links are added.
LEMMA PopShrinks ==
    ASSUME InputOK, WellFormed, Kept(eligible, Len(corpus)),
           pending \in Seq(Ids(corpus)), pending # <<>>, Displace
    PROVE  LinksLeft' < LinksLeft
<1> DEFINE target == Last(pending)
           f == [j \in DOMAIN eligible |-> Len(eligible[j].links)]
           unseen == {j \in DOMAIN eligible : eligible[j].id \notin seen}
           rest == Front(pending)
<1>1. /\ DOMAIN eligible = 1..Len(eligible) /\ Len(eligible) \in Nat
      /\ \A j \in DOMAIN eligible : f[j] \in Nat /\ Targets(eligible[j]) \in Seq(Ids(corpus))
                                   /\ Len(Targets(eligible[j])) = f[j]
                                   /\ ClauseOf(eligible, eligible[j].id) = eligible[j]
      /\ UniqueIds(eligible)
  <2>1. /\ eligible \in Seq(ToSet(corpus)) /\ Len(eligible) \in Nat /\ DOMAIN eligible = 1..Len(eligible)
        /\ UniqueIds(eligible)
    BY KeptFacts
  <2>2. ASSUME NEW j \in DOMAIN eligible
        PROVE  f[j] \in Nat /\ Len(Targets(eligible[j])) = f[j]
    <3>1. eligible[j] \in ToSet(corpus)
      BY <2>1
    <3>2. eligible[j].links \in Seq(ToSet(eligible[j].links))
      BY <3>1 DEF InputOK, SequencesOK
    <3> QED
      BY <3>2 DEF Targets
  <2>3. ASSUME NEW j \in DOMAIN eligible
        PROVE  /\ Targets(eligible[j]) \in Seq(Ids(corpus))
               /\ ClauseOf(eligible, eligible[j].id) = eligible[j]
    <3>1. Targets(eligible[j]) \in Seq(Ids(corpus))
      BY <2>1, KeptFacts
    <3>2. ToSet(eligible) = {eligible[k] : k \in DOMAIN eligible}
      BY DEF ToSet
    <3> QED
      BY <2>1, <3>1, <3>2, ClauseById
  <2> QED
    BY <2>1, <2>2, <2>3
<1>2. /\ IsFiniteSet(unseen) /\ unseen \subseteq DOMAIN eligible
      /\ SumFunctionOnSet(f, unseen) \in Nat
  <2>1. IsFiniteSet(DOMAIN eligible)
    BY <1>1, FS_Interval
  <2>2. IsFiniteSet(unseen)
    BY <2>1, FS_Subset
  <2> HIDE DEF f
  <2> QED
    BY <1>1, <2>2, SumType
<1>3. rest \in Seq(Ids(corpus)) /\ Len(rest) = Len(pending) - 1 /\ Len(pending) \in Nat
  BY RangeOfFront
<1>4. LinksLeft = Len(pending) + SumFunctionOnSet(f, unseen)
  BY DEF LinksLeft
<1>5. eligible' = eligible
  BY Zenon DEF Displace
<1>6. LinksLeft' = Len(pending') + SumFunctionOnSet(f, {j \in DOMAIN eligible : eligible[j].id \notin seen'})
  BY <1>5 DEF LinksLeft
<1>7. CASE pending' = rest /\ seen' = seen
  BY <1>2, <1>3, <1>4, <1>6, <1>7
<1>8. CASE /\ target \notin seen /\ target \in Ids(eligible) /\ seen' = seen \cup {target}
           /\ pending' = rest \o Targets(ClauseOf(eligible, target))
  <2>1. PICK k \in DOMAIN eligible : eligible[k].id = target
    BY <1>8 DEF Ids
  <2>2. {j \in DOMAIN eligible : eligible[j].id \notin seen'} = unseen \ {k} /\ k \in unseen
    BY <1>1, <1>8, <2>1 DEF UniqueIds
  <2>3. SumFunctionOnSet(f, unseen) = f[k] + SumFunctionOnSet(f, unseen \ {k})
    <3> HIDE DEF f
    <3> QED
      BY <1>1, <1>2, <2>2, SumRemove
  <2>4. SumFunctionOnSet(f, unseen \ {k}) \in Nat
    <3>1. IsFiniteSet(unseen \ {k})
      BY <1>2, FS_Subset
    <3> HIDE DEF f
    <3> QED
      BY <1>1, <1>2, <3>1, SumType
  <2>5. Len(pending') = (Len(pending) - 1) + f[k]
    <3>1. pending' = rest \o Targets(eligible[k])
      BY <1>1, <1>8, <2>1
    <3>2. \A p, q \in Seq(Ids(corpus)) : Len(p \o q) = Len(p) + Len(q)
      OBVIOUS
    <3>3. Targets(eligible[k]) \in Seq(Ids(corpus)) /\ Len(Targets(eligible[k])) = f[k]
      BY <1>1
    <3> HIDE DEF rest, f
    <3> QED
      BY <1>3, <3>1, <3>2, <3>3
  <2>6. LinksLeft' = Len(pending') + SumFunctionOnSet(f, unseen \ {k})
    BY <1>6, <2>2
  <2>7. f[k] \in Nat
    BY <1>1
  <2> HIDE DEF f, unseen
  <2> QED
    BY <1>3, <1>4, <2>3, <2>4, <2>5, <2>6, <2>7
<1> QED
  BY <1>7, <1>8, Zenon DEF Displace

\* Displacement follows every link at most once for each clause it starts from: each step of
\* the work list leaves fewer links to follow, for every corpus that was accepted.
THEOREM LinksOnce == Spec => LinksFollowedOnce
<1>1. ASSUME IInv, [Next]_vars, phase = "displace", pending # <<>>, vars' # vars
      PROVE  LinksLeft' < LinksLeft
  <2>1. /\ InputOK /\ WellFormed /\ Kept(eligible, Len(corpus)) /\ pending \in Seq(Ids(corpus))
    BY <1>1 DEF IInv, Typed, Checked, Filtering, Spreading, Displacing
  <2>2. Displace
    BY <1>1, Zenon DEF Next, CheckLinks, VisitRoot, VisitTarget, Leave, Accept, Filter, Filtered,
                       DisplaceFrom, Displaced, Select, Selected
  <2> QED
    BY <1>1, <2>1, <2>2, PopShrinks
<1>2. IInv /\ [Next]_vars => [phase = "displace" /\ pending # <<>> => LinksLeft' < LinksLeft]_vars
  BY <1>1
<1> QED
  BY InvariantHolds, <1>2, PTL DEF Spec, LinksFollowedOnce
=============================================================================
