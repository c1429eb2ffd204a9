------------------------------- MODULE Sums -------------------------------
(***************************************************************************)
(* Lemmas about sums over finite sets (SumFunctionOnSet of Functions), which *)
(* the ledger's totals and the calls' bills are.  The library's sum is a     *)
(* recursion that counts an arbitrary member first; here it is proved to     *)
(* have a value that does not depend on the choice.  The induction theorems  *)
(* of the library have an operator as a parameter; the inductions here are   *)
(* stated over sets instead, by minimal counterexample.                      *)
(***************************************************************************)
EXTENDS Naturals, Functions, FiniteSetTheorems, TLAPS

\* What holds of a set as soon as it holds of its strict subsets holds of every subset of a
\* finite S. U stands for the sets it holds of: a minimal set outside U cannot exist.
LEMMA SetInduction ==
    ASSUME NEW S, IsFiniteSet(S), NEW U,
           \A t \in SUBSET S : (\A u \in SUBSET t : u # t => u \in U) => t \in U
    PROVE  SUBSET S \subseteq U
<1> DEFINE R == StrictSubsetOrdering(S)
           T == (SUBSET S) \ U
<1>1. IsWellFoundedOn(R, SUBSET S)
  BY FS_StrictSubsetOrderingWellFounded, FS_FiniteSubsetsOfFinite
<1> SUFFICES ASSUME T # {} PROVE FALSE
  OBVIOUS
<1>2. PICK t \in T : \A u \in T : <<u, t>> \notin R
  <2> HIDE DEF R, T
  <2>1. T \subseteq SUBSET S
    BY DEF T
  <2> QED
    BY <1>1, <2>1, WFMin
<1>3. ASSUME NEW u \in SUBSET t, u # t PROVE u \in U
  <2>1. <<u, t>> \in R
    BY <1>3 DEF StrictSubsetOrdering
  <2> QED
    BY <1>2, <2>1
<1> QED
  BY <1>2, <1>3

\* Induction over the natural numbers, in the same form.
LEMMA NaturalInduction ==
    ASSUME NEW U, 0 \in U, \A n \in Nat : n \in U => n + 1 \in U
    PROVE  Nat \subseteq U
<1> DEFINE R == OpToRel(<, Nat)
           T == Nat \ U
<1>1. IsWellFoundedOn(R, Nat)
  BY NatLessThanWellFounded
<1> SUFFICES ASSUME T # {} PROVE FALSE
  OBVIOUS
<1>2. PICK n \in T : \A m \in T : <<m, n>> \notin R
  <2> HIDE DEF R, T
  <2>1. T \subseteq Nat
    BY DEF T
  <2> QED
    BY <1>1, <2>1, WFMin
<1>3. n \in Nat /\ n # 0 /\ n \notin U
  BY <1>2
<1>4. n - 1 \in Nat /\ (n - 1) + 1 = n
  BY <1>3
<1>5. <<n - 1, n>> \in R
  BY <1>3, <1>4 DEF OpToRel
<1>6. n - 1 \in U
  BY <1>2, <1>4, <1>5
<1> QED
  BY <1>3, <1>4, <1>6

-----------------------------------------------------------------------------

\* The definition of FoldFunctionOnSet, taken apart: the member counted first, the sum of a
\* set given those of its subsets, and the function that sums every subset of S.
AnyOf(s) == CHOOSE x \in s : TRUE
Count(f, sum, s) == IF s = {} THEN 0 ELSE f[AnyOf(s)] + sum[s \ {AnyOf(s)}]
Adds(sum, f, S) == sum = [s \in SUBSET S |-> Count(f, sum, s)]
TheSum(f, S) == CHOOSE sum : Adds(sum, f, S)

\* The sum of the community modules is the value of that function at the whole set.
LEMMA Unfold == \A f, S : SumFunctionOnSet(f, S) = TheSum(f, S)[S]
BY DEF SumFunctionOnSet, FoldFunctionOnSet, MapThenFoldSet, TheSum, Adds, AnyOf, Count

\* The subsets of at most n members, and a function that sums those.
Level(S, n) == {s \in SUBSET S : Cardinality(s) =< n}
AddsTo(sum, f, S, n) == sum = [s \in Level(S, n) |-> Count(f, sum, s)]

\* The member counted first is one of the set.
LEMMA AnyMember == \A s : s # {} => AnyOf(s) \in s
BY DEF AnyOf

\* Without the member counted first a set is one level down.
LEMMA Lower ==
    ASSUME NEW S, IsFiniteSet(S), NEW n \in Nat, NEW s \in Level(S, n + 1), s # {}
    PROVE  s \ {AnyOf(s)} \in Level(S, n)
<1>1. IsFiniteSet(s) /\ AnyOf(s) \in s
  BY FS_Subset, AnyMember DEF Level
<1>2. Cardinality(s) \in Nat /\ Cardinality(s \ {AnyOf(s)}) = Cardinality(s) - 1
  BY <1>1, FS_CardinalityType, FS_RemoveElement
<1> QED
  BY <1>2 DEF Level

\* Every level has a summing function: the one of the level below, carried one step on.
LEMMA PartialSum ==
    ASSUME NEW f, NEW S, IsFiniteSet(S)
    PROVE  \A n \in Nat : \E sum : AddsTo(sum, f, S, n)
<1> DEFINE U == {n \in Nat : \E sum : AddsTo(sum, f, S, n)}
<1>1. 0 \in U
  <2> DEFINE sum == [s \in Level(S, 0) |-> 0]
  <2>1. ASSUME NEW s \in Level(S, 0) PROVE s = {}
    <3>1. IsFiniteSet(s) /\ Cardinality(s) =< 0
      BY FS_Subset DEF Level
    <3> QED
      BY <3>1, FS_CardinalityType, FS_EmptySet
  <2>2. AddsTo(sum, f, S, 0)
    BY <2>1 DEF AddsTo, Count
  <2> QED
    BY <2>2
<1>2. ASSUME NEW n \in Nat, n \in U PROVE n + 1 \in U
  <2>1. PICK g : AddsTo(g, f, S, n)
    BY <1>2
  <2> DEFINE h == [s \in Level(S, n + 1) |-> Count(f, g, s)]
  <2>2. \A s \in Level(S, n) : s \in Level(S, n + 1) /\ h[s] = g[s]
    <3>1. \A s \in Level(S, n) : s \in Level(S, n + 1)
      <4> SUFFICES ASSUME NEW s \in Level(S, n) PROVE s \in Level(S, n + 1)
        OBVIOUS
      <4>1. IsFiniteSet(s) /\ Cardinality(s) =< n
        BY FS_Subset DEF Level
      <4> QED
        BY <4>1, FS_CardinalityType DEF Level
    <3> QED
      BY <2>1, <3>1 DEF AddsTo
  <2>3. \A s \in Level(S, n + 1) : h[s] = Count(f, g, s) /\ Count(f, g, s) = Count(f, h, s)
    <3> SUFFICES ASSUME NEW s \in Level(S, n + 1) PROVE Count(f, g, s) = Count(f, h, s)
      OBVIOUS
    <3> HIDE DEF h
    <3> QED
      BY <2>2, Lower DEF Count
  <2>4. h = [s \in Level(S, n + 1) |-> h[s]]
    OBVIOUS
  <2> HIDE DEF h
  <2>5. AddsTo(h, f, S, n + 1)
    BY <2>3, <2>4 DEF AddsTo
  <2> QED
    BY <2>5
<1> HIDE DEF U
<1>3. Nat \subseteq U
  BY <1>1, <1>2, NaturalInduction
<1> QED
  BY <1>3 DEF U

\* So the recursion of the sum has a solution, and TheSum is one.
LEMMA SumDefined == ASSUME NEW f, NEW S, IsFiniteSet(S) PROVE Adds(TheSum(f, S), f, S)
<1>1. Cardinality(S) \in Nat
  BY FS_CardinalityType
<1>2. PICK sum : AddsTo(sum, f, S, Cardinality(S))
  BY <1>1, PartialSum
<1>3. Level(S, Cardinality(S)) = SUBSET S
  BY FS_Subset DEF Level
<1>4. Adds(sum, f, S)
  BY <1>2, <1>3 DEF AddsTo, Adds
<1> QED
  BY <1>4 DEF TheSum

\* Within the sum of S, a subset s has its own sum.
LEMMA Restricts ==
    ASSUME NEW f, NEW S, IsFiniteSet(S), NEW s \in SUBSET S
    PROVE  TheSum(f, S)[s] = SumFunctionOnSet(f, s)
<1> DEFINE U == {u \in SUBSET s : TheSum(f, S)[u] = TheSum(f, s)[u]}
<1>1. IsFiniteSet(s)
  BY FS_Subset
<1>2. Adds(TheSum(f, S), f, S) /\ Adds(TheSum(f, s), f, s)
  BY <1>1, SumDefined
<1>3. ASSUME NEW t \in SUBSET s, \A u \in SUBSET t : u # t => u \in U PROVE t \in U
  <2>1. /\ TheSum(f, S)[t] = Count(f, TheSum(f, S), t)
        /\ TheSum(f, s)[t] = Count(f, TheSum(f, s), t)
    BY <1>2 DEF Adds
  <2>2. t # {} => t \ {AnyOf(t)} \in U
    BY <1>3, AnyMember
  <2> QED
    BY <2>1, <2>2 DEF Count
<1> HIDE DEF U
<1>4. SUBSET s \subseteq U
  BY <1>1, <1>3, SetInduction
<1> QED
  BY <1>4, Unfold DEF U

\* The sum as a recursion over any choice.
LEMMA SumEmpty == ASSUME NEW f PROVE SumFunctionOnSet(f, {}) = 0
<1>1. Adds(TheSum(f, {}), f, {})
  BY SumDefined, FS_EmptySet
<1> QED
  BY <1>1, Unfold DEF Adds, Count

\* A sum is one member's value and the sum of the rest.
LEMMA SumAny ==
    ASSUME NEW f, NEW S, IsFiniteSet(S), S # {}
    PROVE  SumFunctionOnSet(f, S) = f[AnyOf(S)] + SumFunctionOnSet(f, S \ {AnyOf(S)})
<1>1. Adds(TheSum(f, S), f, S)
  BY SumDefined
<1>2. TheSum(f, S)[S] = Count(f, TheSum(f, S), S)
  BY <1>1 DEF Adds
<1>3. TheSum(f, S)[S \ {AnyOf(S)}] = SumFunctionOnSet(f, S \ {AnyOf(S)})
  BY Restricts
<1> QED
  BY <1>2, <1>3, Unfold DEF Count

\* A sum of natural numbers is a natural number.
LEMMA SumType ==
    ASSUME NEW S, IsFiniteSet(S), NEW f, \A x \in S : f[x] \in Nat
    PROVE  SumFunctionOnSet(f, S) \in Nat
<1> DEFINE U == {u \in SUBSET S : SumFunctionOnSet(f, u) \in Nat}
<1>1. ASSUME NEW t \in SUBSET S, \A u \in SUBSET t : u # t => u \in U PROVE t \in U
  <2>1. IsFiniteSet(t)
    BY FS_Subset
  <2>2. CASE t = {}
    BY <2>2, SumEmpty
  <2>3. CASE t # {}
    <3>1. AnyOf(t) \in t /\ t \ {AnyOf(t)} \in U
      BY <1>1, <2>3, AnyMember
    <3>2. SumFunctionOnSet(f, t) = f[AnyOf(t)] + SumFunctionOnSet(f, t \ {AnyOf(t)})
      BY <2>1, <2>3, SumAny
    <3> QED
      BY <3>1, <3>2
  <2> QED
    BY <2>2, <2>3
<1> HIDE DEF U
<1>2. SUBSET S \subseteq U
  BY <1>1, SetInduction
<1> QED
  BY <1>2 DEF U

\* Any member may be counted first.
LEMMA SumRemove ==
    ASSUME NEW S, IsFiniteSet(S), NEW f, \A x \in S : f[x] \in Nat, NEW x \in S
    PROVE  SumFunctionOnSet(f, S) = f[x] + SumFunctionOnSet(f, S \ {x})
<1> DEFINE Sum(u) == SumFunctionOnSet(f, u)
           U == {u \in SUBSET S : \A y \in u : Sum(u) = f[y] + Sum(u \ {y})}
<1>0. \A u \in SUBSET S : IsFiniteSet(u) /\ Sum(u) \in Nat
  BY FS_Subset, SumType
<1>1. ASSUME NEW t \in SUBSET S, \A u \in SUBSET t : u # t => u \in U PROVE t \in U
  <2> SUFFICES ASSUME NEW y \in t PROVE Sum(t) = f[y] + Sum(t \ {y})
    OBVIOUS
  <2> DEFINE a == AnyOf(t)
  <2>1. a \in t
    BY AnyMember
  <2>2. Sum(t) = f[a] + Sum(t \ {a})
    BY <1>0, SumAny
  <2>3. CASE a = y
    BY <2>2, <2>3
  <2>4. CASE a # y
    <3> HIDE DEF a, Sum
    <3>1. t \ {a} \in U /\ t \ {y} \in U
      BY <1>1, <2>1
    <3>2. Sum(t \ {a}) = f[y] + Sum((t \ {a}) \ {y})
      BY <3>1, <2>4
    <3>3. Sum(t \ {y}) = f[a] + Sum((t \ {y}) \ {a})
      BY <3>1, <2>1, <2>4
    <3>4. (t \ {a}) \ {y} = (t \ {y}) \ {a}
      OBVIOUS
    <3>5. Sum((t \ {a}) \ {y}) \in Nat /\ f[a] \in Nat /\ f[y] \in Nat
      BY <1>0, <2>1
    <3> QED
      BY <2>2, <3>2, <3>3, <3>4, <3>5
  <2> QED
    BY <2>3, <2>4
<1> HIDE DEF U
<1>2. SUBSET S \subseteq U
  BY <1>1, SetInduction
<1> QED
  BY <1>2 DEF U

\* One member more adds its value.
LEMMA SumAdd ==
    ASSUME NEW S, IsFiniteSet(S), NEW f, NEW x, x \notin S, \A y \in S \cup {x} : f[y] \in Nat
    PROVE  SumFunctionOnSet(f, S \cup {x}) = f[x] + SumFunctionOnSet(f, S)
<1>1. IsFiniteSet(S \cup {x})
  BY FS_AddElement
<1>2. (S \cup {x}) \ {x} = S
  OBVIOUS
<1> QED
  BY <1>1, <1>2, SumRemove

\* Only the values within the set matter.
LEMMA SumSame ==
    ASSUME NEW S, IsFiniteSet(S), NEW f, NEW g, \A x \in S : f[x] = g[x]
    PROVE  SumFunctionOnSet(f, S) = SumFunctionOnSet(g, S)
<1> DEFINE U == {u \in SUBSET S : SumFunctionOnSet(f, u) = SumFunctionOnSet(g, u)}
<1>1. ASSUME NEW t \in SUBSET S, \A u \in SUBSET t : u # t => u \in U PROVE t \in U
  <2>1. IsFiniteSet(t)
    BY FS_Subset
  <2>2. CASE t = {}
    BY <2>2, SumEmpty
  <2>3. CASE t # {}
    <3>1. AnyOf(t) \in t /\ t \ {AnyOf(t)} \in U
      BY <1>1, <2>3, AnyMember
    <3>2. /\ SumFunctionOnSet(f, t) = f[AnyOf(t)] + SumFunctionOnSet(f, t \ {AnyOf(t)})
          /\ SumFunctionOnSet(g, t) = g[AnyOf(t)] + SumFunctionOnSet(g, t \ {AnyOf(t)})
      BY <2>1, <2>3, SumAny
    <3> QED
      BY <3>1, <3>2
  <2> QED
    BY <2>2, <2>3
<1> HIDE DEF U
<1>2. SUBSET S \subseteq U
  BY <1>1, SetInduction
<1> QED
  BY <1>2 DEF U

\* A sum is at most another one if an injection takes each member to one of at least its
\* value.
LEMMA SumInjection ==
    ASSUME NEW S, IsFiniteSet(S), NEW f, \A x \in S : f[x] \in Nat,
           NEW T, IsFiniteSet(T), NEW g, \A y \in T : g[y] \in Nat,
           NEW h \in [S -> T], \A x, y \in S : h[x] = h[y] => x = y,
           \A x \in S : f[x] =< g[h[x]]
    PROVE  SumFunctionOnSet(f, S) =< SumFunctionOnSet(g, T)
<1> DEFINE F(u) == SumFunctionOnSet(f, u)
           G(v) == SumFunctionOnSet(g, v)
           U == {u \in SUBSET S : \A v \in SUBSET T : (\A x \in u : h[x] \in v) => F(u) =< G(v)}
<1>0. /\ \A u \in SUBSET S : IsFiniteSet(u) /\ F(u) \in Nat
      /\ \A v \in SUBSET T : IsFiniteSet(v) /\ G(v) \in Nat
  BY FS_Subset, SumType
<1>1. ASSUME NEW t \in SUBSET S, \A u \in SUBSET t : u # t => u \in U PROVE t \in U
  <2> SUFFICES ASSUME NEW v \in SUBSET T, \A x \in t : h[x] \in v PROVE F(t) =< G(v)
    OBVIOUS
  <2>1. CASE t = {}
    BY <1>0, <2>1, SumEmpty
  <2>2. CASE t # {}
    <3>1. PICK x \in t : TRUE
      BY <2>2
    <3>2. F(t) = f[x] + F(t \ {x}) /\ G(v) = g[h[x]] + G(v \ {h[x]})
      BY <1>0, <3>1, SumRemove
    <3> HIDE DEF F, G
    <3>3. t \ {x} \in U
      BY <1>1, <3>1
    <3>4. \A y \in t \ {x} : h[y] \in v \ {h[x]}
      BY <3>1
    <3>5. F(t \ {x}) =< G(v \ {h[x]})
      BY <3>3, <3>4
    <3>6. F(t \ {x}) \in Nat /\ G(v \ {h[x]}) \in Nat /\ f[x] \in Nat /\ g[h[x]] \in Nat
      BY <1>0, <3>1
    <3> QED
      BY <3>2, <3>5, <3>6
  <2> QED
    BY <2>1, <2>2
<1> HIDE DEF U
<1>2. SUBSET S \subseteq U
  BY <1>1, SetInduction
<1> QED
  BY <1>2 DEF U

\* What the two updates of a table of sums do: a member comes in, a member goes out.
LEMMA SumGrows ==
    ASSUME NEW S, IsFiniteSet(S), NEW f, \A x \in S : f[x] \in Nat,
           NEW r, r \notin S, NEW g, \A x \in S : g[x] = f[x], g[r] \in Nat
    PROVE  SumFunctionOnSet(g, S \cup {r}) = SumFunctionOnSet(f, S) + g[r]
<1>1. SumFunctionOnSet(g, S \cup {r}) = g[r] + SumFunctionOnSet(g, S)
  BY SumAdd
<1>2. SumFunctionOnSet(g, S) = SumFunctionOnSet(f, S) /\ SumFunctionOnSet(f, S) \in Nat
  BY SumSame, SumType
<1> QED
  BY <1>1, <1>2

\* One member less takes its value away, whatever the table then says of it.
LEMMA SumShrinks ==
    ASSUME NEW S, IsFiniteSet(S), NEW f, \A x \in S : f[x] \in Nat,
           NEW r \in S, NEW g, \A x \in S \ {r} : g[x] = f[x]
    PROVE  SumFunctionOnSet(g, S \ {r}) = SumFunctionOnSet(f, S) - f[r]
<1>1. IsFiniteSet(S \ {r})
  BY FS_Subset
<1>2. SumFunctionOnSet(f, S) = f[r] + SumFunctionOnSet(f, S \ {r})
  BY SumRemove
<1>3. SumFunctionOnSet(g, S \ {r}) = SumFunctionOnSet(f, S \ {r}) /\ SumFunctionOnSet(f, S \ {r}) \in Nat
  BY <1>1, SumSame, SumType
<1> QED
  BY <1>2, <1>3

\* The sum of two sets without a common member.
LEMMA SumUnion ==
    ASSUME NEW S, IsFiniteSet(S), NEW T, IsFiniteSet(T), S \cap T = {},
           NEW f, \A x \in S \cup T : f[x] \in Nat
    PROVE  SumFunctionOnSet(f, S \cup T) = SumFunctionOnSet(f, S) + SumFunctionOnSet(f, T)
<1> DEFINE Sum(u) == SumFunctionOnSet(f, u)
           U == {u \in SUBSET S : Sum(u \cup T) = Sum(u) + Sum(T)}
<1>0. \A u \in SUBSET (S \cup T) : IsFiniteSet(u) /\ Sum(u) \in Nat
  BY FS_Union, FS_Subset, SumType
<1>1. ASSUME NEW t \in SUBSET S, \A u \in SUBSET t : u # t => u \in U PROVE t \in U
  <2>1. CASE t = {}
    <3>1. Sum({}) = 0 /\ Sum(T) \in Nat /\ {} \cup T = T
      BY <1>0, SumEmpty
    <3> HIDE DEF Sum
    <3> QED
      BY <2>1, <3>1
  <2>2. CASE t # {}
    <3>1. PICK x \in t : TRUE
      BY <2>2
    <3>2. t \ {x} \in U
      BY <1>1, <3>1
    <3>3. Sum(t) = f[x] + Sum(t \ {x})
      BY <1>0, <3>1, SumRemove
    <3>4. (t \cup T) \ {x} = (t \ {x}) \cup T
      BY <3>1
    <3>5. Sum(t \cup T) = f[x] + Sum((t \ {x}) \cup T)
      <4>1. Sum(t \cup T) = f[x] + Sum((t \cup T) \ {x})
        BY <1>0, <3>1, SumRemove
      <4> QED
        BY <3>4, <4>1
    <3>6. Sum(t \ {x}) \in Nat /\ Sum(T) \in Nat /\ f[x] \in Nat
      BY <1>0, <3>1
    <3> HIDE DEF Sum
    <3>7. Sum((t \ {x}) \cup T) = Sum(t \ {x}) + Sum(T)
      BY <3>2
    <3>8. Sum(t \cup T) = Sum(t) + Sum(T)
      BY <3>3, <3>5, <3>6, <3>7
    <3> QED
      BY <3>8
  <2> QED
    BY <2>1, <2>2
<1> HIDE DEF U
<1>2. SUBSET S \subseteq U
  BY <1>1, SetInduction
<1> QED
  BY <1>2 DEF U
===============================================================================
