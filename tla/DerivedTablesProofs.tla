------------------------ MODULE DerivedTablesProofs ------------------------
(******************************************************************************)
(* What the theorems about the tables (LogStoreProofs) and about the          *)
(* statistics (StatisticsProofs) need of the operators of DerivedTables, and  *)
(* of finite sets, sums and extremes.                                         *)
(******************************************************************************)
EXTENDS DerivedTables, FiniteSetTheorems, NaturalsInduction, WellFoundedInduction, TLAPS

----------------------------
(* FINITE SETS                                                             *)

LEMMA LeastSubset ==
  ASSUME NEW S, IsFiniteSet(S), NEW T \in SUBSET (SUBSET S), T # {}
  PROVE  \E m \in T : \A t \in T : t \subseteq m => t = m
<1>1. IsWellFoundedOn(StrictSubsetOrdering(S), FiniteSubsetsOf(S))
  BY FS_StrictSubsetOrderingWellFounded
<1>2. T \subseteq FiniteSubsetsOf(S)
  BY FS_Subset DEF FiniteSubsetsOf
<1>3. PICK m \in T : \A t \in T : ~ (<<t, m>> \in StrictSubsetOrdering(S))
  BY <1>1, <1>2, WFMin
<1>4. \A t \in T : t \subseteq m /\ t # m => <<t, m>> \in StrictSubsetOrdering(S)
  BY DEF StrictSubsetOrdering
<1> SUFFICES ASSUME NEW t \in T, t \subseteq m, t # m PROVE FALSE
  BY Zenon
<1> QED BY <1>3, <1>4, Zenon

\* Induction on the subsets of a finite set: G are those with a property.
LEMMA Smaller ==
  ASSUME NEW S, IsFiniteSet(S), NEW G,
         \A u \in SUBSET S : (\A v \in SUBSET u : v # u => v \in G) => u \in G
  PROVE  \A u \in SUBSET S : u \in G
<1> DEFINE T == (SUBSET S) \ G
<1> SUFFICES ASSUME T # {} PROVE FALSE
  OBVIOUS
<1>1. T \in SUBSET (SUBSET S)
  OBVIOUS
<1>2. PICK m \in T : \A t \in T : t \subseteq m => t = m
  <2> HIDE DEF T
  <2> QED BY <1>1, LeastSubset
<1>3. m \in SUBSET S /\ m \notin G
  OBVIOUS
<1>4. \A v \in SUBSET m : v # m => v \in G
  BY <1>2, <1>3
<1> QED BY <1>3, <1>4

LEMMA OneMore ==
  ASSUME NEW S, IsFiniteSet(S), NEW G, {} \in G,
         \A u \in SUBSET S : \A x \in u : u \ {x} \in G => u \in G
  PROVE  S \in G
<1> SUFFICES ASSUME NEW u \in SUBSET S, \A v \in SUBSET u : v # u => v \in G PROVE u \in G
  <2>1. \A u \in SUBSET S : (\A v \in SUBSET u : v # u => v \in G) => u \in G
    OBVIOUS
  <2> QED BY ONLY <2>1, IsFiniteSet(S), Smaller
<1>1. CASE u = {}
  BY <1>1
<1>2. CASE u # {}
  <2>1. PICK x \in u : TRUE
    BY <1>2
  <2>2. u \ {x} \in SUBSET u /\ u \ {x} # u
    BY <2>1
  <2> QED BY <2>1, <2>2
<1> QED BY <1>1, <1>2

----------------------------
(* SUMS                                                                    *)

Some(s) == CHOOSE x \in s : TRUE
LEMMA SomeIn == \A s : s # {} => Some(s) \in s
BY DEF Some

Iterates(it, f, R) ==
  it = [s \in SUBSET R |-> IF s = {} THEN 0 ELSE f[Some(s)] + it[s \ {Some(s)}]]

LEMMA SumIs ==
  ASSUME NEW f
  PROVE SumOf(f) = (CHOOSE it : Iterates(it, f, DOMAIN f))[DOMAIN f]
BY DEF SumOf, MapThenSumSet, MapThenFoldSet, Iterates, Some

Adding(it, f, s) == it[s] = f[Some(s)] + it[s \ {Some(s)}]

LEMMA IterateNone ==
  ASSUME NEW f, NEW X, NEW it, Iterates(it, f, X)
  PROVE  it[{}] = 0
<1> DEFINE h(u) == IF u = {} THEN 0 ELSE f[Some(u)] + it[u \ {Some(u)}]
           g == [u \in SUBSET X |-> h(u)]
<1>1. it = g
  BY DEF Iterates
<1>2. g[{}] = h({})
  OBVIOUS
<1>3. h({}) = 0
  OBVIOUS
<1> HIDE DEF g, h
<1> QED BY <1>1, <1>2, <1>3

LEMMA IterateOnce ==
  ASSUME NEW f, NEW X, NEW it, Iterates(it, f, X), NEW s \in SUBSET X, s # {}
  PROVE  Adding(it, f, s)
<1> DEFINE h(u) == IF u = {} THEN 0 ELSE f[Some(u)] + it[u \ {Some(u)}]
           g == [u \in SUBSET X |-> h(u)]
<1>1. it = g
  BY DEF Iterates
<1>2. g[s] = h(s)
  OBVIOUS
<1>3. h(s) = f[Some(s)] + it[s \ {Some(s)}]
  OBVIOUS
<1> HIDE DEF g, h
<1> QED BY <1>1, <1>2, <1>3 DEF Adding

LEMMA IteratesAgree ==
  ASSUME NEW R, NEW Q, R \subseteq Q, IsFiniteSet(R),
         NEW f, NEW it, Iterates(it, f, R), NEW jt, Iterates(jt, f, Q), NEW s \in SUBSET R
  PROVE  it[s] = jt[s]
<1> DEFINE G == {u \in SUBSET R : it[u] = jt[u]}
<1>1. {} \in G
  <2>1. it[{}] = 0 /\ jt[{}] = 0
    BY IterateNone
  <2> QED BY <2>1
<1>2. ASSUME NEW u \in SUBSET R, u # {}, u \ {Some(u)} \in G PROVE u \in G
  <2>1. Adding(it, f, u) /\ Adding(jt, f, u)
    BY <1>2, IterateOnce
  <2>2. Some(u) \in R
    BY <1>2, SomeIn
  <2> QED BY <1>2, <2>1, <2>2 DEF Adding
<1> DEFINE T == (SUBSET R) \ G
<1> SUFFICES ASSUME T # {} PROVE FALSE
  OBVIOUS
<1>3. T \in SUBSET (SUBSET R)
  OBVIOUS
<1>4. PICK m \in T : \A t \in T : t \subseteq m => t = m
  <2> HIDE DEF T
  <2> QED BY <1>3, LeastSubset
<1> HIDE DEF G
<1>5. m # {} /\ m \in SUBSET R /\ m \notin G
  BY <1>1
<1>6. m \ {Some(m)} \subseteq m /\ m \ {Some(m)} # m
  BY <1>5, SomeIn
<1>7. m \ {Some(m)} \in G
  BY <1>4, <1>5, <1>6
<1> QED BY <1>2, <1>5, <1>7

LEMMA IterateExists ==
  ASSUME NEW f, NEW R, IsFiniteSet(R)
  PROVE  \E it : Iterates(it, f, R)
<1> DEFINE Has(u) == \E it : Iterates(it, f, u)
           T == {u \in SUBSET R : ~Has(u)}
<1> SUFFICES ASSUME T # {} PROVE FALSE
  OBVIOUS
<1>0. T \in SUBSET (SUBSET R)
  OBVIOUS
<1>1. PICK m \in T : \A t \in T : t \subseteq m => t = m
  <2> HIDE DEF T
  <2> QED BY <1>0, LeastSubset
<1>2. m \in SUBSET R /\ ~Has(m)
  OBVIOUS
<1> DEFINE h(u) == CHOOSE it : Iterates(it, f, u)
<1>3. \A u \in SUBSET m : u # m => Iterates(h(u), f, u)
  <2> TAKE u \in SUBSET m
  <2> HAVE u # m
  <2>1. Has(u)
    BY <1>1, <1>2
  <2> QED BY <2>1
<1> DEFINE v(u) == IF u = {} THEN 0 ELSE f[Some(u)] + h(u \ {Some(u)})[u \ {Some(u)}]
           g == [u \in SUBSET m |-> v(u)]
<1> HIDE DEF h, T, Has
<1>4. ASSUME NEW u \in SUBSET m, u # {}
      PROVE  g[u \ {Some(u)}] = h(u \ {Some(u)})[u \ {Some(u)}]
  <2> DEFINE w == u \ {Some(u)}
             x == w \ {Some(w)}
  <2>1. w \in SUBSET m /\ w # m /\ IsFiniteSet(w)
    BY <1>2, <1>4, SomeIn, FS_Subset
  <2>2. Iterates(h(w), f, w)
    BY <2>1, <1>3
  <2>3. g[w] = v(w)
    BY <2>1
  <2>4. w # {} => h(w)[w] = f[Some(w)] + h(w)[x]
    <3> HIDE DEF w
    <3> QED BY <2>2, IterateOnce DEF Adding
  <2>5. CASE w = {}
    <3>1. h({})[{}] = 0
      <4> HIDE DEF w
      <4> QED BY <2>2, <2>5, IterateNone
    <3> QED BY <2>3, <3>1, <2>5
  <2>6. CASE w # {}
    <3>1. x \subseteq w /\ x # w /\ x \in SUBSET m /\ x # m /\ IsFiniteSet(x)
      BY <2>1, <2>6, SomeIn, FS_Subset
    <3>2. Iterates(h(x), f, x)
      BY <3>1, <1>3
    <3> HIDE DEF w, x
    <3>3. h(x)[x] = h(w)[x]
      BY <2>1, <2>2, <3>1, <3>2, IteratesAgree
    <3>4. v(w) = f[Some(w)] + h(x)[x]
      BY <2>6 DEF x
    <3> QED BY <2>3, <2>4, <2>6, <3>3, <3>4 DEF w
  <2> QED BY <2>5, <2>6
<1>5. g = [u \in SUBSET m |-> IF u = {} THEN 0 ELSE f[Some(u)] + g[u \ {Some(u)}]]
  <2> DEFINE k == [u \in SUBSET m |-> IF u = {} THEN 0 ELSE f[Some(u)] + g[u \ {Some(u)}]]
  <2>1. \A u \in SUBSET m : g[u] = k[u]
    <3> TAKE u \in SUBSET m
    <3>1. CASE u = {}
      BY <3>1
    <3>2. CASE u # {}
      <4>1. g[u] = f[Some(u)] + h(u \ {Some(u)})[u \ {Some(u)}]
        BY <3>2
      <4>2. k[u] = f[Some(u)] + g[u \ {Some(u)}]
        BY <3>2
      <4> QED BY <1>4, <3>2, <4>1, <4>2
    <3> QED BY <3>1, <3>2
  <2> QED BY <2>1
<1>6. Iterates(g, f, m)
  BY <1>5 DEF Iterates
<1> QED BY <1>2, <1>6 DEF Has

Portion(f, S) == [x \in S |-> f[x]]

LEMMA PartSum ==
  ASSUME NEW f, NEW S, IsFiniteSet(S)
  PROVE  \E it : Iterates(it, f, S) /\ SumOf(Portion(f, S)) = it[S]
<1> DEFINE g == Portion(f, S)
           it == CHOOSE jt : Iterates(jt, g, S)
<1>1. DOMAIN g = S /\ \A x \in S : g[x] = f[x]
  BY DEF Portion
<1> HIDE DEF g
<1>2. Iterates(it, g, S)
  BY IterateExists
<1>3. SumOf(g) = it[S]
  BY <1>1, SumIs
<1> HIDE DEF it
<1>4. Iterates(it, f, S)
  <2> DEFINE h(F, s) == IF s = {} THEN 0 ELSE F[Some(s)] + it[s \ {Some(s)}]
  <2>1. \A s \in SUBSET S : h(f, s) = h(g, s)
    BY <1>1, SomeIn
  <2>2. it = [s \in SUBSET S |-> h(g, s)]
    BY <1>2 DEF Iterates
  <2> HIDE DEF h
  <2>3. it = [s \in SUBSET S |-> h(f, s)]
    BY <2>1, <2>2
  <2> QED BY <2>3 DEF Iterates, h
<1> QED BY <1>3, <1>4 DEF g

LEMMA SumNone == \A f : SumOf(Portion(f, {})) = 0
<1> TAKE f
<1>1. PICK it : Iterates(it, f, {}) /\ SumOf(Portion(f, {})) = it[{}]
  BY FS_EmptySet, PartSum
<1> QED BY <1>1, IterateNone

LEMMA SumOnce ==
  ASSUME NEW f, NEW S, IsFiniteSet(S), S # {}
  PROVE  SumOf(Portion(f, S)) = f[Some(S)] + SumOf(Portion(f, S \ {Some(S)}))
<1> DEFINE Q == S \ {Some(S)}
<1>1. IsFiniteSet(Q) /\ Q \subseteq S
  BY FS_Subset
<1> HIDE DEF Q
<1>2. PICK it : Iterates(it, f, S) /\ SumOf(Portion(f, S)) = it[S]
  BY PartSum
<1>3. PICK jt : Iterates(jt, f, Q) /\ SumOf(Portion(f, Q)) = jt[Q]
  BY <1>1, PartSum
<1>4. S \in SUBSET S /\ Q \in SUBSET Q
  OBVIOUS
<1>5. it[S] = f[Some(S)] + it[Q]
  BY <1>2, <1>4, IterateOnce DEF Adding, Q
<1>6. jt[Q] = it[Q]
  <2>1. Iterates(it, f, S) /\ Iterates(jt, f, Q)
    BY <1>2, <1>3
  <2> QED BY ONLY <1>1, <1>4, <2>1, IteratesAgree
<1> QED BY <1>2, <1>3, <1>5, <1>6 DEF Q

Summed(f, S) == SumOf(Portion(f, S))

LEMMA OverNone == \A f : Summed(f, {}) = 0
BY SumNone DEF Summed

LEMMA OverSome ==
  ASSUME NEW f, NEW S, IsFiniteSet(S), S # {}
  PROVE  Summed(f, S) = f[Some(S)] + Summed(f, S \ {Some(S)})
BY SumOnce DEF Summed

LEMMA OverAll ==
  ASSUME NEW f, NEW S, f = [x \in S |-> f[x]]
  PROVE  SumOf(f) = Summed(f, S)
BY DEF Summed, Portion

LEMMA OverSame ==
  ASSUME NEW f, NEW g, NEW S, \A x \in S : f[x] = g[x]
  PROVE  Summed(f, S) = Summed(g, S)
<1>1. Portion(f, S) = Portion(g, S)
  BY DEF Portion
<1> QED BY <1>1 DEF Summed

LEMMA OverInt ==
  ASSUME NEW f, NEW S, IsFiniteSet(S), \A x \in S : f[x] \in Int
  PROVE  \A u \in SUBSET S : IsFiniteSet(u) /\ Summed(f, u) \in Int
<1> DEFINE G == {u \in SUBSET S : Summed(f, u) \in Int}
<1>0. \A u \in SUBSET S : IsFiniteSet(u)
  BY FS_Subset
<1>1. ASSUME NEW u \in SUBSET S, \A v \in SUBSET u : v # u => v \in G PROVE u \in G
  <2>1. CASE u = {}
    BY <2>1, OverNone
  <2>2. CASE u # {}
    <3>1. Some(u) \in u
      BY <2>2, SomeIn
    <3>2. u \ {Some(u)} \in G
      BY <1>1, <3>1
    <3>3. Summed(f, u) = f[Some(u)] + Summed(f, u \ {Some(u)})
      BY <1>0, <2>2, OverSome
    <3> QED BY <3>1, <3>2, <3>3
  <2> QED BY <2>1, <2>2
<1> HIDE DEF G
<1>2. \A u \in SUBSET S : u \in G
  BY ONLY <1>1, IsFiniteSet(S), Smaller
<1> QED BY <1>0, <1>2 DEF G

LEMMA OverPoint ==
  ASSUME NEW f, NEW S, IsFiniteSet(S), \A x \in S : f[x] \in Int, NEW x \in S
  PROVE  Summed(f, S) = f[x] + Summed(f, S \ {x})
<1> DEFINE G == {u \in SUBSET S : \A y \in u : Summed(f, u) = f[y] + Summed(f, u \ {y})}
<1>0. \A u \in SUBSET S : IsFiniteSet(u) /\ Summed(f, u) \in Int
  BY OverInt
<1>1. ASSUME NEW u \in SUBSET S, \A v \in SUBSET u : v # u => v \in G PROVE u \in G
  <2> SUFFICES ASSUME NEW y \in u PROVE Summed(f, u) = f[y] + Summed(f, u \ {y})
    OBVIOUS
  <2> DEFINE s == Some(u)  a == u \ {s}  b == u \ {y}  c == a \ {y}
  <2>1. s \in u
    BY SomeIn
  <2> HIDE DEF s
  <2>2. Summed(f, u) = f[s] + Summed(f, a)
    BY <1>0, OverSome DEF s
  <2>3. CASE s = y
    BY <2>2, <2>3
  <2>4. CASE s # y
    <3>1. a \in SUBSET u /\ a # u /\ b \in SUBSET u /\ b # u /\ y \in a /\ s \in b
          /\ c = b \ {s} /\ a \in SUBSET S /\ b \in SUBSET S /\ c \in SUBSET S
      BY <2>1, <2>4
    <3> HIDE DEF a, b, c
    <3>2. Summed(f, a) = f[y] + Summed(f, c)
      BY <1>1, <3>1 DEF c
    <3>3. Summed(f, b) = f[s] + Summed(f, c)
      BY <1>1, <3>1
    <3>4. Summed(f, a) \in Int /\ Summed(f, b) \in Int /\ Summed(f, c) \in Int /\ f[y] \in Int
          /\ f[s] \in Int
      BY <1>0, <2>1, <3>1
    <3>5. Summed(f, u) = f[y] + Summed(f, b)
      BY <2>2, <3>2, <3>3, <3>4
    <3> QED BY <3>5 DEF b
  <2> QED BY <2>3, <2>4
<1> HIDE DEF G
<1>2. \A u \in SUBSET S : u \in G
  BY ONLY <1>1, IsFiniteSet(S), Smaller
<1>3. S \in G
  BY <1>2
<1> QED BY <1>3 DEF G

LEMMA OverOne ==
  ASSUME NEW f, NEW x, f[x] \in Int
  PROVE  Summed(f, {x}) = f[x]
<1>1. IsFiniteSet({x}) /\ {x} \ {x} = {} /\ \A y \in {x} : f[y] \in Int
  BY FS_Singleton
<1>2. Summed(f, {x}) = f[x] + Summed(f, {})
  <2>1. x \in {x}
    OBVIOUS
  <2>2. Summed(f, {x}) = f[x] + Summed(f, {x} \ {x})
    BY <1>1, <2>1, OverPoint
  <2> QED BY <1>1, <2>2
<1> QED BY <1>2, OverNone

\* The sum over two sets that have nothing in common.
LEMMA OverUnion ==
  ASSUME NEW f, NEW S, NEW T, IsFiniteSet(S), IsFiniteSet(T), S \cap T = {},
         \A x \in S \cup T : f[x] \in Int
  PROVE  Summed(f, S \cup T) = Summed(f, S) + Summed(f, T)
<1> DEFINE G == {u \in SUBSET S : Summed(f, u \cup T) = Summed(f, u) + Summed(f, T)}
<1>1. IsFiniteSet(S \cup T)
  BY FS_Union
<1>2. \A u \in SUBSET (S \cup T) : IsFiniteSet(u) /\ Summed(f, u) \in Int
  BY <1>1, OverInt
<1>3. {} \in G
  <2>1. {} \cup T = T /\ T \in SUBSET (S \cup T)
    OBVIOUS
  <2> QED BY <1>2, <2>1, OverNone
<1>4. ASSUME NEW u \in SUBSET S, NEW x \in u, u \ {x} \in G PROVE u \in G
  <2> DEFINE v == u \ {x}
  <2>1. (u \cup T) \ {x} = v \cup T /\ x \in u \cup T /\ u \cup T \in SUBSET (S \cup T)
        /\ u \in SUBSET (S \cup T) /\ v \in SUBSET (S \cup T) /\ T \in SUBSET (S \cup T)
    OBVIOUS
  <2>2. Summed(f, u \cup T) = f[x] + Summed(f, (u \cup T) \ {x})
    <3> HIDE DEF v
    <3>1. \A y \in u \cup T : f[y] \in Int
      OBVIOUS
    <3> QED BY <1>2, <2>1, <3>1, OverPoint
  <2>3. Summed(f, u) = f[x] + Summed(f, v)
    <3>1. \A y \in u : f[y] \in Int
      OBVIOUS
    <3> QED BY <1>2, <2>1, <3>1, OverPoint
  <2>4. Summed(f, v \cup T) = Summed(f, v) + Summed(f, T)
    BY <1>4
  <2>5. Summed(f, v) \in Int /\ Summed(f, T) \in Int /\ f[x] \in Int
    BY <1>2, <2>1
  <2>6. Summed(f, u \cup T) = f[x] + (Summed(f, v) + Summed(f, T))
    BY <2>1, <2>2, <2>4
  <2> HIDE DEF v
  <2> QED BY <2>3, <2>5, <2>6
<1> HIDE DEF G
<1>5. S \in G
  BY ONLY <1>3, <1>4, IsFiniteSet(S), OneMore
<1> QED BY <1>5 DEF G
\* What is one for one of the members of a set adds up.
LEMMA OverLeq ==
  ASSUME NEW f, NEW g, NEW S, IsFiniteSet(S),
         \A x \in S : f[x] \in Int /\ g[x] \in Int /\ f[x] <= g[x]
  PROVE  Summed(f, S) <= Summed(g, S)
<1> DEFINE G == {u \in SUBSET S : Summed(f, u) <= Summed(g, u)}
<1>1. \A u \in SUBSET S : IsFiniteSet(u) /\ Summed(f, u) \in Int /\ Summed(g, u) \in Int
  BY OverInt
<1>2. {} \in G
  BY OverNone
<1>3. ASSUME NEW u \in SUBSET S, NEW x \in u, u \ {x} \in G PROVE u \in G
  <2> DEFINE v == u \ {x}
  <2>1. v \in SUBSET S /\ Summed(f, v) <= Summed(g, v)
    BY <1>3
  <2>2. Summed(f, u) = f[x] + Summed(f, v) /\ Summed(g, u) = g[x] + Summed(g, v)
    BY <1>1, OverPoint
  <2>3. f[x] \in Int /\ g[x] \in Int /\ f[x] <= g[x]
    OBVIOUS
  <2> HIDE DEF v
  <2> QED BY <1>1, <2>1, <2>2, <2>3
<1> HIDE DEF G
<1>4. S \in G
  BY ONLY <1>2, <1>3, IsFiniteSet(S), OneMore
<1> QED BY <1>4 DEF G

LEMMA OverNat ==
  ASSUME NEW f, NEW S, IsFiniteSet(S), \A x \in S : f[x] \in Nat
  PROVE  \A u \in SUBSET S : IsFiniteSet(u) /\ Summed(f, u) \in Nat /\ Summed(f, u) <= Summed(f, S)
<1> DEFINE z == [x \in S |-> 0]
           G == {u \in SUBSET S : Summed(f, u) \in Nat}
<1>1. \A x \in S : f[x] \in Int
  OBVIOUS
<1>2. \A u \in SUBSET S : IsFiniteSet(u) /\ Summed(f, u) \in Int
  BY <1>1, OverInt
<1>3. {} \in G
  BY OverNone
<1>4. ASSUME NEW u \in SUBSET S, NEW x \in u, u \ {x} \in G PROVE u \in G
  <2>1. Summed(f, u) = f[x] + Summed(f, u \ {x})
    BY <1>1, <1>2, OverPoint
  <2> QED BY <1>4, <2>1
<1> HIDE DEF G
<1>5. \A u \in SUBSET S : u \in G
  <2> TAKE u \in SUBSET S
  <2> DEFINE H == {v \in SUBSET u : v \in G}
  <2>1. {} \in H /\ \A v \in SUBSET u : \A x \in v : v \ {x} \in H => v \in H
    BY <1>3, <1>4
  <2> HIDE DEF H
  <2>2. IsFiniteSet(u)
    BY <1>2
  <2>3. u \in H
    BY ONLY <2>1, <2>2, OneMore
  <2> QED BY <2>3 DEF H
<1> SUFFICES ASSUME NEW u \in SUBSET S PROVE Summed(f, u) <= Summed(f, S)
  BY <1>2, <1>5 DEF G
<1>6. Summed(f, u \cup (S \ u)) = Summed(f, u) + Summed(f, S \ u)
  <2>1. IsFiniteSet(u) /\ IsFiniteSet(S \ u) /\ u \cap (S \ u) = {}
    BY <1>2
  <2>2. \A x \in u \cup (S \ u) : f[x] \in Int
    BY <1>1
  <2> QED BY ONLY <2>1, <2>2, OverUnion
<1>7. u \cup (S \ u) = S /\ S \ u \in SUBSET S
  OBVIOUS
<1>8. Summed(f, u) \in Nat /\ Summed(f, S \ u) \in Nat
  BY <1>5, <1>7 DEF G
<1>9. Summed(f, S) = Summed(f, u) + Summed(f, S \ u)
  BY <1>6, <1>7
<1> QED BY <1>8, <1>9

\* A function that is one everywhere counts.
LEMMA OverOnes ==
  ASSUME NEW f, NEW S, IsFiniteSet(S), \A x \in S : f[x] = 1
  PROVE  Summed(f, S) = Cardinality(S)
<1> DEFINE G == {u \in SUBSET S : Summed(f, u) = Cardinality(u)}
<1>1. \A u \in SUBSET S : IsFiniteSet(u) /\ Summed(f, u) \in Int
  BY OverInt
<1>2. {} \in G
  BY OverNone, FS_EmptySet
<1>3. ASSUME NEW u \in SUBSET S, NEW x \in u, u \ {x} \in G PROVE u \in G
  <2>1. Summed(f, u) = f[x] + Summed(f, u \ {x})
    BY <1>1, OverPoint
  <2>2. Cardinality(u \ {x}) = Cardinality(u) - 1 /\ Cardinality(u) \in Nat
    BY <1>1, FS_RemoveElement, FS_CardinalityType
  <2>3. f[x] = 1 /\ Summed(f, u \ {x}) = Cardinality(u \ {x})
    BY <1>3
  <2> QED BY <2>1, <2>2, <2>3
<1> HIDE DEF G
<1>4. S \in G
  BY ONLY <1>2, <1>3, IsFiniteSet(S), OneMore
<1> QED BY <1>4 DEF G

\* A function that is changed at one place.
LEMMA OverChange ==
  ASSUME NEW f, NEW g, NEW S, IsFiniteSet(S), NEW k \in S,
         \A x \in S : f[x] \in Int /\ g[x] \in Int /\ (x # k => f[x] = g[x])
  PROVE  Summed(g, S) = Summed(f, S) + g[k] - f[k]
<1>1. Summed(f, S) = f[k] + Summed(f, S \ {k})
  BY OverPoint
<1>2. Summed(g, S) = g[k] + Summed(g, S \ {k})
  BY OverPoint
<1>3. Summed(f, S \ {k}) = Summed(g, S \ {k})
  <2>1. \A x \in S \ {k} : f[x] = g[x]
    OBVIOUS
  <2> QED BY <2>1, OverSame
<1>4. Summed(f, S \ {k}) \in Int /\ f[k] \in Int /\ g[k] \in Int
  <2>1. S \ {k} \in SUBSET S
    OBVIOUS
  <2> QED BY <2>1, OverInt
<1> QED BY <1>1, <1>2, <1>3, <1>4

\* A sum, taken apart by a key.
KeyPart(key, S, k) == {x \in S : key[x] = k}
LEMMA OverKeys ==
  ASSUME NEW f, NEW S, IsFiniteSet(S), \A x \in S : f[x] \in Int,
         NEW K, IsFiniteSet(K), NEW key, \A x \in S : key[x] \in K
  PROVE  Summed(f, S) = Summed([k \in K |-> Summed(f, KeyPart(key, S, k))], K)
<1> DEFINE h(u) == [k \in K |-> Summed(f, KeyPart(key, u, k))]
           G == {u \in SUBSET S : Summed(f, u) = Summed(h(u), K)}
<1>1. \A u \in SUBSET S : IsFiniteSet(u) /\ Summed(f, u) \in Int
  BY OverInt
<1>2. {} \in G
  <2>1. \A k \in K : h({})[k] = 0
    <3>1. \A k \in K : KeyPart(key, {}, k) = {}
      BY DEF KeyPart
    <3> QED BY <3>1, OverNone
  <2> DEFINE z == h({})
  <2>2. \A k \in K : z[k] \in Nat /\ z[k] = 0
    BY <2>1
  <2> HIDE DEF z
  <2>3. Summed(z, K) = 0
    <3> DEFINE H == {v \in SUBSET K : Summed(z, v) = 0}
    <3>1. {} \in H
      BY OverNone
    <3>2. ASSUME NEW v \in SUBSET K, NEW x \in v, v \ {x} \in H PROVE v \in H
      <4>1. IsFiniteSet(v)
        BY FS_Subset
      <4>2. Summed(z, v) = z[x] + Summed(z, v \ {x})
        BY <2>2, <4>1, OverPoint
      <4> QED BY <2>2, <3>2, <4>2
    <3> HIDE DEF H
    <3>3. K \in H
      BY ONLY <3>1, <3>2, IsFiniteSet(K), OneMore
    <3> QED BY <3>3 DEF H
  <2> QED BY <2>3, OverNone DEF z
<1>3. ASSUME NEW u \in SUBSET S, NEW x \in u, u \ {x} \in G PROVE u \in G
  <2> DEFINE v == u \ {x}  a == h(v)  b == h(u)  k == key[x]
  <2>1. v \in SUBSET S /\ k \in K /\ f[x] \in Int
    OBVIOUS
  <2>2. Summed(f, u) = f[x] + Summed(f, v)
    BY <1>1, OverPoint
  <2>3. \A j \in K : KeyPart(key, u, j) \in SUBSET S /\ KeyPart(key, v, j) \in SUBSET S
    BY DEF KeyPart
  <2>4. \A j \in K : a[j] = Summed(f, KeyPart(key, v, j)) /\ b[j] = Summed(f, KeyPart(key, u, j))
    OBVIOUS
  <2>5. Summed(f, v) = Summed(a, K)
    BY <1>3
  <2>6. KeyPart(key, v, k) = KeyPart(key, u, k) \ {x} /\ x \in KeyPart(key, u, k)
    BY DEF KeyPart
  <2>7. \A j \in K : j # k => KeyPart(key, v, j) = KeyPart(key, u, j)
    BY DEF KeyPart
  <2>8. u \in G <=> Summed(f, u) = Summed(b, K)
    OBVIOUS
  <2> HIDE DEF v, a, b, k, h
  <2>9. b[k] = f[x] + a[k]
    <3>1. IsFiniteSet(KeyPart(key, u, k)) /\ \A y \in KeyPart(key, u, k) : f[y] \in Int
      BY <1>1, <2>1, <2>3
    <3>2. Summed(f, KeyPart(key, u, k)) = f[x] + Summed(f, KeyPart(key, u, k) \ {x})
      BY <2>6, <3>1, OverPoint
    <3> QED BY <2>1, <2>4, <2>6, <3>2
  <2>10. \A j \in K : a[j] \in Int /\ b[j] \in Int /\ (j # k => a[j] = b[j])
    BY <1>1, <2>3, <2>4, <2>7
  <2>11. Summed(b, K) = Summed(a, K) + b[k] - a[k]
    BY <2>1, <2>10, OverChange
  <2>12. Summed(a, K) \in Int /\ a[k] \in Int
    BY <1>1, <2>1, <2>5, <2>10
  <2> QED BY <2>1, <2>2, <2>5, <2>8, <2>9, <2>11, <2>12
<1> HIDE DEF G
<1>4. S \in G
  BY ONLY <1>2, <1>3, IsFiniteSet(S), OneMore
<1> QED BY <1>4 DEF G

\* The same for how many they are.
LEMMA CountKeys ==
  ASSUME NEW S, IsFiniteSet(S), NEW K, IsFiniteSet(K), NEW key, \A x \in S : key[x] \in K
  PROVE  Cardinality(S) = Summed([k \in K |-> Cardinality(KeyPart(key, S, k))], K)
<1> DEFINE f == [x \in S |-> 1]
           g == [k \in K |-> Summed(f, KeyPart(key, S, k))]
           h == [k \in K |-> Cardinality(KeyPart(key, S, k))]
<1>1. \A x \in S : f[x] = 1
  OBVIOUS
<1>2. \A k \in K : KeyPart(key, S, k) \in SUBSET S
  BY DEF KeyPart
<1> HIDE DEF f
<1>3. Summed(f, S) = Cardinality(S)
  BY <1>1, OverOnes
<1>4. Summed(f, S) = Summed(g, K)
  BY <1>1, OverKeys
<1>5. \A k \in K : g[k] = h[k]
  <2> TAKE k \in K
  <2>1. IsFiniteSet(KeyPart(key, S, k)) /\ \A x \in KeyPart(key, S, k) : f[x] = 1
    BY <1>1, <1>2, FS_Subset
  <2>2. Summed(f, KeyPart(key, S, k)) = Cardinality(KeyPart(key, S, k))
    BY <2>1, OverOnes
  <2> QED BY <2>2
<1> HIDE DEF g, h
<1>6. Summed(g, K) = Summed(h, K)
  BY <1>5, OverSame
<1> QED BY <1>3, <1>4, <1>6 DEF h

\* A union has no more members than its parts have together.
LEMMA UnionCount ==
  ASSUME NEW K, IsFiniteSet(K), NEW F, \A k \in K : IsFiniteSet(F[k])
  PROVE  /\ IsFiniteSet(UNION {F[k] : k \in K})
         /\ Cardinality(UNION {F[k] : k \in K}) <= Summed([k \in K |-> Cardinality(F[k])], K)
<1> DEFINE c == [k \in K |-> Cardinality(F[k])]
           U(L) == UNION {F[k] : k \in L}
           G == {L \in SUBSET K : IsFiniteSet(U(L)) /\ Cardinality(U(L)) <= Summed(c, L)}
<1>1. \A k \in K : c[k] \in Nat
  BY FS_CardinalityType
<1>2. \A L \in SUBSET K : IsFiniteSet(L) /\ Summed(c, L) \in Int
  <2>1. \A k \in K : c[k] \in Int
    BY <1>1
  <2> QED BY <2>1, OverInt
<1>3. {} \in G
  <2>1. U({}) = {}
    OBVIOUS
  <2> QED BY <2>1, FS_EmptySet, OverNone
<1>4. ASSUME NEW L \in SUBSET K, NEW x \in L, L \ {x} \in G PROVE L \in G
  <2> DEFINE M == L \ {x}
  <2>1. U(L) = U(M) \cup F[x]
    OBVIOUS
  <2>2. IsFiniteSet(U(M)) /\ Cardinality(U(M)) <= Summed(c, M) /\ IsFiniteSet(F[x])
        /\ M \in SUBSET K
    BY <1>4
  <2>3. Summed(c, L) = c[x] + Summed(c, M)
    <3>1. \A k \in L : c[k] \in Int
      BY <1>1
    <3> QED BY <1>2, <3>1, OverPoint
  <2>4. c[x] = Cardinality(F[x]) /\ c[x] \in Nat
    BY <1>1
  <2>5. L \in G <=> IsFiniteSet(U(L)) /\ Cardinality(U(L)) <= Summed(c, L)
    OBVIOUS
  <2> HIDE DEF M, U, c
  <2>6. IsFiniteSet(U(L)) /\ Cardinality(U(L)) = Cardinality(U(M)) + Cardinality(F[x])
                                                - Cardinality(U(M) \cap F[x])
    BY <2>1, <2>2, FS_Union
  <2>7. Cardinality(U(M)) \in Nat /\ Cardinality(U(M) \cap F[x]) \in Nat
    BY <2>2, FS_Intersection, FS_CardinalityType
  <2>8. Summed(c, M) \in Int
    BY <1>2, <2>2
  <2> QED BY <2>2, <2>3, <2>4, <2>5, <2>6, <2>7, <2>8
<1> HIDE DEF G
<1>5. K \in G
  BY ONLY <1>3, <1>4, IsFiniteSet(K), OneMore
<1> QED BY <1>5 DEF G

----------------------------
(* EXTREMES, AND BUCKETS OF TIME                                           *)

LEMMA MinIs ==
  ASSUME NEW S \in SUBSET Nat, S # {}
  PROVE  Min(S) \in S /\ \A y \in S : Min(S) <= y
<1>1. PICK x \in S : \A y \in S : ~(<<y, x>> \in OpToRel(<, Nat))
  BY WFMin, NatLessThanWellFounded
<1>2. \A y \in Nat : y < x => <<y, x>> \in OpToRel(<, Nat)
  BY DEF OpToRel
<1>3. \A y \in S : ~(y < x) /\ x \in Nat /\ y \in Nat
  BY <1>1, <1>2
<1>4. \A y \in S : x <= y
  BY <1>3
<1> QED BY <1>4 DEF Min

\* The image of a finite set.
LEMMA ImageFinite ==
  ASSUME NEW D, IsFiniteSet(D), NEW f
  PROVE  IsFiniteSet({f[x] : x \in D})
<1> DEFINE E == {f[x] : x \in D}
           g == [x \in D |-> f[x]]
<1>1. g \in Surjection(D, E)
  BY DEF Surjection
<1> QED BY <1>1, FS_Surjection

LEMMA MaxIs ==
  ASSUME NEW S, IsFiniteSet(S), S # {}, S \subseteq Nat
  PROVE  Max(S) \in S /\ \A y \in S : y <= Max(S)
<1> DEFINE Has(u) == \E x \in u : \A y \in u : y <= x
           T == {u \in SUBSET S : u # {} /\ ~Has(u)}
<1>1. T = {}
  <2> SUFFICES ASSUME T # {} PROVE FALSE
    OBVIOUS
  <2>1. T \in SUBSET (SUBSET S)
    OBVIOUS
  <2>2. PICK m \in T : \A t \in T : t \subseteq m => t = m
    <3> HIDE DEF T
    <3>1. T # {} /\ IsFiniteSet(S)
      OBVIOUS
    <3> QED BY ONLY <2>1, <3>1, LeastSubset
  <2>3. PICK a \in m : TRUE
    OBVIOUS
  <2>4. CASE m = {a}
    BY <2>4
  <2>5. CASE m # {a}
    <3>1. m \ {a} \subseteq m /\ m \ {a} # m /\ m \ {a} # {} /\ m \ {a} \in SUBSET S
      BY <2>3, <2>5
    <3>2. Has(m \ {a})
      BY <2>2, <3>1
    <3>3. PICK x \in m \ {a} : \A y \in m \ {a} : y <= x
      BY <3>2
    <3>4. x \in Nat /\ a \in Nat
      BY <3>3, <2>3
    <3>5. CASE a <= x
      <4>1. \A y \in m : y <= x
        BY <3>3, <3>5
      <4> QED BY <4>1
    <3>6. CASE x <= a
      <4>1. \A y \in m : y <= a
        BY <3>3, <3>4, <3>6
      <4> QED BY <4>1
    <3> QED BY <3>4, <3>5, <3>6
  <2> QED BY <2>4, <2>5
<1>2. PICK x \in S : \A y \in S : y <= x
  BY <1>1
<1>3. \A y \in S : x >= y
  BY <1>2
<1>4. Max(S) \in S /\ \A y \in S : Max(S) >= y
  BY <1>3 DEF Max
<1> QED BY <1>4

LEMMA BucketOrder ==
  ASSUME NEW a \in Nat, NEW b \in Nat, a <= b, NEW k \in Nat \ {0}
  PROVE  (a \div k) * k <= (b \div k) * k
<1> DEFINE p == a \div k
           q == b \div k
<1>1. p \in Nat /\ q \in Nat /\ p * k <= a /\ b < (q + 1) * k
  OBVIOUS
<1> HIDE DEF p, q
<1>2. CASE p <= q
  BY <1>1, <1>2 DEF p, q
<1>3. CASE q < p
  <2>1. (q + 1) * k <= p * k
    BY <1>1, <1>3
  <2>2. (q + 1) * k \in Nat /\ p * k \in Nat
    BY <1>1
  <2> QED BY <1>1, <2>1, <2>2
<1> QED BY <1>1, <1>2, <1>3

LEMMA EarlierBuckets ==
  ASSUME NEW a \in Nat, NEW b \in Nat, a <= b
  PROVE  HourOf(a) <= HourOf(b) /\ DayOf(a) <= DayOf(b)
         /\ HourOf(a) \in Nat /\ HourOf(b) \in Nat /\ DayOf(a) \in Nat /\ DayOf(b) \in Nat
<1>1. Hour \in Nat \ {0} /\ Day \in Nat \ {0}
  BY BucketsAssumption
<1>2. HourOf(a) <= HourOf(b) /\ DayOf(a) <= DayOf(b)
  BY <1>1, BucketOrder DEF HourOf, DayOf
<1>3. \A k \in Nat \ {0}, x \in Nat : (x \div k) * k \in Nat
  OBVIOUS
<1> QED BY <1>1, <1>2, <1>3 DEF HourOf, DayOf

\* A finite set has a member that no other comes after.
LEMMA TopOf ==
  ASSUME NEW S, IsFiniteSet(S), S # {}, NEW a \in [S -> Int], NEW b \in [S -> Int]
  PROVE  \E m \in S : \A t \in S : a[t] < a[m] \/ (a[t] = a[m] /\ b[t] <= b[m])
<1> DEFINE Has(u) == \E m \in u : \A t \in u : a[t] < a[m] \/ (a[t] = a[m] /\ b[t] <= b[m])
           T == {u \in SUBSET S : u # {} /\ ~Has(u)}
<1> SUFFICES ASSUME T # {} PROVE FALSE
  OBVIOUS
<1>1. T \in SUBSET (SUBSET S)
  OBVIOUS
<1>2. PICK m \in T : \A t \in T : t \subseteq m => t = m
  <2> HIDE DEF T
  <2>1. T # {} /\ IsFiniteSet(S)
    OBVIOUS
  <2> QED BY ONLY <1>1, <2>1, LeastSubset
<1>3. PICK x \in m : TRUE
  OBVIOUS
<1>4. m \in SUBSET S /\ ~Has(m)
  OBVIOUS
<1>5. CASE m = {x}
  <2>1. a[x] \in Int /\ b[x] \in Int
    BY <1>3, <1>4
  <2>2. \A t \in m : t = x
    BY <1>5
  <2> QED BY <1>3, <1>4, <2>1, <2>2
<1>6. CASE m # {x}
  <2>1. m \ {x} \subseteq m /\ m \ {x} # m /\ m \ {x} # {} /\ m \ {x} \in SUBSET S
    BY <1>3, <1>6
  <2>2. Has(m \ {x})
    BY <1>2, <2>1
  <2>3. PICK y \in m \ {x} : \A t \in m \ {x} : a[t] < a[y] \/ (a[t] = a[y] /\ b[t] <= b[y])
    BY <2>2
  <2> HIDE DEF T
  <2>4. a[x] \in Int /\ b[x] \in Int /\ a[y] \in Int /\ b[y] \in Int /\ y \in m
        /\ \A t \in m : a[t] \in Int /\ b[t] \in Int
    BY <1>3, <1>4, <2>3
  <2>5. CASE a[x] < a[y] \/ (a[x] = a[y] /\ b[x] <= b[y])
    <3>1. \A t \in m : a[t] < a[y] \/ (a[t] = a[y] /\ b[t] <= b[y])
      BY <2>3, <2>5
    <3> QED BY <1>4, <2>4, <3>1
  <2>6. CASE a[y] < a[x] \/ (a[x] = a[y] /\ b[y] <= b[x])
    <3>1. \A t \in m : a[t] < a[x] \/ (a[t] = a[x] /\ b[t] <= b[x])
      BY <2>3, <2>4, <2>6
    <3> QED BY <1>3, <1>4, <3>1
  <2> QED BY <2>4, <2>5, <2>6
<1> QED BY <1>5, <1>6

LEMMA BucketsOf ==
  ASSUME NEW R, NEW Q, NEW h
  PROVE  /\ InHour(R \cup Q, h) = InHour(R, h) \cup InHour(Q, h)
         /\ InDay(R \cup Q, h) = InDay(R, h) \cup InDay(Q, h)
         /\ InHour(R, h) \subseteq R /\ InDay(R, h) \subseteq R
         /\ HourIPs(InHour(R, h)) = {p \in HourIPs(R) : p[1] = h}
         /\ DayIPs(InDay(R, h)) = {p \in DayIPs(R) : p[1] = h}
         /\ HourIPs(R \cup Q) = HourIPs(R) \cup HourIPs(Q)
         /\ DayIPs(R \cup Q) = DayIPs(R) \cup DayIPs(Q)
         /\ HourIPs({}) = {} /\ DayIPs({}) = {} /\ InHour({}, h) = {} /\ InDay({}, h) = {}
<1>1. InHour(R \cup Q, h) = InHour(R, h) \cup InHour(Q, h)
      /\ InDay(R \cup Q, h) = InDay(R, h) \cup InDay(Q, h)
      /\ InHour(R, h) \subseteq R /\ InDay(R, h) \subseteq R
      /\ InHour({}, h) = {} /\ InDay({}, h) = {}
  BY DEF InHour, InDay
<1>2. HourIPs(R \cup Q) = HourIPs(R) \cup HourIPs(Q)
      /\ DayIPs(R \cup Q) = DayIPs(R) \cup DayIPs(Q)
      /\ HourIPs({}) = {} /\ DayIPs({}) = {}
  BY DEF HourIPs, DayIPs, Views
<1>3. HourIPs(InHour(R, h)) = {p \in HourIPs(R) : p[1] = h}
  BY DEF HourIPs, Views, InHour
<1>4. DayIPs(InDay(R, h)) = {p \in DayIPs(R) : p[1] = h}
  BY DEF DayIPs, Views, InDay
<1> QED BY <1>1, <1>2, <1>3, <1>4

LEMMA IPsUnion ==
  ASSUME NEW R, NEW Q, NEW S, S = R \cup Q
  PROVE  HourIPs(S) = HourIPs(R) \cup HourIPs(Q) /\ DayIPs(S) = DayIPs(R) \cup DayIPs(Q)
<1> DEFINE H == HourIPs(R) \cup HourIPs(Q)
           D == DayIPs(R) \cup DayIPs(Q)
<1>1. HourIPs(S) = H
  BY DEF HourIPs, Views
<1>2. DayIPs(S) = D
  BY DEF DayIPs, Views
<1> QED BY <1>1, <1>2

LEMMA BucketIPs ==
  ASSUME NEW R, NEW h
  PROVE  /\ HourIPs(InHour(R, h)) = {p \in HourIPs(R) : p[1] = h}
         /\ DayIPs(InDay(R, h)) = {p \in DayIPs(R) : p[1] = h}
<1>1. HourIPs(InHour(R, h)) = {p \in HourIPs(R) : p[1] = h}
  BY DEF HourIPs, Views, InHour
<1>2. DayIPs(InDay(R, h)) = {p \in DayIPs(R) : p[1] = h}
  BY DEF DayIPs, Views, InDay
<1> QED BY <1>1, <1>2
=============================================================================
