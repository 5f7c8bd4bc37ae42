------------------------------ MODULE SumProofs ------------------------------
(***************************************************************************)
(* What SumFunctionOnSet computes: the lemmas behind every proof about     *)
(* amounts that add up.  The induction is over finite sets, written out as *)
(* the choice of a smallest counterexample.                                *)
(***************************************************************************)
EXTENDS Integers, FiniteSets, Functions, FiniteSetTheorems, WellFoundedInduction, TLAPS

Element(s) == CHOOSE x \in s : TRUE

\* f adds up v over every subset of S, one element after the other.
AddsUp(f, v, S) ==
  f = [s \in SUBSET S |-> IF s = {} THEN 0 ELSE v[Element(s)] + f[s \ {Element(s)}]]

\* Every non-empty family of finite subsets of S has a smallest member.
LEMMA SmallestSubset ==
  ASSUME NEW S, IsFiniteSet(S), NEW F, F \subseteq SUBSET S, F # {}
  PROVE  \E s \in F : \A t \in F : t \subseteq s => t = s
<1>1. F \subseteq FiniteSubsetsOf(S)
  BY FS_Subset DEF FiniteSubsetsOf
<1>2. IsWellFoundedOn(StrictSubsetOrdering(S), FiniteSubsetsOf(S))
  BY FS_StrictSubsetOrderingWellFounded
<1>3. PICK s \in F : \A t \in F : ~ (<<t, s>> \in StrictSubsetOrdering(S))
  BY <1>1, <1>2, WFMin
<1>4. ASSUME NEW t \in F, t \subseteq s, t # s PROVE FALSE
  BY <1>3, <1>4 DEF StrictSubsetOrdering
<1> QED  BY <1>4

\* A set of natural numbers that is not empty has a smallest element.
LEMMA SmallestNumber ==
  ASSUME NEW S \in SUBSET Nat, S # {}
  PROVE  \E n \in S : \A m \in S : n <= m
<1>1. PICK top \in S : TRUE
  OBVIOUS
<1> DEFINE D == 0..top
           F == {d \in SUBSET D : \E m \in S : d = 0..m}
<1>2. IsFiniteSet(D)
  BY <1>1, FS_Interval
<1>3. F \subseteq SUBSET D /\ D \in F
  BY <1>1
<1>4. PICK s \in F : \A t \in F : t \subseteq s => t = s
  <2> HIDE DEF F, D
  <2> QED  BY <1>2, <1>3, SmallestSubset
<1>5. PICK n \in S : s = 0..n
  BY <1>4
<1>6. ASSUME NEW m \in S, m < n PROVE FALSE
  <2>1. 0..m \subseteq s /\ n \in s /\ n \notin 0..m
    BY <1>5, <1>6
  <2>2. 0..m \in F
    BY <1>4, <2>1
  <2> QED  BY <1>4, <2>1, <2>2
<1> QED  BY <1>5, <1>6

LEMMA ElementIn ==
  ASSUME NEW s, s # {}
  PROVE  Element(s) \in s
BY DEF Element

\* Two functions that add up v agree where both are defined.
LEMMA AddsUpAgree ==
  ASSUME NEW A, NEW B, IsFiniteSet(A), NEW v, NEW f, NEW g,
         AddsUp(f, v, A), AddsUp(g, v, B), B \subseteq A
  PROVE  \A s \in SUBSET B : f[s] = g[s]
<1> DEFINE F == {s \in SUBSET B : f[s] # g[s]}
<1> SUFFICES ASSUME F # {} PROVE FALSE
  OBVIOUS
<1>1. F \subseteq SUBSET A
  OBVIOUS
<1>2. PICK s \in F : \A t \in F : t \subseteq s => t = s
  <2> HIDE DEF F
  <2> QED  BY <1>1, SmallestSubset
<1> DEFINE t == s \ {Element(s)}
<1>3. CASE s = {}
  BY <1>2, <1>3 DEF AddsUp
<1>4. CASE s # {}
  <2>1. Element(s) \in s
    BY <1>4, ElementIn
  <2>2. t \subseteq s /\ t # s /\ t \in SUBSET B
    BY <2>1
  <2>3. f[t] = g[t]
    BY <1>2, <2>2
  <2>4. f[s] = v[Element(s)] + f[t] /\ g[s] = v[Element(s)] + g[t]
    BY <1>4 DEF AddsUp
  <2> QED  BY <2>3, <2>4
<1> QED  BY <1>3, <1>4

\* There is one for every finite set.
LEMMA AddsUpExists ==
  ASSUME NEW S, IsFiniteSet(S), NEW v
  PROVE  \E f : AddsUp(f, v, S)
<1> DEFINE F == {s \in SUBSET S : ~ \E f : AddsUp(f, v, s)}
<1> SUFFICES ASSUME F # {} PROVE FALSE
  OBVIOUS
<1>1. PICK s \in F : \A t \in F : t \subseteq s => t = s
  <2>1. F \subseteq SUBSET S
    OBVIOUS
  <2> HIDE DEF F
  <2> QED  BY <2>1, SmallestSubset
<1> DEFINE G(t) == CHOOSE f : AddsUp(f, v, t)
           h == [t \in SUBSET s |->
                   IF t = {} THEN 0
                   ELSE v[Element(t)] + G(t \ {Element(t)})[t \ {Element(t)}]]
<1>2. ASSUME NEW t \in SUBSET s, t # s
      PROVE  AddsUp(G(t), v, t) /\ IsFiniteSet(t)
  <2>1. \E f : AddsUp(f, v, t)
    BY <1>1, <1>2
  <2> QED  BY <2>1, FS_Subset
<1>3. ASSUME NEW t \in SUBSET s, t # {}
      PROVE  h[t \ {Element(t)}] = G(t \ {Element(t)})[t \ {Element(t)}]
  <2> DEFINE u == t \ {Element(t)}
  <2>1. Element(t) \in t
    BY <1>3, ElementIn
  <2>2. u \in SUBSET s /\ u # s
    BY <2>1
  <2>3. AddsUp(G(u), v, u) /\ IsFiniteSet(u)
    BY <1>2, <2>2
  <2> HIDE DEF G
  <2>4. CASE u = {}
    <3>1. G(u)[u] = 0
      BY <2>3, <2>4 DEF AddsUp
    <3> QED  BY <2>2, <2>4, <3>1
  <2>5. CASE u # {}
    <3> DEFINE w == u \ {Element(u)}
    <3>1. Element(u) \in u
      BY <2>5, ElementIn
    <3>2. w \in SUBSET s /\ w # s /\ w \subseteq u
      BY <2>2, <3>1
    <3>3. AddsUp(G(w), v, w)
      BY <1>2, <3>2
    <3>4. G(u)[w] = G(w)[w]
      BY <2>3, <3>2, <3>3, AddsUpAgree
    <3>5. G(u)[u] = v[Element(u)] + G(u)[w]
      BY <2>3, <2>5 DEF AddsUp
    <3>6. h[u] = v[Element(u)] + G(w)[w]
      BY <2>2, <2>5
    <3> QED  BY <3>4, <3>5, <3>6
  <2> QED  BY <2>4, <2>5
<1>4. AddsUp(h, v, s)
  <2> HIDE DEF G
  <2>1. h = [t \in SUBSET s |-> IF t = {} THEN 0 ELSE v[Element(t)] + h[t \ {Element(t)}]]
    BY <1>3
  <2> HIDE DEF h
  <2> QED  BY <2>1 DEF AddsUp
<1> QED  BY <1>1, <1>4

LEMMA SumAddsUp ==
  ASSUME NEW S, IsFiniteSet(S), NEW v
  PROVE  \E f : AddsUp(f, v, S) /\ SumFunctionOnSet(v, S) = f[S]
<1> DEFINE f == CHOOSE f : AddsUp(f, v, S)
<1>1. AddsUp(f, v, S)
  BY AddsUpExists
<1>2. SumFunctionOnSet(v, S) = f[S]
  BY DEF SumFunctionOnSet, FoldFunctionOnSet, MapThenFoldSet, AddsUp, Element
<1> QED  BY <1>1, <1>2

\* Sums of integers are integers.
LEMMA AddsUpInt ==
  ASSUME NEW S, IsFiniteSet(S), NEW v, \A x \in S : v[x] \in Int, NEW f, AddsUp(f, v, S)
  PROVE  \A s \in SUBSET S : f[s] \in Int
<1> DEFINE F == {s \in SUBSET S : f[s] \notin Int}
<1> SUFFICES ASSUME F # {} PROVE FALSE
  OBVIOUS
<1>1. PICK s \in F : \A t \in F : t \subseteq s => t = s
  <2>1. F \subseteq SUBSET S
    OBVIOUS
  <2> HIDE DEF F
  <2> QED  BY <2>1, SmallestSubset
<1> DEFINE t == s \ {Element(s)}
<1>2. CASE s = {}
  BY <1>1, <1>2 DEF AddsUp
<1>3. CASE s # {}
  <2>1. Element(s) \in s /\ v[Element(s)] \in Int
    BY <1>3, ElementIn
  <2>2. t \in SUBSET S /\ t \subseteq s /\ t # s
    BY <2>1
  <2>3. f[t] \in Int
    BY <1>1, <2>2
  <2>4. f[s] = v[Element(s)] + f[t]
    BY <1>3 DEF AddsUp
  <2>5. f[s] \in Int
    BY <2>1, <2>3, <2>4
  <2> QED  BY <1>1, <2>5
<1> QED  BY <1>2, <1>3

\* Any element may be taken first.
LEMMA AddsUpAnyOrder ==
  ASSUME NEW S, IsFiniteSet(S), NEW v, \A x \in S : v[x] \in Int, NEW f, AddsUp(f, v, S)
  PROVE  \A s \in SUBSET S : \A x \in s : f[s] = v[x] + f[s \ {x}]
<1> DEFINE F == {s \in SUBSET S : \E x \in s : f[s] # v[x] + f[s \ {x}]}
<1> SUFFICES ASSUME F # {} PROVE FALSE
  OBVIOUS
<1>1. PICK s \in F : \A t \in F : t \subseteq s => t = s
  <2>1. F \subseteq SUBSET S
    OBVIOUS
  <2> HIDE DEF F
  <2> QED  BY <2>1, SmallestSubset
<1>2. PICK x \in s : f[s] # v[x] + f[s \ {x}]
  BY <1>1
<1> DEFINE y == Element(s)
<1>3. y \in s
  BY <1>2, ElementIn
<1> HIDE DEF y
<1>4. f[s] = v[y] + f[s \ {y}]
  BY <1>2 DEF AddsUp, y
<1>5. x # y
  BY <1>2, <1>4
<1> DEFINE t == s \ {x}
           u == s \ {y}
           w == s \ {x, y}
<1>6. /\ t \in SUBSET S /\ y \in t /\ t # s /\ t \ {y} = w
      /\ u \in SUBSET S /\ x \in u /\ u # s /\ u \ {x} = w
      /\ w \in SUBSET S
  BY <1>2, <1>3, <1>5
<1>7. f[t] = v[y] + f[w]
  <2>1. t \notin F
    BY <1>1, <1>6
  <2> QED  BY <1>6, <2>1
<1>8. f[u] = v[x] + f[w]
  <2>1. u \notin F
    BY <1>1, <1>6
  <2> QED  BY <1>6, <2>1
<1>9. v[x] \in Int /\ v[y] \in Int /\ f[w] \in Int
  BY <1>2, <1>3, <1>6, AddsUpInt
<1>10. f[s] = v[x] + f[t]
  BY <1>4, <1>7, <1>8, <1>9
<1> QED  BY <1>2, <1>10

-----------------------------------------------------------------------------
(* What the other modules use.                                             *)

\* Nothing adds up to zero.
LEMMA SumEmpty == \A v : SumFunctionOnSet(v, {}) = 0
<1> TAKE v
<1>1. PICK f : AddsUp(f, v, {}) /\ SumFunctionOnSet(v, {}) = f[{}]
  BY SumAddsUp, FS_EmptySet
<1> QED  BY <1>1 DEF AddsUp

\* A sum of integers is an integer.
LEMMA SumInt ==
  ASSUME NEW S, IsFiniteSet(S), NEW v, \A x \in S : v[x] \in Int
  PROVE  SumFunctionOnSet(v, S) \in Int
<1>1. PICK f : AddsUp(f, v, S) /\ SumFunctionOnSet(v, S) = f[S]
  BY SumAddsUp
<1> QED  BY <1>1, AddsUpInt

\* Sums only look at the values they add.
LEMMA SumSame ==
  ASSUME NEW S, IsFiniteSet(S), NEW v, NEW w, \A x \in S : v[x] = w[x]
  PROVE  SumFunctionOnSet(v, S) = SumFunctionOnSet(w, S)
<1>1. PICK f : AddsUp(f, v, S) /\ SumFunctionOnSet(v, S) = f[S]
  BY SumAddsUp
<1>2. PICK g : AddsUp(g, w, S) /\ SumFunctionOnSet(w, S) = g[S]
  BY SumAddsUp
<1>3. \A s \in SUBSET S : s # {} => v[Element(s)] = w[Element(s)]
  BY ElementIn
<1>4. AddsUp(g, v, S)
  BY <1>2, <1>3 DEF AddsUp
<1>5. f[S] = g[S]
  BY <1>1, <1>4, AddsUpAgree
<1> QED  BY <1>1, <1>2, <1>5

\* One more element adds its value.
LEMMA SumAdd ==
  ASSUME NEW S, IsFiniteSet(S), NEW x, x \notin S,
         NEW v, v[x] \in Int, \A y \in S : v[y] \in Int
  PROVE  SumFunctionOnSet(v, S \cup {x}) = SumFunctionOnSet(v, S) + v[x]
<1> DEFINE T == S \cup {x}
<1>1. IsFiniteSet(T) /\ T \ {x} = S /\ S \in SUBSET T /\ \A y \in T : v[y] \in Int
  BY FS_AddElement
<1> HIDE DEF T
<1>2. PICK f : AddsUp(f, v, T) /\ SumFunctionOnSet(v, T) = f[T]
  BY <1>1, SumAddsUp
<1>3. PICK g : AddsUp(g, v, S) /\ SumFunctionOnSet(v, S) = g[S]
  BY SumAddsUp
<1>4. f[S] = g[S]
  BY <1>1, <1>2, <1>3, AddsUpAgree
<1>5. x \in T
  BY DEF T
<1>6. f[T] = v[x] + f[S]
  BY <1>1, <1>2, <1>5, AddsUpAnyOrder
<1>7. f[S] \in Int
  BY <1>1, <1>2, AddsUpInt
<1> QED  BY <1>2, <1>3, <1>4, <1>6, <1>7 DEF T

\* More elements that are not negative add up to no less.
LEMMA SumSubset ==
  ASSUME NEW T, IsFiniteSet(T), NEW S \in SUBSET T, NEW v, \A x \in T : v[x] \in Nat
  PROVE  SumFunctionOnSet(v, S) <= SumFunctionOnSet(v, T)
<1>1. PICK f : AddsUp(f, v, T) /\ SumFunctionOnSet(v, T) = f[T]
  BY SumAddsUp
<1>2. f[S] = SumFunctionOnSet(v, S)
  <2>1. IsFiniteSet(S)
    BY FS_Subset
  <2>2. PICK g : AddsUp(g, v, S) /\ SumFunctionOnSet(v, S) = g[S]
    BY <2>1, SumAddsUp
  <2> QED  BY <1>1, <2>2, AddsUpAgree
<1>3. \A s \in SUBSET T : f[s] \in Int
  BY <1>1, AddsUpInt
<1> DEFINE F == {s \in SUBSET T : S \subseteq s /\ f[s] < f[S]}
<1>4. F = {}
  <2> SUFFICES ASSUME F # {} PROVE FALSE
    OBVIOUS
  <2>1. F \subseteq SUBSET T
    OBVIOUS
  <2>2. PICK s \in F : \A t \in F : t \subseteq s => t = s
    <3> HIDE DEF F
    <3> QED  BY <2>1, SmallestSubset
  <2>3. s # S
    BY <1>3, <2>2
  <2>4. PICK x \in s : x \notin S
    BY <2>2, <2>3
  <2> DEFINE t == s \ {x}
  <2>5. t \in SUBSET T /\ S \subseteq t /\ t \subseteq s /\ t # s /\ v[x] \in Nat
    BY <2>2, <2>4
  <2>6. f[s] = v[x] + f[t]
    BY <1>1, <2>2, AddsUpAnyOrder
  <2>7. f[t] <= f[s]
    BY <1>3, <2>5, <2>6
  <2>8. t \in F
    BY <1>3, <2>2, <2>5, <2>7
  <2> QED  BY <2>2, <2>5, <2>8
<1>5. f[S] <= f[T]
  BY <1>3, <1>4
<1> QED  BY <1>1, <1>2, <1>5
=============================================================================
