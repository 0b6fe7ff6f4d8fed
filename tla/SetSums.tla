------------------------------ MODULE SetSums ------------------------------
(***************************************************************************)
(* Facts about the sum of a function over a finite set, MapThenSumSet of   *)
(* the community modules: its recursive definition defines a function, and *)
(* an element that joins the set adds its own value, in whatever order the *)
(* definition picks the elements.                                          *)
(***************************************************************************)
EXTENDS Integers, FiniteSetsExt, FiniteSetTheorems, TLAPS

\* The sum of the values of f on S.
SumOver(f, S) == MapThenSumSet(LAMBDA x : f[x], S)

Pick(s) == CHOOSE x \in s : TRUE

\* The equation of the recursive definition.
IsSum(g, f, S) ==
  g = [s \in SUBSET S |-> IF s = {} THEN 0 ELSE f[Pick(s)] + g[s \ {Pick(s)}]]

\* Induction over the subsets of a finite set.
LEMMA SubsetInduction ==
  ASSUME NEW S, IsFiniteSet(S), NEW F,
         \A T \in SUBSET S : (\A U \in SUBSET T : U # T => U \in F) => T \in F
  PROVE  \A T \in SUBSET S : T \in F
<1> DEFINE bad == (SUBSET S) \ F
<1>1. SUFFICES ASSUME bad # {} PROVE FALSE
    OBVIOUS
<1>2. /\ IsWellFoundedOn(StrictSubsetOrdering(S), FiniteSubsetsOf(S))
      /\ FiniteSubsetsOf(S) = SUBSET S
    BY FS_StrictSubsetOrderingWellFounded, FS_FiniteSubsetsOfFinite
<1>3. PICK T \in bad : \A U \in bad : <<U, T>> \notin StrictSubsetOrdering(S)
  <2>1. bad \subseteq SUBSET S
      OBVIOUS
  <2> HIDE DEF bad
  <2> QED BY <1>1, <1>2, <2>1, WFMin
<1>4. \A U \in SUBSET T : U # T => U \in F
    BY <1>3 DEF StrictSubsetOrdering
<1> QED BY <1>3, <1>4

LEMMA PickIsElement ==
  ASSUME NEW s, s # {}
  PROVE  Pick(s) \in s
BY DEF Pick

\* The equation has at most one solution, and its solutions for a set and for a
\* subset of it agree.
LEMMA SumIsUnique ==
  ASSUME NEW f, NEW S, IsFiniteSet(S), NEW T \in SUBSET S, NEW g, NEW h,
         IsSum(g, f, S), IsSum(h, f, T)
  PROVE  \A s \in SUBSET T : g[s] = h[s]
<1> DEFINE F == {s \in SUBSET T : g[s] = h[s]}
<1>1. IsFiniteSet(T)
    BY FS_Subset
<1>2. ASSUME NEW s \in SUBSET T, \A u \in SUBSET s : u # s => u \in F
      PROVE  s \in F
  <2>1. /\ g[s] = IF s = {} THEN 0 ELSE f[Pick(s)] + g[s \ {Pick(s)}]
        /\ h[s] = IF s = {} THEN 0 ELSE f[Pick(s)] + h[s \ {Pick(s)}]
      BY DEF IsSum
  <2>2. s # {} => s \ {Pick(s)} \in SUBSET s /\ s \ {Pick(s)} # s
      BY PickIsElement
  <2> QED BY <1>2, <2>1, <2>2
<1>3. \A s \in SUBSET T : s \in F
  <2> HIDE DEF F
  <2> QED BY <1>1, <1>2, SubsetInduction
<1> QED BY <1>3

\* It has one.
LEMMA SumExists ==
  ASSUME NEW f, NEW S, IsFiniteSet(S)
  PROVE  \E g : IsSum(g, f, S)
<1> DEFINE G(T) == CHOOSE g : IsSum(g, f, T)
           F == {T \in SUBSET S : IsSum(G(T), f, T)}
<1>1. ASSUME NEW T \in SUBSET S, \A U \in SUBSET T : U # T => U \in F
      PROVE  T \in F
  <2> DEFINE val(s) == IF s = {} THEN 0
                       ELSE f[Pick(s)] + G(s \ {Pick(s)})[s \ {Pick(s)}]
             g == [s \in SUBSET T |-> val(s)]
  <2>1. ASSUME NEW s \in SUBSET T, s # T
        PROVE  G(s)[s] = val(s)
    <3>1. IsSum(G(s), f, s) /\ IsFiniteSet(s)
        BY <1>1, <2>1, FS_Subset
    <3>2. G(s)[s] = IF s = {} THEN 0 ELSE f[Pick(s)] + G(s)[s \ {Pick(s)}]
        BY <3>1 DEF IsSum
    <3>3. ASSUME s # {} PROVE G(s)[s \ {Pick(s)}] = G(s \ {Pick(s)})[s \ {Pick(s)}]
      <4> DEFINE u == s \ {Pick(s)}
      <4>1. u \in SUBSET s /\ u # T /\ u \in SUBSET T
          BY <3>3, PickIsElement
      <4>2. IsSum(G(u), f, u)
          BY <1>1, <4>1
      <4> HIDE DEF G, u
      <4>3. \A t \in SUBSET u : G(s)[t] = G(u)[t]
          BY <3>1, <4>1, <4>2, SumIsUnique, SMTT(30)
      <4>4. G(s)[u] = G(u)[u]
          BY <4>3
      <4> QED BY <4>4 DEF u
    <3> HIDE DEF G
    <3> QED BY <3>2, <3>3
  <2>2. IsSum(g, f, T)
    <3>1. ASSUME NEW s \in SUBSET T, s # {}
          PROVE  g[s \ {Pick(s)}] = G(s \ {Pick(s)})[s \ {Pick(s)}]
      <4>1. s \ {Pick(s)} \in SUBSET T /\ s \ {Pick(s)} # T
          BY <3>1, PickIsElement
      <4> HIDE DEF G
      <4> QED BY <2>1, <4>1
    <3>2. \A s \in SUBSET T : val(s) = IF s = {} THEN 0 ELSE f[Pick(s)] + g[s \ {Pick(s)}]
      <4> HIDE DEF G
      <4> QED BY <3>1
    <3> HIDE DEF G
    <3> QED BY <3>2 DEF IsSum
  <2> HIDE DEF g
  <2> QED BY <2>2
<1>2. \A T \in SUBSET S : T \in F
  <2> HIDE DEF F
  <2> QED BY <1>1, SubsetInduction
<1> QED BY <1>2

\* The recursive definition, for all the subsets of a finite set.
LEMMA SumEquation ==
  ASSUME NEW f, NEW S, IsFiniteSet(S)
  PROVE  SumOver(f, S) = IF S = {} THEN 0 ELSE f[Pick(S)] + SumOver(f, S \ {Pick(S)})
<1> DEFINE G(T) == CHOOSE g : IsSum(g, f, T)
<1>1. \A T : SumOver(f, T) = G(T)[T]
    BY DEF SumOver, MapThenSumSet, MapThenFoldSet, IsSum, Pick
<1>2. \A T \in SUBSET S : IsSum(G(T), f, T) /\ IsFiniteSet(T)
    BY SumExists, FS_Subset
<1> HIDE DEF G
<1>3. G(S)[S] = IF S = {} THEN 0 ELSE f[Pick(S)] + G(S)[S \ {Pick(S)}]
    BY <1>2 DEF IsSum
<1>4. \A T \in SUBSET S : G(S)[T] = G(T)[T]
  <2> SUFFICES ASSUME NEW T \in SUBSET S PROVE G(S)[T] = G(T)[T]
      OBVIOUS
  <2>1. PICK g : g = G(S) /\ IsSum(g, f, S)
      BY <1>2
  <2>2. PICK h : h = G(T) /\ IsSum(h, f, T)
      BY <1>2
  <2>3. \A s \in SUBSET T : g[s] = h[s]
      BY <2>1, <2>2, SumIsUnique
  <2> QED BY <2>1, <2>2, <2>3
<1> QED BY <1>1, <1>3, <1>4

\* Sums of integers are integers, those of naturals naturals, and they depend on
\* the values on the set only.
LEMMA SumType ==
  ASSUME NEW f, NEW S, IsFiniteSet(S), \A x \in S : f[x] \in Int
  PROVE  SumOver(f, S) \in Int
<1> DEFINE F == {T \in SUBSET S : SumOver(f, T) \in Int}
<1>1. ASSUME NEW T \in SUBSET S, \A U \in SUBSET T : U # T => U \in F
      PROVE  T \in F
  <2>1. SumOver(f, T) = IF T = {} THEN 0 ELSE f[Pick(T)] + SumOver(f, T \ {Pick(T)})
      BY SumEquation, FS_Subset
  <2>2. CASE T # {}
    <3>1. Pick(T) \in T
        BY <2>2, PickIsElement
    <3>2. T \ {Pick(T)} \in F
        BY <1>1, <3>1
    <3> QED BY <2>1, <2>2, <3>1, <3>2
  <2> QED BY <2>1, <2>2
<1>2. \A T \in SUBSET S : T \in F
  <2> HIDE DEF F
  <2> QED BY <1>1, SubsetInduction
<1> QED BY <1>2

LEMMA SumNat ==
  ASSUME NEW f, NEW S, IsFiniteSet(S), \A x \in S : f[x] \in Nat
  PROVE  SumOver(f, S) \in Nat
<1> DEFINE F == {T \in SUBSET S : SumOver(f, T) \in Nat}
<1>1. ASSUME NEW T \in SUBSET S, \A U \in SUBSET T : U # T => U \in F
      PROVE  T \in F
  <2>1. SumOver(f, T) = IF T = {} THEN 0 ELSE f[Pick(T)] + SumOver(f, T \ {Pick(T)})
      BY SumEquation, FS_Subset
  <2>2. CASE T # {}
    <3>1. Pick(T) \in T
        BY <2>2, PickIsElement
    <3>2. T \ {Pick(T)} \in F
        BY <1>1, <3>1
    <3> QED BY <2>1, <2>2, <3>1, <3>2
  <2> QED BY <2>1, <2>2
<1>2. \A T \in SUBSET S : T \in F
  <2> HIDE DEF F
  <2> QED BY <1>1, SubsetInduction
<1> QED BY <1>2

LEMMA SumSame ==
  ASSUME NEW f, NEW g, NEW S, IsFiniteSet(S), \A x \in S : f[x] = g[x]
  PROVE  SumOver(f, S) = SumOver(g, S)
<1> DEFINE F == {T \in SUBSET S : SumOver(f, T) = SumOver(g, T)}
<1>1. ASSUME NEW T \in SUBSET S, \A U \in SUBSET T : U # T => U \in F
      PROVE  T \in F
  <2>0. IsFiniteSet(T)
      BY FS_Subset
  <2>1. /\ SumOver(f, T) = IF T = {} THEN 0 ELSE f[Pick(T)] + SumOver(f, T \ {Pick(T)})
        /\ SumOver(g, T) = IF T = {} THEN 0 ELSE g[Pick(T)] + SumOver(g, T \ {Pick(T)})
      BY <2>0, SumEquation
  <2>2. CASE T # {}
    <3>1. Pick(T) \in T
        BY <2>2, PickIsElement
    <3>2. T \ {Pick(T)} \in F
        BY <1>1, <3>1
    <3> QED BY <2>1, <2>2, <3>1, <3>2
  <2> QED BY <2>1, <2>2
<1>2. \A T \in SUBSET S : T \in F
  <2> HIDE DEF F
  <2> QED BY <1>1, SubsetInduction
<1> QED BY <1>2

\* An element that leaves takes its value with it, whichever the definition picks.
LEMMA SumRemove ==
  ASSUME NEW f, NEW S, IsFiniteSet(S), \A x \in S : f[x] \in Int, NEW a \in S
  PROVE  SumOver(f, S) = f[a] + SumOver(f, S \ {a})
<1> DEFINE F == {T \in SUBSET S : \A x \in T : SumOver(f, T) = f[x] + SumOver(f, T \ {x})}
<1>1. ASSUME NEW T \in SUBSET S, \A U \in SUBSET T : U # T => U \in F
      PROVE  T \in F
  <2> SUFFICES ASSUME NEW x \in T PROVE SumOver(f, T) = f[x] + SumOver(f, T \ {x})
      OBVIOUS
  <2> DEFINE y == Pick(T)
             u == T \ {y}
             v == T \ {x}
  <2>0. IsFiniteSet(T) /\ IsFiniteSet(u) /\ IsFiniteSet(v)
      BY FS_Subset
  <2>1. y \in T /\ SumOver(f, T) = f[y] + SumOver(f, u)
      BY <2>0, PickIsElement, SumEquation
  <2>2. CASE x # y
    <3>1. u \in F /\ x \in u /\ v \in F /\ y \in v /\ u \ {x} = v \ {y}
        BY <1>1, <2>1, <2>2
    <3>2. /\ SumOver(f, u) = f[x] + SumOver(f, u \ {x})
          /\ SumOver(f, v) = f[y] + SumOver(f, u \ {x})
        BY <3>1
    <3>3. SumOver(f, u \ {x}) \in Int /\ f[x] \in Int /\ f[y] \in Int
      <4>1. IsFiniteSet(u \ {x}) /\ \A z \in u \ {x} : f[z] \in Int
          BY <2>0, FS_Subset
      <4> HIDE DEF u
      <4> QED BY <2>1, <4>1, SumType
    <3> HIDE DEF u, v, y
    <3>4. SumOver(f, T) = f[x] + SumOver(f, v)
        BY <2>1, <3>2, <3>3
    <3> QED BY <3>4 DEF v
  <2> QED BY <2>1, <2>2
<1>2. \A T \in SUBSET S : T \in F
  <2> HIDE DEF F
  <2> QED BY <1>1, SubsetInduction
<1>3. S \in F
    BY <1>2
<1> QED BY <1>3

\* An element that joins brings its value.
LEMMA SumAdd ==
  ASSUME NEW f, NEW S, IsFiniteSet(S), \A x \in S : f[x] \in Int, NEW a, a \notin S,
         f[a] \in Int
  PROVE  SumOver(f, S \cup {a}) = SumOver(f, S) + f[a]
<1> DEFINE T == S \cup {a}
<1>1. IsFiniteSet(T) /\ (\A x \in T : f[x] \in Int) /\ a \in T /\ T \ {a} = S
    BY FS_AddElement
<1>2. SumOver(f, S) \in Int
    BY SumType
<1> HIDE DEF T
<1>3. SumOver(f, T) = f[a] + SumOver(f, T \ {a})
    BY <1>1, SumRemove
<1>4. SumOver(f, T \ {a}) = SumOver(f, S)
  <2>1. T \ {a} = S
      BY <1>1
  <2> QED BY <2>1, Zenon
<1>5. SumOver(f, T) = SumOver(f, S) + f[a]
    BY <1>2, <1>3, <1>4
<1> QED BY <1>5 DEF T
=============================================================================
