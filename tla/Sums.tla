-------------------------------- MODULE Sums ---------------------------------
(***************************************************************************)
(* Facts about sums over finite sets.  The modules add up amounts with the *)
(* fold MapThenSumSet: the outflows of the pending matches, the fills of   *)
(* an order.  The fold is a recursive function over the subsets of the     *)
(* set, so its equations hold once that function is shown to exist; they   *)
(* are proved here for a function a of amounts, by the minimal             *)
(* counterexample among the subsets of a finite set.                       *)
(***************************************************************************)
EXTENDS Integers, FiniteSetTheorems, WellFoundedInduction, TLAPS

\* The element a fold takes out of a set first.
FirstOf(s) == CHOOSE x \in s : TRUE

\* f is the recursive function that adds up a over the subsets of S.
IsSum(f, a, S) ==
  f = [s \in SUBSET S |->
         IF s = {} THEN 0 ELSE a[FirstOf(s)] + f[s \ {FirstOf(s)}]]

SumOver(a, S) == (CHOOSE f : IsSum(f, a, S))[S]

\* A non-empty set of finite sets has a member without a proper subset in it:
\* the form in which the proofs below use induction over finite sets.
LEMMA MinimalSet ==
  ASSUME NEW T, T # {}, \A s \in T : IsFiniteSet(s)
  PROVE  \E s \in T : \A u \in T : ~ (u \subseteq s /\ u # s)
<1> DEFINE S == UNION T
<1>1. T \subseteq FiniteSubsetsOf(S)
  BY DEF FiniteSubsetsOf
<1>2. PICK s \in T : \A u \in T : ~ (<<u, s>> \in StrictSubsetOrdering(S))
  BY <1>1, FS_StrictSubsetOrderingWellFounded, WFMin
<1> QED BY <1>2 DEF StrictSubsetOrdering

\* The recursive function is determined by its equation.
LEMMA SumUnique ==
  ASSUME NEW a, NEW S, IsFiniteSet(S), NEW U \in SUBSET S, NEW f, NEW g,
         IsSum(f, a, S), IsSum(g, a, U), NEW v \in SUBSET U
  PROVE  f[v] = g[v]
<1> DEFINE Bad == {s \in SUBSET U : f[s] # g[s]}
<1> SUFFICES Bad = {}
  OBVIOUS
<1> SUFFICES ASSUME Bad # {} PROVE FALSE
  OBVIOUS
<1>1. \A s \in Bad : IsFiniteSet(s)
  BY FS_Subset
<1>2. PICK s \in Bad : \A u \in Bad : ~ (u \subseteq s /\ u # s)
  <2> HIDE DEF Bad
  <2> QED BY <1>1, MinimalSet
<1>3. s \in SUBSET U /\ s \in SUBSET S /\ f[s] # g[s]
  OBVIOUS
<1>4. /\ f[s] = IF s = {} THEN 0 ELSE a[FirstOf(s)] + f[s \ {FirstOf(s)}]
      /\ g[s] = IF s = {} THEN 0 ELSE a[FirstOf(s)] + g[s \ {FirstOf(s)}]
  BY <1>3 DEF IsSum
<1>5. CASE s = {}
  BY <1>3, <1>4, <1>5
<1>6. CASE s # {}
  <2>1. FirstOf(s) \in s
    BY <1>6 DEF FirstOf
  <2>2. s \ {FirstOf(s)} \subseteq s /\ s \ {FirstOf(s)} # s
    BY <2>1
  <2>3. f[s \ {FirstOf(s)}] = g[s \ {FirstOf(s)}]
    BY <1>2, <1>3, <2>2
  <2> QED BY <1>3, <1>4, <1>6, <2>3
<1> QED BY <1>5, <1>6

\* The recursive function exists for every finite set.
LEMMA SumExists ==
  ASSUME NEW a, NEW S, IsFiniteSet(S) PROVE \E f : IsSum(f, a, S)
<1> DEFINE Bad == {s \in SUBSET S : ~ \E f : IsSum(f, a, s)}
<1> SUFFICES Bad = {}
  OBVIOUS
<1> SUFFICES ASSUME Bad # {} PROVE FALSE
  OBVIOUS
<1>1. \A s \in Bad : IsFiniteSet(s)
  BY FS_Subset
<1>2. PICK s \in Bad : \A u \in Bad : ~ (u \subseteq s /\ u # s)
  <2> HIDE DEF Bad
  <2> QED BY <1>1, MinimalSet
<1>3. s \in SUBSET S /\ IsFiniteSet(s) /\ ~ \E f : IsSum(f, a, s)
  BY <1>1, <1>2
<1>4. \A u \in SUBSET s : u # s => \E f : IsSum(f, a, u)
  BY <1>2, <1>3
<1> HIDE DEF Bad
<1> DEFINE G(u) == CHOOSE f : IsSum(f, a, u)
           val(u) == IF u = {} THEN 0 ELSE a[FirstOf(u)] + G(u \ {FirstOf(u)})[u \ {FirstOf(u)}]
           h == [u \in SUBSET s |-> val(u)]
<1>5. \A u \in SUBSET s : u # s => IsSum(G(u), a, u)
  BY <1>4
<1>6. \A u \in SUBSET s : u # s => G(u)[u] = val(u)
  <2> SUFFICES ASSUME NEW u \in SUBSET s, u # s PROVE G(u)[u] = val(u)
    OBVIOUS
  <2>1. IsSum(G(u), a, u) /\ IsFiniteSet(u)
    BY <1>3, <1>5, FS_Subset
  <2> HIDE DEF G
  <2>2. G(u)[u] = IF u = {} THEN 0 ELSE a[FirstOf(u)] + G(u)[u \ {FirstOf(u)}]
    <3>1. u \in SUBSET u
      OBVIOUS
    <3> QED BY <2>1, <3>1 DEF IsSum
  <2>3. CASE u = {}
    BY <2>2, <2>3
  <2>4. CASE u # {}
    <3> DEFINE w == u \ {FirstOf(u)}
    <3>1. FirstOf(u) \in u
      BY <2>4 DEF FirstOf
    <3>2. w \in SUBSET u /\ w \in SUBSET s /\ w # s
      BY <3>1
    <3>3. IsSum(G(w), a, w)
      BY <1>5, <3>2
    <3> HIDE DEF w
    <3>4. G(u)[w] = G(w)[w]
      <4>1. w \in SUBSET w
        OBVIOUS
      <4> QED BY <2>1, <3>2, <3>3, <4>1, SumUnique
    <3> QED BY <2>2, <2>4, <3>4 DEF w
  <2> QED BY <2>3, <2>4
<1>7. \A u \in SUBSET s : u # {} => /\ u \ {FirstOf(u)} \in SUBSET s
                                     /\ u \ {FirstOf(u)} # s
  BY DEF FirstOf
<1> HIDE DEF G
<1>8. h = [u \in SUBSET s |->
             IF u = {} THEN 0 ELSE a[FirstOf(u)] + h[u \ {FirstOf(u)}]]
  <2>1. \A u \in SUBSET s : u # {} => h[u \ {FirstOf(u)}] = G(u \ {FirstOf(u)})[u \ {FirstOf(u)}]
    <3> SUFFICES ASSUME NEW u \in SUBSET s, u # {}
                 PROVE  h[u \ {FirstOf(u)}] = G(u \ {FirstOf(u)})[u \ {FirstOf(u)}]
      OBVIOUS
    <3> DEFINE w == u \ {FirstOf(u)}
    <3>1. w \in SUBSET s /\ w # s
      BY <1>7
    <3> HIDE DEF w
    <3>2. h[w] = val(w)
      BY <3>1
    <3> HIDE DEF h, val
    <3>3. h[w] = G(w)[w]
      BY <1>6, <3>1, <3>2
    <3> QED BY <3>3 DEF w
  <2>2. \A u \in SUBSET s :
          val(u) = IF u = {} THEN 0 ELSE a[FirstOf(u)] + h[u \ {FirstOf(u)}]
    <3> HIDE DEF h
    <3> QED BY <2>1
  <2> HIDE DEF val
  <2> DEFINE e(u) == IF u = {} THEN 0 ELSE a[FirstOf(u)] + h[u \ {FirstOf(u)}]
  <2>3. \A u \in SUBSET s : val(u) = e(u)
    BY <2>2
  <2>4. h = [u \in SUBSET s |-> val(u)]
    OBVIOUS
  <2> HIDE DEF e, h
  <2>5. h = [u \in SUBSET s |-> e(u)]
    BY <2>3, <2>4
  <2> QED BY <2>5 DEF e
<1>9. IsSum(h, a, s)
  <2> HIDE DEF h
  <2> QED BY <1>8 DEF IsSum
<1> QED BY <1>3, <1>9

\* The equations of a sum.
LEMMA SumStep ==
  ASSUME NEW a, NEW S, IsFiniteSet(S)
  PROVE  /\ S = {} => SumOver(a, S) = 0
         /\ S # {} => SumOver(a, S) = a[FirstOf(S)] + SumOver(a, S \ {FirstOf(S)})
<1> DEFINE F(U) == CHOOSE f : IsSum(f, a, U)
<1>1. \A U : SumOver(a, U) = F(U)[U]
  BY DEF SumOver
<1>2. \A U : IsFiniteSet(U) => IsSum(F(U), a, U)
  BY SumExists
<1> HIDE DEF F
<1>3. F(S)[S] = IF S = {} THEN 0 ELSE a[FirstOf(S)] + F(S)[S \ {FirstOf(S)}]
  <2>1. IsSum(F(S), a, S) /\ S \in SUBSET S
    BY <1>2
  <2> QED BY <2>1 DEF IsSum
<1>4. CASE S # {}
  <2> DEFINE w == S \ {FirstOf(S)}
  <2>1. w \in SUBSET S /\ w \in SUBSET w
    OBVIOUS
  <2>2. IsFiniteSet(w)
    BY FS_RemoveElement
  <2>3. IsSum(F(S), a, S) /\ IsSum(F(w), a, w)
    BY <1>2, <2>2
  <2> HIDE DEF w
  <2>4. F(S)[w] = F(w)[w]
    BY <2>1, <2>3, SumUnique
  <2> QED BY <1>1, <1>3, <1>4, <2>4 DEF w
<1>5. CASE S = {}
  BY <1>1, <1>3, <1>5
<1> QED BY <1>4, <1>5

\* A finite sum of natural numbers is a natural number.
LEMMA SumNat ==
  ASSUME NEW D, NEW a \in [D -> Nat], NEW S \in SUBSET D, IsFiniteSet(S) PROVE SumOver(a, S) \in Nat
<1> DEFINE Bad == {s \in SUBSET S : SumOver(a, s) \notin Nat}
<1> SUFFICES ASSUME Bad # {} PROVE FALSE
  OBVIOUS
<1>1. \A s \in Bad : IsFiniteSet(s)
  BY FS_Subset
<1>2. PICK s \in Bad : \A u \in Bad : ~ (u \subseteq s /\ u # s)
  <2> HIDE DEF Bad
  <2> QED BY <1>1, MinimalSet
<1>3. s \in SUBSET S /\ IsFiniteSet(s) /\ SumOver(a, s) \notin Nat
  BY <1>1, <1>2
<1>4. s # {} /\ SumOver(a, s) = a[FirstOf(s)] + SumOver(a, s \ {FirstOf(s)})
  BY <1>3, SumStep
<1>5. FirstOf(s) \in s /\ FirstOf(s) \in D
  BY <1>3, <1>4 DEF FirstOf
<1>6. SumOver(a, s \ {FirstOf(s)}) \in Nat
  BY <1>2, <1>3, <1>5
<1> QED BY <1>3, <1>4, <1>5, <1>6

\* The order of the summation does not matter: any element can be taken out.
LEMMA SumRemove ==
  ASSUME NEW D, NEW a \in [D -> Nat], NEW S \in SUBSET D, IsFiniteSet(S), NEW x \in S
  PROVE  SumOver(a, S) = a[x] + SumOver(a, S \ {x})
<1> DEFINE Bad == {s \in SUBSET S :
                     \E y \in s : SumOver(a, s) # a[y] + SumOver(a, s \ {y})}
<1> SUFFICES ASSUME Bad # {} PROVE FALSE
  OBVIOUS
<1>1. \A s \in Bad : IsFiniteSet(s)
  BY FS_Subset
<1>2. PICK s \in Bad : \A u \in Bad : ~ (u \subseteq s /\ u # s)
  <2> HIDE DEF Bad
  <2> QED BY <1>1, MinimalSet
<1>3. s \in SUBSET S /\ s \in SUBSET D /\ IsFiniteSet(s)
  BY <1>1, <1>2
<1>4. PICK y \in s : SumOver(a, s) # a[y] + SumOver(a, s \ {y})
  BY <1>2
<1> DEFINE z == FirstOf(s)
           both == (s \ {z}) \ {y}
<1>5. z \in s
  BY <1>4 DEF FirstOf
<1>6. SumOver(a, s) = a[z] + SumOver(a, s \ {z})
  BY <1>3, <1>4, SumStep
<1>7. y # z
  BY <1>4, <1>6
<1>8. SumOver(a, s \ {z}) = a[y] + SumOver(a, both)
  <2>1. s \ {z} \in SUBSET S /\ s \ {z} \subseteq s /\ s \ {z} # s
    BY <1>3, <1>5
  <2>2. s \ {z} \notin Bad
    BY <1>2, <2>1
  <2> QED BY <1>4, <1>7, <2>1, <2>2
<1>9. SumOver(a, s \ {y}) = a[z] + SumOver(a, both)
  <2>1. s \ {y} \in SUBSET S /\ s \ {y} \subseteq s /\ s \ {y} # s
    BY <1>3, <1>4
  <2>2. s \ {y} \notin Bad
    BY <1>2, <2>1
  <2>3. (s \ {y}) \ {z} = both /\ z \in s \ {y}
    BY <1>5, <1>7
  <2> QED BY <2>1, <2>2, <2>3
<1>10. a[y] \in Nat /\ a[z] \in Nat
  BY <1>3, <1>4, <1>5
<1>11. SumOver(a, both) \in Nat
  <2>1. both \in SUBSET D /\ IsFiniteSet(both)
    BY <1>3, FS_RemoveElement
  <2> HIDE DEF both
  <2> QED BY <2>1, SumNat
<1> HIDE DEF Bad, z, both
<1> QED BY <1>4, <1>6, <1>8, <1>9, <1>10, <1>11

\* One summand more.
LEMMA SumAdd ==
  ASSUME NEW D, NEW a \in [D -> Nat], NEW S \in SUBSET D, IsFiniteSet(S), NEW x \in D, x \notin S
  PROVE  SumOver(a, S \union {x}) = SumOver(a, S) + a[x]
<1> DEFINE T == S \union {x}
<1>1. T \in SUBSET D /\ IsFiniteSet(T) /\ x \in T /\ T \ {x} = S
  BY FS_AddElement
<1> HIDE DEF T
<1>2. SumOver(a, T) = a[x] + SumOver(a, T \ {x})
  BY <1>1, SumRemove
<1>3. SumOver(a, S) \in Nat /\ a[x] \in Nat
  BY SumNat
<1>4. SumOver(a, T) = a[x] + SumOver(a, S)
  BY <1>1, <1>2, Zenon
<1>5. SumOver(a, T) = SumOver(a, S) + a[x]
  BY <1>3, <1>4
<1> QED BY <1>5 DEF T

\* Fewer summands make no larger sum.
LEMMA SumMono ==
  ASSUME NEW D, NEW a \in [D -> Nat], NEW S \in SUBSET D, IsFiniteSet(S), NEW T \in SUBSET S
  PROVE  SumOver(a, T) <= SumOver(a, S)
<1> DEFINE Bad == {s \in SUBSET S : T \subseteq s /\ ~ (SumOver(a, T) <= SumOver(a, s))}
<1> SUFFICES ASSUME Bad # {} PROVE FALSE
  OBVIOUS
<1>1. \A s \in Bad : IsFiniteSet(s)
  BY FS_Subset
<1>2. PICK s \in Bad : \A u \in Bad : ~ (u \subseteq s /\ u # s)
  <2> HIDE DEF Bad
  <2> QED BY <1>1, MinimalSet
<1>3. /\ s \in SUBSET S /\ s \in SUBSET D /\ IsFiniteSet(s)
      /\ T \subseteq s /\ ~ (SumOver(a, T) <= SumOver(a, s))
  BY <1>1, <1>2
<1>4. SumOver(a, T) \in Nat /\ SumOver(a, s) \in Nat
  BY <1>3, SumNat, FS_Subset
<1>5. PICK x \in s : x \notin T
  <2>1. T # s
    BY <1>3, <1>4
  <2> QED BY <1>3, <2>1
<1>6. SumOver(a, s) = a[x] + SumOver(a, s \ {x})
  BY <1>3, SumRemove
<1>7. SumOver(a, T) <= SumOver(a, s \ {x})
  <2>1. s \ {x} \in SUBSET S /\ T \subseteq s \ {x} /\ s \ {x} # s
    BY <1>3, <1>5
  <2> QED BY <1>2, <2>1
<1>8. SumOver(a, s \ {x}) \in Nat /\ a[x] \in Nat
  BY <1>3, SumNat, FS_RemoveElement
<1> HIDE DEF Bad
<1> QED BY <1>3, <1>4, <1>6, <1>7, <1>8

\* A sum is the value of any function that satisfies the equation.
LEMMA SumIs ==
  ASSUME NEW a, NEW S, IsFiniteSet(S), NEW f, IsSum(f, a, S)
  PROVE  f[S] = SumOver(a, S)
<1> DEFINE g == CHOOSE h : IsSum(h, a, S)
<1>1. IsSum(g, a, S)
  OBVIOUS
<1>2. S \in SUBSET S
  OBVIOUS
<1> HIDE DEF g
<1>3. f[S] = g[S]
  BY <1>1, <1>2, SumUnique
<1> QED BY <1>3 DEF g, SumOver

\* Only the amounts of the elements matter.
LEMMA SumCongruence ==
  ASSUME NEW a, NEW b, NEW S, IsFiniteSet(S), \A x \in S : a[x] = b[x]
  PROVE  SumOver(a, S) = SumOver(b, S)
<1>1. PICK f : IsSum(f, a, S)
  BY SumExists
<1>2. \A s \in SUBSET S : s # {} => a[FirstOf(s)] = b[FirstOf(s)]
  BY DEF FirstOf
<1>3. IsSum(f, b, S)
  BY <1>1, <1>2 DEF IsSum
<1> QED BY <1>1, <1>3, SumIs

\* A set of natural numbers has a least member: the form in which proofs use
\* induction over the naturals.
LEMMA LeastNat ==
    ASSUME NEW T \in SUBSET Nat, T # {}
    PROVE  \E n \in T : \A m \in T : n <= m
<1> DEFINE U == {0 .. n : n \in T}
<1>1. U # {} /\ \A s \in U : IsFiniteSet(s)
  <2>1. \A n \in T : IsFiniteSet(0 .. n)
    BY FS_Interval
  <2> QED BY <2>1
<1>2. PICK s \in U : \A u \in U : ~ (u \subseteq s /\ u # s)
  <2> HIDE DEF U
  <2> QED BY <1>1, MinimalSet
<1>3. PICK n \in T : s = 0 .. n
  OBVIOUS
<1>4. ASSUME NEW m \in T, m < n PROVE FALSE
  <2>1. 0 .. m \in U /\ 0 .. m \subseteq s /\ n \in s /\ n \notin 0 .. m
    BY <1>3, <1>4
  <2> QED BY <1>2, <2>1
<1> QED BY <1>4
=============================================================================
