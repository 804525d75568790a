---------------------------- MODULE Sums_proofs ----------------------------
(***************************************************************************)
(* What the sums of the models are: SumFunctionOnSet of the community      *)
(* modules takes the elements of a finite set one by one, in an order it   *)
(* does not say.  The lemmas show that the order does not matter, so that  *)
(* a sum can be taken apart at any element.  The induction is the          *)
(* existence of a least set among sets of finite sets.                     *)
(***************************************************************************)
EXTENDS Integers, FiniteSets, Functions, FiniteSetTheorems, TLAPS

\* The element that is taken next.
Pick(s) == CHOOSE x \in s : TRUE

\* A table of the sums over the subsets of S, and what it has for S.
Table(f, S, g) ==
  g = [s \in SUBSET S |-> IF s = {} THEN 0 ELSE f[Pick(s)] + g[s \ {Pick(s)}]]
Tabled(f, S) == (CHOOSE g : Table(f, S, g))[S]

\* A set of finite sets that is not empty has a member none of whose proper
\* subsets is in it.
LEMMA LeastSubset ==
  ASSUME NEW S, IsFiniteSet(S), NEW T, T \subseteq SUBSET S, T # {}
  PROVE  \E x \in T : \A y \in T : y \subseteq x => y = x
<1> DEFINE R == StrictSubsetOrdering(S)
<1>1. IsWellFoundedOn(R, FiniteSubsetsOf(S))
  BY FS_StrictSubsetOrderingWellFounded
<1>2. FiniteSubsetsOf(S) = SUBSET S
  BY FS_FiniteSubsetsOfFinite
<1>3. \E x \in T : \A y \in T : ~(<<y, x>> \in R)
  <2> HIDE DEF R
  <2> QED BY <1>1, <1>2, WFMin
<1>4. ASSUME NEW x \in T, NEW y \in T, y \subseteq x, y # x PROVE <<y, x>> \in R
  BY <1>4 DEF StrictSubsetOrdering
<1> QED BY <1>3, <1>4

\* The sum is read off a table, if there is one.
LEMMA SumIsTabled ==
  ASSUME NEW f, NEW S
  PROVE  SumFunctionOnSet(f, S) = Tabled(f, S)
BY DEF SumFunctionOnSet, FoldFunctionOnSet, MapThenFoldSet, Tabled, Table, Pick

LEMMA PickIn ==
  ASSUME NEW s, s # {}
  PROVE  Pick(s) \in s
BY DEF Pick

\* Tables have the same for the sets they share.
LEMMA TablesAgree ==
  ASSUME NEW f, NEW A, NEW B, NEW g, NEW h, IsFiniteSet(A),
         Table(f, A, g), Table(f, B, h), NEW u, u \subseteq A, u \subseteq B
  PROVE  g[u] = h[u]
<1> DEFINE T == {t \in SUBSET u : g[t] # h[t]}
<1>1. SUFFICES ASSUME T # {} PROVE FALSE
  BY <1>1
<1>2. IsFiniteSet(u)
  BY FS_Subset
<1>3. PICK t \in T : \A y \in T : y \subseteq t => y = t
  <2>1. T \subseteq SUBSET u
    OBVIOUS
  <2> HIDE DEF T
  <2> QED BY <1>1, <1>2, <2>1, LeastSubset
<1>4. g[t] = IF t = {} THEN 0 ELSE f[Pick(t)] + g[t \ {Pick(t)}]
  BY DEF Table
<1>5. h[t] = IF t = {} THEN 0 ELSE f[Pick(t)] + h[t \ {Pick(t)}]
  BY DEF Table
<1>6. t # {} /\ Pick(t) \in t
  BY <1>4, <1>5, PickIn
<1>7. g[t \ {Pick(t)}] = h[t \ {Pick(t)}]
  BY <1>3, <1>6
<1> QED BY <1>4, <1>5, <1>6, <1>7

\* There is a table for every finite set.
LEMMA TableExists ==
  ASSUME NEW f, NEW S, IsFiniteSet(S)
  PROVE  \E g : Table(f, S, g)
<1> DEFINE T == {t \in SUBSET S : ~(\E g : Table(f, t, g))}
<1>1. SUFFICES ASSUME T # {} PROVE FALSE
  <2>1. S \notin T => \E g : Table(f, S, g)
    OBVIOUS
  <2> QED BY <1>1, <2>1
<1>2. PICK s \in T : \A y \in T : y \subseteq s => y = s
  <2>1. T \subseteq SUBSET S
    OBVIOUS
  <2> HIDE DEF T
  <2> QED BY <1>1, <2>1, LeastSubset
<1>3. IsFiniteSet(s)
  BY FS_Subset
<1>4. ASSUME NEW t, t \subseteq s, t # s PROVE Table(f, t, CHOOSE g : Table(f, t, g))
  <2>1. t \notin T
    BY <1>2, <1>4
  <2> QED BY <1>4, <2>1
<1> DEFINE G == [u \in SUBSET s |-> IF u = {} THEN 0
                                    ELSE f[Pick(u)] + Tabled(f, u \ {Pick(u)})]
<1>5. ASSUME NEW t, t \subseteq s, t # s PROVE G[t] = Tabled(f, t)
  <2> DEFINE g == CHOOSE g : Table(f, t, g)
  <2>1. Table(f, t, g)
    BY <1>4, <1>5
  <2>2. g[t] = IF t = {} THEN 0 ELSE f[Pick(t)] + g[t \ {Pick(t)}]
    <3> HIDE DEF g
    <3> QED BY <2>1 DEF Table
  <2>3. CASE t = {}
    BY <2>2, <2>3 DEF Tabled
  <2>4. CASE t # {}
    <3> DEFINE r == t \ {Pick(t)}
               h == CHOOSE g1 : Table(f, r, g1)
    <3>1. Pick(t) \in t
      BY <2>4, PickIn
    <3>2. Table(f, r, h)
      <4>1. r \subseteq s /\ r # s
        BY <3>1, <1>5
      <4> HIDE DEF r
      <4> QED BY <4>1, <1>4
    <3>3. IsFiniteSet(r) /\ r \subseteq t
      BY <1>3, <1>5, FS_Subset
    <3>4. g[r] = h[r]
      <4> HIDE DEF g, h, r
      <4> QED BY <2>1, <3>2, <3>3, TablesAgree
    <3>5. h[r] = Tabled(f, r)
      BY DEF Tabled
    <3>6. g[t] = Tabled(f, t)
      BY DEF Tabled
    <3> HIDE DEF g, h
    <3> QED BY <2>2, <2>4, <3>4, <3>5, <3>6, <1>5
  <2> QED BY <2>3, <2>4
<1>6. Table(f, s, G)
  <2>1. ASSUME NEW u \in SUBSET s, u # {} PROVE G[u \ {Pick(u)}] = Tabled(f, u \ {Pick(u)})
    <3>1. Pick(u) \in u
      BY <2>1, PickIn
    <3> HIDE DEF G
    <3> QED BY <1>5, <3>1
  <2> QED BY <2>1 DEF Table
<1> QED BY <1>6

\* A sum is nothing, or an element and the sum of the rest.
LEMMA SumUnfolds ==
  ASSUME NEW f, NEW S, IsFiniteSet(S)
  PROVE  SumFunctionOnSet(f, S) =
           IF S = {} THEN 0
           ELSE f[Pick(S)] + SumFunctionOnSet(f, S \ {Pick(S)})
<1> DEFINE g == CHOOSE g : Table(f, S, g)
           r == S \ {Pick(S)}
           h == CHOOSE h : Table(f, r, h)
<1>1. Table(f, S, g)
  BY TableExists
<1>2. IsFiniteSet(r) /\ r \subseteq S
  BY FS_Subset
<1>3. Table(f, r, h)
  <2> HIDE DEF r
  <2> QED BY <1>2, TableExists
<1>4. g[r] = h[r]
  <2> HIDE DEF g, h, r
  <2> QED BY <1>1, <1>2, <1>3, TablesAgree
<1>5. g[S] = IF S = {} THEN 0 ELSE f[Pick(S)] + g[r]
  <2> HIDE DEF g
  <2> QED BY <1>1 DEF Table
<1>6. SumFunctionOnSet(f, S) = g[S] /\ SumFunctionOnSet(f, r) = h[r]
  BY SumIsTabled DEF Tabled
<1> HIDE DEF g, h
<1> QED BY <1>4, <1>5, <1>6

-----------------------------------------------------------------------------
(* What the proofs cite.                                                   *)

LEMMA SumEmpty ==
  ASSUME NEW f
  PROVE  SumFunctionOnSet(f, {}) = 0
BY SumUnfolds, FS_EmptySet

LEMMA SumNat ==
  ASSUME NEW f, NEW S, IsFiniteSet(S), \A x \in S : f[x] \in Nat
  PROVE  SumFunctionOnSet(f, S) \in Nat
<1> DEFINE T == {t \in SUBSET S : SumFunctionOnSet(f, t) \notin Nat}
<1>1. SUFFICES ASSUME T # {} PROVE FALSE
  BY <1>1
<1>2. PICK t \in T : \A y \in T : y \subseteq t => y = t
  <2>1. T \subseteq SUBSET S
    OBVIOUS
  <2> HIDE DEF T
  <2> QED BY <1>1, <2>1, LeastSubset
<1>3. IsFiniteSet(t)
  BY FS_Subset
<1>4. SumFunctionOnSet(f, t) = IF t = {} THEN 0
        ELSE f[Pick(t)] + SumFunctionOnSet(f, t \ {Pick(t)})
  BY <1>3, SumUnfolds
<1>5. CASE t = {}
  BY <1>4, <1>5
<1>6. CASE t # {}
  <2>1. Pick(t) \in t
    BY <1>6, PickIn
  <2>2. SumFunctionOnSet(f, t \ {Pick(t)}) \in Nat
    BY <1>2, <2>1
  <2> QED BY <1>4, <1>6, <2>1, <2>2
<1> QED BY <1>5, <1>6

LEMMA SumSame ==
  ASSUME NEW f, NEW g, NEW S, IsFiniteSet(S), \A x \in S : f[x] = g[x]
  PROVE  SumFunctionOnSet(f, S) = SumFunctionOnSet(g, S)
<1> DEFINE T == {t \in SUBSET S : SumFunctionOnSet(f, t) # SumFunctionOnSet(g, t)}
<1>1. SUFFICES ASSUME T # {} PROVE FALSE
  BY <1>1
<1>2. PICK t \in T : \A y \in T : y \subseteq t => y = t
  <2>1. T \subseteq SUBSET S
    OBVIOUS
  <2> HIDE DEF T
  <2> QED BY <1>1, <2>1, LeastSubset
<1>3. IsFiniteSet(t)
  BY FS_Subset
<1>4. SumFunctionOnSet(f, t) = IF t = {} THEN 0
        ELSE f[Pick(t)] + SumFunctionOnSet(f, t \ {Pick(t)})
  BY <1>3, SumUnfolds
<1>5. SumFunctionOnSet(g, t) = IF t = {} THEN 0
        ELSE g[Pick(t)] + SumFunctionOnSet(g, t \ {Pick(t)})
  BY <1>3, SumUnfolds
<1>6. t # {} /\ Pick(t) \in t
  BY <1>4, <1>5, PickIn
<1>7. SumFunctionOnSet(f, t \ {Pick(t)}) = SumFunctionOnSet(g, t \ {Pick(t)})
  BY <1>2, <1>6
<1> QED BY <1>4, <1>5, <1>6, <1>7

\* Any element can be taken first.
LEMMA SumRemove ==
  ASSUME NEW f, NEW S, IsFiniteSet(S), \A x \in S : f[x] \in Nat, NEW x \in S
  PROVE  SumFunctionOnSet(f, S) = f[x] + SumFunctionOnSet(f, S \ {x})
<1> DEFINE Sum(t) == SumFunctionOnSet(f, t)
           T == {t \in SUBSET S : \E y \in t : Sum(t) # f[y] + Sum(t \ {y})}
<1>1. SUFFICES ASSUME T # {} PROVE FALSE
  BY <1>1
<1>2. PICK t \in T : \A u \in T : u \subseteq t => u = t
  <2>1. T \subseteq SUBSET S
    OBVIOUS
  <2> HIDE DEF T
  <2> QED BY <1>1, <2>1, LeastSubset
<1>3. IsFiniteSet(t) /\ t \subseteq S
  BY FS_Subset
<1>4. PICK y \in t : Sum(t) # f[y] + Sum(t \ {y})
  OBVIOUS
<1> DEFINE p == Pick(t)
<1>5. p \in t
  BY <1>4, PickIn
<1>6. Sum(t) = f[p] + Sum(t \ {p})
  BY <1>3, <1>4, SumUnfolds
<1>7. p # y
  BY <1>4, <1>6
<1>8. \A u \in SUBSET t : u # t => \A z \in u : Sum(u) = f[z] + Sum(u \ {z})
  BY <1>2, <1>3
<1> HIDE DEF p
<1>9. Sum(t \ {p}) = f[y] + Sum((t \ {p}) \ {y})
  <2>1. t \ {p} \in SUBSET t /\ t \ {p} # t /\ y \in t \ {p}
    BY <1>4, <1>5, <1>7
  <2> QED BY <2>1, <1>8
<1>10. Sum(t \ {y}) = f[p] + Sum((t \ {y}) \ {p})
  <2>1. t \ {y} \in SUBSET t /\ t \ {y} # t /\ p \in t \ {y}
    BY <1>4, <1>5, <1>7
  <2> QED BY <2>1, <1>8
<1>11. (t \ {p}) \ {y} = (t \ {y}) \ {p}
  OBVIOUS
<1>12. f[p] \in Nat /\ f[y] \in Nat /\ Sum((t \ {y}) \ {p}) \in Nat
  <2>1. IsFiniteSet((t \ {y}) \ {p})
    BY <1>3, FS_Subset
  <2> QED BY <1>3, <1>4, <1>5, <2>1, SumNat
<1>13. Sum(t) = f[p] + (f[y] + Sum((t \ {y}) \ {p}))
  BY <1>6, <1>9, <1>11
<1>14. f[y] + Sum(t \ {y}) = f[y] + (f[p] + Sum((t \ {y}) \ {p}))
  BY <1>10
<1>15. \A a, b, c \in Nat : a + (b + c) = b + (a + c)
  OBVIOUS
<1>16. f[p] + (f[y] + Sum((t \ {y}) \ {p})) = f[y] + (f[p] + Sum((t \ {y}) \ {p}))
  BY <1>12, <1>15
<1> QED BY <1>4, <1>13, <1>14, <1>16

LEMMA SumAdd ==
  ASSUME NEW f, NEW S, IsFiniteSet(S), NEW x, x \notin S, \A y \in S \cup {x} : f[y] \in Nat
  PROVE  SumFunctionOnSet(f, S \cup {x}) = SumFunctionOnSet(f, S) + f[x]
<1> DEFINE U == S \cup {x}
<1>1. IsFiniteSet(U) /\ x \in U /\ U \ {x} = S
  BY FS_AddElement
<1>2. SumFunctionOnSet(f, U) = f[x] + SumFunctionOnSet(f, U \ {x})
  <2> HIDE DEF U
  <2>1. \A y \in U : f[y] \in Nat
    BY DEF U
  <2> QED BY <1>1, <2>1, SumRemove
<1>3. SumFunctionOnSet(f, S) \in Nat /\ f[x] \in Nat
  BY SumNat
<1> QED BY <1>1, <1>2, <1>3

\* An element is at most the sum.
LEMMA SumBound ==
  ASSUME NEW f, NEW S, IsFiniteSet(S), \A x \in S : f[x] \in Nat, NEW x \in S
  PROVE  f[x] <= SumFunctionOnSet(f, S)
<1>1. SumFunctionOnSet(f, S) = f[x] + SumFunctionOnSet(f, S \ {x})
  BY SumRemove
<1>2. SumFunctionOnSet(f, S \ {x}) \in Nat
  <2>1. IsFiniteSet(S \ {x})
    BY FS_Subset
  <2> QED BY <2>1, SumNat
<1> QED BY <1>1, <1>2

\* When one element changes, the sum changes by as much.
LEMMA SumChange ==
  ASSUME NEW f, NEW g, NEW S, IsFiniteSet(S), NEW x \in S,
         \A y \in S : f[y] \in Nat /\ g[y] \in Nat,
         \A y \in S \ {x} : g[y] = f[y]
  PROVE  SumFunctionOnSet(g, S) + f[x] = SumFunctionOnSet(f, S) + g[x]
<1>1. SumFunctionOnSet(f, S) = f[x] + SumFunctionOnSet(f, S \ {x})
  BY SumRemove
<1>2. SumFunctionOnSet(g, S) = g[x] + SumFunctionOnSet(g, S \ {x})
  BY SumRemove
<1>3. IsFiniteSet(S \ {x})
  BY FS_Subset
<1>4. SumFunctionOnSet(g, S \ {x}) = SumFunctionOnSet(f, S \ {x})
  BY <1>3, SumSame
<1>5. SumFunctionOnSet(f, S \ {x}) \in Nat
  BY <1>3, SumNat
<1>6. f[x] \in Nat /\ g[x] \in Nat
  OBVIOUS
<1>7. \A a, b, c \in Nat : (a + c) + b = (b + c) + a
  OBVIOUS
<1> QED BY <1>1, <1>2, <1>4, <1>5, <1>6, <1>7

-----------------------------------------------------------------------------
(* Sums over sets put together of others.                                  *)

\* What is true of the empty set, and stays true when an element is added, is
\* true of a finite set.  T is the set of those it is true of.
LEMMA GrowInduction ==
  ASSUME NEW S, IsFiniteSet(S), NEW T, {} \in T,
         \A t \in T : t \subseteq S => \A x \in S \ t : t \cup {x} \in T
  PROVE  S \in T
<1> DEFINE B == {t \in SUBSET S : t \notin T}
<1>1. SUFFICES ASSUME B # {} PROVE FALSE
  BY <1>1
<1>2. PICK t \in B : \A y \in B : y \subseteq t => y = t
  <2>1. B \subseteq SUBSET S
    OBVIOUS
  <2> HIDE DEF B
  <2> QED BY <1>1, <2>1, LeastSubset
<1>3. PICK x \in t : TRUE
  OBVIOUS
<1>4. t \ {x} \in T
  BY <1>2, <1>3
<1>5. (t \ {x}) \cup {x} \in T
  <2>1. t \ {x} \subseteq S /\ x \in S \ (t \ {x})
    BY <1>3
  <2> QED BY <1>4, <2>1
<1>6. (t \ {x}) \cup {x} = t
  BY <1>3
<1> QED BY <1>5, <1>6

LEMMA SumUnion ==
  ASSUME NEW f, NEW A, NEW B, IsFiniteSet(A), IsFiniteSet(B), A \cap B = {},
         \A x \in A \cup B : f[x] \in Nat
  PROVE  SumFunctionOnSet(f, A \cup B) = SumFunctionOnSet(f, A) + SumFunctionOnSet(f, B)
<1> DEFINE Sum(t) == SumFunctionOnSet(f, t)
           T == {t \in SUBSET B : Sum(A \cup t) = Sum(A) + Sum(t)}
<1>1. Sum(A) \in Nat
  BY SumNat
<1>2. {} \in T
  <2>1. Sum({}) = 0 /\ A \cup {} = A
    BY SumEmpty
  <2> QED BY <1>1, <2>1
<1>3. ASSUME NEW t \in T, t \subseteq B, NEW x \in B \ t PROVE t \cup {x} \in T
  <2> DEFINE u == A \cup t
  <2>1. IsFiniteSet(t)
    BY FS_Subset
  <2>2. IsFiniteSet(u)
    BY <2>1, FS_Union
  <2>3. x \notin u /\ \A y \in u \cup {x} : f[y] \in Nat
    BY <1>3
  <2> HIDE DEF u
  <2>4. Sum(u \cup {x}) = Sum(u) + f[x]
    BY <2>2, <2>3, SumAdd
  <2>5. Sum(t \cup {x}) = Sum(t) + f[x]
    BY <1>3, <2>1, SumAdd
  <2>6. Sum(t) \in Nat /\ f[x] \in Nat
    BY <1>3, <2>1, SumNat
  <2>7. Sum(u) = Sum(A) + Sum(t) /\ A \cup (t \cup {x}) = u \cup {x}
    BY DEF u
  <2>8. Sum(A \cup (t \cup {x})) = Sum(A) + Sum(t \cup {x})
    <3>1. Sum(A \cup (t \cup {x})) = (Sum(A) + Sum(t)) + f[x]
      BY <2>4, <2>7
    <3>2. \A a, b, c \in Nat : (a + b) + c = a + (b + c)
      OBVIOUS
    <3> HIDE DEF Sum
    <3> QED BY <1>1, <2>5, <2>6, <3>1, <3>2
  <2> QED BY <1>3, <2>8
<1>4. B \in T
  <2> HIDE DEF T
  <2> QED BY <1>2, <1>3, GrowInduction
<1> QED BY <1>4

\* A part is at most the whole, and the whole if the rest counts nothing.
LEMMA SumPart ==
  ASSUME NEW f, NEW A, NEW B, IsFiniteSet(B), A \subseteq B, \A x \in B : f[x] \in Nat
  PROVE  /\ SumFunctionOnSet(f, A) <= SumFunctionOnSet(f, B)
         /\ (\A x \in B \ A : f[x] = 0) => SumFunctionOnSet(f, A) = SumFunctionOnSet(f, B)
<1> DEFINE R == B \ A
           Sum(t) == SumFunctionOnSet(f, t)
<1>1. IsFiniteSet(A) /\ IsFiniteSet(R) /\ A \cap R = {} /\ A \cup R = B
  BY FS_Subset
<1>2. \A x \in A \cup R : f[x] \in Nat
  OBVIOUS
<1> HIDE DEF R
<1>3. Sum(B) = Sum(A) + Sum(R) /\ Sum(A) \in Nat /\ Sum(R) \in Nat
  <2>1. Sum(A \cup R) = Sum(A) + Sum(R)
    BY <1>1, <1>2, SumUnion
  <2>2. Sum(A) \in Nat /\ Sum(R) \in Nat
    BY <1>1, <1>2, SumNat
  <2> QED BY <1>1, <2>1, <2>2
<1>4. ASSUME \A x \in R : f[x] = 0 PROVE Sum(R) = 0
  <2> DEFINE T == {t \in SUBSET R : Sum(t) = 0}
  <2>1. {} \in T
    BY SumEmpty
  <2>2. ASSUME NEW t \in T, t \subseteq R, NEW x \in R \ t PROVE t \cup {x} \in T
    <3>1. IsFiniteSet(t)
      BY <1>1, FS_Subset
    <3>2. Sum(t \cup {x}) = Sum(t) + f[x]
      BY <1>2, <2>2, <3>1, SumAdd
    <3> QED BY <1>4, <2>2, <3>2
  <2>3. R \in T
    <3> HIDE DEF T
    <3> QED BY <1>1, <2>1, <2>2, GrowInduction
  <2> QED BY <2>3
<1> HIDE DEF Sum
<1>5. Sum(A) <= Sum(B)
  BY <1>3
<1>6. ASSUME \A x \in B \ A : f[x] = 0 PROVE Sum(A) = Sum(B)
  <2>1. Sum(R) = 0
    BY <1>4, <1>6 DEF R
  <2> QED BY <1>3, <2>1
<1> QED BY <1>5, <1>6 DEF Sum

\* A family of finite sets that have nothing in common, with h for their sums.
Family(f, S, U, h) ==
  /\ \A x \in S : IsFiniteSet(U[x]) /\ h[x] = SumFunctionOnSet(f, U[x])
  /\ \A x \in S : \A y \in U[x] : f[y] \in Nat
  /\ \A x, y \in S : x # y => U[x] \cap U[y] = {}

\* The sum over such a family is the sum of their sums.
LEMMA SumFamily ==
  ASSUME NEW f, NEW S, IsFiniteSet(S), NEW U, NEW h, Family(f, S, U, h),
         NEW all, all = UNION {U[x] : x \in S}
  PROVE  IsFiniteSet(all) /\ SumFunctionOnSet(f, all) = SumFunctionOnSet(h, S)
<1>0. /\ \A x \in S : IsFiniteSet(U[x]) /\ h[x] = SumFunctionOnSet(f, U[x])
      /\ \A x \in S : \A y \in U[x] : f[y] \in Nat
      /\ \A x, y \in S : x # y => U[x] \cap U[y] = {}
  BY DEF Family
<1> DEFINE All(t) == UNION {U[x] : x \in t}
           T == {t \in SUBSET S : /\ IsFiniteSet(All(t))
                                  /\ SumFunctionOnSet(f, All(t)) = SumFunctionOnSet(h, t)}
<1>1. {} \in T
  <2>1. All({}) = {}
    OBVIOUS
  <2>2. SumFunctionOnSet(f, {}) = 0 /\ SumFunctionOnSet(h, {}) = 0 /\ IsFiniteSet({})
    BY SumEmpty, FS_EmptySet
  <2> HIDE DEF All
  <2> QED BY <2>1, <2>2
<1>2. \A x \in S : h[x] \in Nat
  BY <1>0, SumNat
<1>3. ASSUME NEW t \in T, t \subseteq S, NEW x \in S \ t PROVE t \cup {x} \in T
  <2> DEFINE A == All(t)
             u == U[x]
  <2>1. IsFiniteSet(t) /\ IsFiniteSet(A) /\ IsFiniteSet(u)
    BY <1>0, <1>3, FS_Subset
  <2>2. A \cap u = {} /\ \A y \in A \cup u : f[y] \in Nat
    BY <1>0, <1>3
  <2>3. All(t \cup {x}) = A \cup u
    OBVIOUS
  <2>4. SumFunctionOnSet(f, A) = SumFunctionOnSet(h, t)
    BY <1>3
  <2>5. SumFunctionOnSet(f, u) = h[x]
    BY <1>0
  <2>6. IsFiniteSet(A \cup u)
    BY <2>1, FS_Union
  <2> HIDE DEF A, u, All
  <2>7. SumFunctionOnSet(f, A \cup u) = SumFunctionOnSet(f, A) + SumFunctionOnSet(f, u)
    BY <2>1, <2>2, SumUnion
  <2>8. SumFunctionOnSet(h, t \cup {x}) = SumFunctionOnSet(h, t) + h[x]
    BY <1>2, <1>3, <2>1, SumAdd
  <2> QED BY <1>3, <2>3, <2>4, <2>5, <2>6, <2>7, <2>8
<1>4. S \in T
  <2> HIDE DEF T
  <2> QED BY <1>1, <1>3, GrowInduction
<1> QED BY <1>4

\* The cardinality is a sum of ones.
LEMMA SumOfOnes ==
  ASSUME NEW f, NEW S, IsFiniteSet(S), \A x \in S : f[x] = 1
  PROVE  SumFunctionOnSet(f, S) = Cardinality(S)
<1> DEFINE T == {t \in SUBSET S : SumFunctionOnSet(f, t) = Cardinality(t)}
<1>1. {} \in T
  BY SumEmpty, FS_EmptySet
<1>2. ASSUME NEW t \in T, t \subseteq S, NEW x \in S \ t PROVE t \cup {x} \in T
  <2>1. IsFiniteSet(t)
    BY <1>2, FS_Subset
  <2>2. SumFunctionOnSet(f, t \cup {x}) = SumFunctionOnSet(f, t) + f[x]
    BY <1>2, <2>1, SumAdd
  <2>3. Cardinality(t \cup {x}) = Cardinality(t) + 1
    BY <1>2, <2>1, FS_AddElement
  <2> QED BY <1>2, <2>2, <2>3
<1>3. S \in T
  <2> HIDE DEF T
  <2> QED BY <1>1, <1>2, GrowInduction
<1> QED BY <1>3

-----------------------------------------------------------------------------
(* Other folds.                                                            *)

\* A fold over S with values in W.  The step is given as a function: a fold
\* of the models has a table like this one, read at S.
Folding(op, base, S, g) ==
  \A s \in SUBSET S : g[s] = IF s = {} THEN base ELSE op[<<Pick(s), g[s \ {Pick(s)}]>>]

LEMMA FoldingAgrees ==
  ASSUME NEW op, NEW base, NEW S, IsFiniteSet(S), NEW A, NEW g, Folding(op, base, S, g),
         NEW h, Folding(op, base, A, h), NEW u, u \subseteq S, u \subseteq A
  PROVE  g[u] = h[u]
<1> DEFINE T == {t \in SUBSET u : g[t] # h[t]}
<1>1. SUFFICES ASSUME T # {} PROVE FALSE
  BY <1>1
<1>2. IsFiniteSet(u)
  BY FS_Subset
<1>3. PICK t \in T : \A y \in T : y \subseteq t => y = t
  <2>1. T \subseteq SUBSET u
    OBVIOUS
  <2> HIDE DEF T
  <2> QED BY <1>1, <1>2, <2>1, LeastSubset
<1>4. g[t] = IF t = {} THEN base ELSE op[<<Pick(t), g[t \ {Pick(t)}]>>]
  BY DEF Folding
<1>5. h[t] = IF t = {} THEN base ELSE op[<<Pick(t), h[t \ {Pick(t)}]>>]
  BY DEF Folding
<1>6. t # {} /\ Pick(t) \in t
  BY <1>4, <1>5, PickIn
<1>7. g[t \ {Pick(t)}] = h[t \ {Pick(t)}]
  BY <1>3, <1>6
<1> QED BY <1>4, <1>5, <1>6, <1>7

LEMMA FoldingExists ==
  ASSUME NEW S, IsFiniteSet(S), NEW W, NEW base \in W, NEW op \in [S \X W -> W]
  PROVE  \E g \in [SUBSET S -> W] : Folding(op, base, S, g)
<1> DEFINE Has(t) == \E g \in [SUBSET t -> W] : Folding(op, base, t, g)
           T == {t \in SUBSET S : ~Has(t)}
           The(t) == CHOOSE g \in [SUBSET t -> W] : Folding(op, base, t, g)
<1>1. SUFFICES ASSUME T # {} PROVE FALSE
  <2>1. Has(S) => \E g \in [SUBSET S -> W] : Folding(op, base, S, g)
    OBVIOUS
  <2> QED BY <1>1, <2>1
<1>2. PICK s \in T : \A y \in T : y \subseteq s => y = s
  <2>1. T \subseteq SUBSET S
    OBVIOUS
  <2> HIDE DEF T
  <2> QED BY <1>1, <2>1, LeastSubset
<1>3. \A t : t \subseteq s /\ t # s => The(t) \in [SUBSET t -> W] /\ Folding(op, base, t, The(t))
  <2>1. ASSUME NEW t, t \subseteq s, t # s PROVE Has(t)
    BY <1>2, <2>1
  <2> QED BY <2>1
<1> DEFINE G == [u \in SUBSET s |->
                   IF u = {} THEN base ELSE op[<<Pick(u), The(u \ {Pick(u)})[u \ {Pick(u)}]>>]]
<1>4. \A u \in SUBSET s : u # {} =>
        /\ Pick(u) \in u /\ Pick(u) \in S
        /\ u \ {Pick(u)} \subseteq s /\ u \ {Pick(u)} # s
  BY PickIn
<1>5. ASSUME NEW u \in SUBSET s, u # s PROVE G[u] = The(u)[u]
  <2>1. Folding(op, base, u, The(u))
    BY <1>3, <1>5
  <2>2. The(u)[u] = IF u = {} THEN base ELSE op[<<Pick(u), The(u)[u \ {Pick(u)}]>>]
    <3> HIDE DEF The
    <3> QED BY <2>1 DEF Folding
  <2>3. CASE u = {}
    <3> HIDE DEF The
    <3> QED BY <2>2, <2>3
  <2>4. CASE u # {}
    <3> DEFINE v == u \ {Pick(u)}
    <3>1. v \subseteq s /\ v # s /\ v \subseteq u
      BY <1>4, <2>4
    <3>2. Folding(op, base, v, The(v))
      <4> HIDE DEF v, The
      <4> QED BY <1>3, <3>1
    <3>3. IsFiniteSet(u) /\ IsFiniteSet(v)
      BY <3>1, FS_Subset
    <3>4. The(u)[v] = The(v)[v]
      <4> DEFINE a == The(u)
                 b == The(v)
      <4>1. Folding(op, base, u, a) /\ Folding(op, base, v, b)
        BY <2>1, <3>2
      <4>2. v \subseteq u /\ v \subseteq v /\ IsFiniteSet(u)
        BY <3>1, <3>3
      <4> HIDE DEF v, a, b
      <4>3. a[v] = b[v]
        BY <4>1, <4>2, FoldingAgrees
      <4> QED BY <4>3 DEF a, b
    <3>5. G[u] = op[<<Pick(u), The(v)[v]>>]
      BY <2>4
    <3>6. The(u)[u] = op[<<Pick(u), The(u)[v]>>]
      BY <2>2, <2>4
    <3> HIDE DEF The, v, G
    <3> QED BY <3>4, <3>5, <3>6
  <2> QED BY <2>3, <2>4
<1>6. Folding(op, base, s, G)
  <2>1. ASSUME NEW u \in SUBSET s, u # {}
        PROVE  G[u \ {Pick(u)}] = The(u \ {Pick(u)})[u \ {Pick(u)}]
    <3> HIDE DEF G, The
    <3> QED BY <1>4, <1>5, <2>1
  <2>2. \A u \in SUBSET s :
          G[u] = IF u = {} THEN base ELSE op[<<Pick(u), The(u \ {Pick(u)})[u \ {Pick(u)}]>>]
    OBVIOUS
  <2> HIDE DEF G, The
  <2> QED BY <2>1, <2>2 DEF Folding
<1>7. G \in [SUBSET s -> W]
  <2>1. ASSUME NEW u \in SUBSET s, u # {}
        PROVE  op[<<Pick(u), The(u \ {Pick(u)})[u \ {Pick(u)}]>>] \in W
    <3> DEFINE v == u \ {Pick(u)}
    <3>1. The(v) \in [SUBSET v -> W]
      <4> HIDE DEF The
      <4> QED BY <1>3, <1>4, <2>1
    <3>2. The(v)[v] \in W
      <4> HIDE DEF The
      <4> QED BY <3>1
    <3> HIDE DEF The, v
    <3> QED BY <1>4, <2>1, <3>2 DEF v
  <2> HIDE DEF The
  <2> QED BY <2>1
<1> HIDE DEF G, The
<1> QED BY <1>2, <1>6, <1>7

\* The table of a fold follows the steps as long as they are defined.
Follows(op, base, S, W, g) ==
  /\ g[{}] = base
  /\ \A s \in SUBSET S : s # {} /\ g[s \ {Pick(s)}] \in W =>
       g[s] = op[<<Pick(s), g[s \ {Pick(s)}]>>]

\* Q, a set of pairs of a part of S and a value, has the base and is closed
\* under the steps.
Inductive(op, base, S, W, Q) ==
  /\ <<{}, base>> \in Q
  /\ \A s \in SUBSET S, x \in S, w \in W :
       <<s, w>> \in Q /\ x \notin s => <<s \cup {x}, op[<<x, w>>]>> \in Q

\* What is true of the base and kept by every step is true of the fold.
LEMMA FoldingInduction ==
  ASSUME NEW S, IsFiniteSet(S), NEW W, NEW base \in W, NEW op \in [S \X W -> W],
         NEW g, Follows(op, base, S, W, g), NEW Q, Inductive(op, base, S, W, Q)
  PROVE  g[S] \in W /\ <<S, g[S]>> \in Q
<1> DEFINE T == {t \in SUBSET S : ~(g[t] \in W /\ <<t, g[t]>> \in Q)}
<1>1. SUFFICES ASSUME T # {} PROVE FALSE
  BY <1>1
<1>2. PICK t \in T : \A y \in T : y \subseteq t => y = t
  <2>1. T \subseteq SUBSET S
    OBVIOUS
  <2> HIDE DEF T
  <2> QED BY <1>1, <2>1, LeastSubset
<1>3. t # {} /\ Pick(t) \in t
  BY PickIn DEF Follows, Inductive
<1> DEFINE p == Pick(t)
           r == t \ {p}
<1>4. p \in S /\ r \in SUBSET S /\ p \notin r /\ r \cup {p} = t
  BY <1>3
<1>5. g[r] \in W /\ <<r, g[r]>> \in Q
  BY <1>2, <1>3, <1>4
<1>6. g[t] = op[<<p, g[r]>>]
  <2>1. \A s \in SUBSET S : s # {} /\ g[s \ {Pick(s)}] \in W =>
          g[s] = op[<<Pick(s), g[s \ {Pick(s)}]>>]
    BY DEF Follows
  <2>2. t \in SUBSET S /\ t # {} /\ g[t \ {Pick(t)}] \in W
    BY <1>3, <1>5
  <2> QED BY <2>1, <2>2
<1> HIDE DEF p, r
<1>7. g[t] \in W
  BY <1>4, <1>5, <1>6
<1>8. <<r \cup {p}, op[<<p, g[r]>>]>> \in Q
  BY <1>4, <1>5 DEF Inductive
<1> QED BY <1>4, <1>6, <1>7, <1>8
=============================================================================
