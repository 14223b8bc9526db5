----------------------------- MODULE PricesProofs -----------------------------
(***************************************************************************)
(* Proofs about Prices, for every table, reply and number of rounds: every *)
(* token is billed once, every cache write under its own TTL, and what a   *)
(* tool loop shows as one call is the sum of its rounds.                   *)
(*                                                                         *)
(* The first part is about sums over finite sets: the sums of the          *)
(* community modules take the terms in an order of their own, and here     *)
(* they may be split, put into classes, given other names and swapped.     *)
(***************************************************************************)
EXTENDS Bills, SequenceLemmas, FiniteSetTheorems

----------------------------------------------------------------------------
\* The element of s that the sums of the community modules take first.
Taken(s) == CHOOSE x \in s : TRUE

\* g sums f over every set of D, as those sums do it.
SumsOn(g, f, D) ==
    g = [s \in D |-> IF s = {} THEN 0 ELSE f[Taken(s)] + g[s \ {Taken(s)}]]

Sums(g, f, S) == SumsOn(g, f, SUBSET S)

\* It is an element of the set.
LEMMA TakenIs ==
    ASSUME NEW s, s # {}
    PROVE  Taken(s) \in s
  BY DEF Taken

\* What is left of a finite set without one of its elements.
LEMMA OneLess ==
    ASSUME NEW S, IsFiniteSet(S), NEW s \in SUBSET S, NEW x \in s
    PROVE  /\ IsFiniteSet(s) /\ Cardinality(s) \in Nat
           /\ Cardinality(s) > 0
           /\ Cardinality(s \ {x}) = Cardinality(s) - 1
           /\ s \ {x} \in SUBSET S
  <1>1. IsFiniteSet(s)
    BY FS_Subset
  <1>2. Cardinality(s) \in Nat
    BY <1>1, FS_CardinalityType
  <1>3. Cardinality(s \ {x}) = Cardinality(s) - 1
    BY <1>1, FS_RemoveElement
  <1>4. Cardinality(s \ {x}) \in Nat
    BY <1>1, FS_RemoveElement, FS_CardinalityType
  <1> QED
    BY <1>1, <1>2, <1>3, <1>4

\* A subset of a finite set is empty when it counts no elements.
LEMMA NoneLeft ==
    ASSUME NEW S, IsFiniteSet(S), NEW s \in SUBSET S
    PROVE  /\ IsFiniteSet(s) /\ Cardinality(s) \in Nat
           /\ Cardinality(s) <= 0 => s = {}
           /\ Cardinality(s) > 0 => s # {}
  <1>1. IsFiniteSet(s)
    BY FS_Subset
  <1>2. Cardinality(s) \in Nat
    BY <1>1, FS_CardinalityType
  <1>3. s = {} <=> Cardinality(s) = 0
    BY <1>1, FS_EmptySet
  <1> QED
    BY <1>1, <1>2, <1>3

\* Such a g exists: for the sets of at most n elements, n after n.
LEMMA SumsExist ==
    ASSUME NEW S, IsFiniteSet(S), NEW f
    PROVE  \E g : Sums(g, f, S)
  <1> DEFINE D(n) == {s \in SUBSET S : Cardinality(s) <= n}
             T == {n \in Nat : \E g : SumsOn(g, f, D(n))}
  <1>1. 0 \in T
    <2> DEFINE g == [s \in D(0) |-> 0]
    <2>1. \A s \in D(0) : s = {}
      BY NoneLeft
    <2>2. SumsOn(g, f, D(0))
      BY <2>1 DEF SumsOn
    <2> QED
      BY <2>2
  <1>2. ASSUME NEW n \in T PROVE n + 1 \in T
    <2>1. PICK g : SumsOn(g, f, D(n))
      OBVIOUS
    <2> DEFINE more == [s \in D(n + 1) |->
                  IF s = {} THEN 0 ELSE f[Taken(s)] + g[s \ {Taken(s)}]]
    <2>2. \A s \in D(n + 1) : s # {} => s \ {Taken(s)} \in D(n)
      <3> TAKE s \in D(n + 1)
      <3> SUFFICES ASSUME s # {} PROVE s \ {Taken(s)} \in D(n)
        OBVIOUS
      <3> QED
        BY TakenIs, OneLess
    <2>3. D(n) \subseteq D(n + 1)
      <3> SUFFICES ASSUME NEW s \in D(n) PROVE s \in D(n + 1)
        OBVIOUS
      <3>1. Cardinality(s) \in Nat
        BY FS_Subset, FS_CardinalityType
      <3> QED
        BY <3>1
    <2> HIDE DEF D, T
    <2>4. \A s \in D(n) : more[s] = g[s]
      BY <2>1, <2>3 DEF SumsOn
    <2>5. SumsOn(more, f, D(n + 1))
      BY <2>2, <2>4 DEF SumsOn
    <2> QED
      BY <2>5 DEF T
  <1>3. Cardinality(S) \in Nat
    BY FS_CardinalityType
  <1>4. T = Nat
    <2> HIDE DEF D
    <2>1. T \in SUBSET Nat
      OBVIOUS
    <2> HIDE DEF T
    <2> QED
      BY <1>1, <1>2, <2>1, Induction
  <1>5. D(Cardinality(S)) = SUBSET S
    BY FS_Subset
  <1>6. Cardinality(S) \in T
    BY <1>3, <1>4
  <1> QED
    BY <1>5, <1>6 DEF Sums

\* In whatever order: a sum is any one of its terms and the sum of the others.
LEMMA AnyOrder ==
    ASSUME NEW S, IsFiniteSet(S), NEW f, \A x \in S : f[x] \in Int,
           NEW g, Sums(g, f, S)
    PROVE  \A s \in SUBSET S :
              /\ g[s] \in Int
              /\ s = {} => g[s] = 0
              /\ \A y \in s : g[s] = f[y] + g[s \ {y}]
  <1> DEFINE Right(s) == /\ g[s] \in Int
                         /\ s = {} => g[s] = 0
                         /\ \A y \in s : g[s] = f[y] + g[s \ {y}]
             T == {n \in Nat : \A s \in SUBSET S : Cardinality(s) <= n => Right(s)}
  <1>1. \A s \in SUBSET S :
           g[s] = IF s = {} THEN 0 ELSE f[Taken(s)] + g[s \ {Taken(s)}]
    BY DEF Sums, SumsOn
  <1>2. 0 \in T
    <2> SUFFICES ASSUME NEW s \in SUBSET S, Cardinality(s) <= 0 PROVE Right(s)
      OBVIOUS
    <2>1. s = {}
      BY NoneLeft
    <2>2. g[s] = 0
      BY <1>1, <2>1
    <2> QED
      BY <2>1, <2>2
  <1>3. ASSUME NEW n \in T PROVE n + 1 \in T
    <2> SUFFICES ASSUME NEW s \in SUBSET S, Cardinality(s) <= n + 1,
                        s # {}, ~ Cardinality(s) <= n
                 PROVE  Right(s)
      <3>1. Right({})
        <4>1. {} \in SUBSET S /\ Cardinality({}) <= n
          BY FS_EmptySet
        <4> QED
          BY <4>1
      <3>2. \A r \in SUBSET S : Cardinality(r) <= n => Right(r)
        OBVIOUS
      <3> HIDE DEF Right
      <3>3. \A r \in SUBSET S : Cardinality(r) <= n + 1 => Right(r)
        BY <3>1, <3>2
      <3> QED
        BY <3>3
    <2>0. \A r \in SUBSET S : Cardinality(r) <= n => Right(r)
      OBVIOUS
    <2>1. \A y \in s : s \ {y} \in SUBSET S /\ Right(s \ {y})
      <3> SUFFICES ASSUME NEW y \in s PROVE s \ {y} \in SUBSET S /\ Right(s \ {y})
        OBVIOUS
      <3>1. s \ {y} \in SUBSET S /\ Cardinality(s \ {y}) <= n
        BY OneLess
      <3> QED
        BY <2>0, <3>1
    <2> DEFINE x == Taken(s)
    <2>3. x \in s
      BY TakenIs
    <2>4. g[s] = f[x] + g[s \ {x}]
      BY <1>1
    <2> HIDE DEF x
    <2>5. g[s] \in Int /\ \A y \in s : f[y] \in Int /\ g[s \ {y}] \in Int
      <3>1. \A y \in s : f[y] \in Int /\ g[s \ {y}] \in Int
        BY <2>1
      <3>2. f[x] \in Int /\ g[s \ {x}] \in Int
        BY <2>3, <3>1
      <3> QED
        BY <2>4, <3>1, <3>2
    <2>6. ASSUME NEW y \in s PROVE g[s] = f[y] + g[s \ {y}]
      <3>1. CASE y = x
        BY <2>4, <3>1
      <3>2. CASE y # x
        <4>1. g[s \ {x}] = f[y] + g[(s \ {x}) \ {y}]
          BY <2>1, <2>3, <3>2
        <4>2. g[s \ {y}] = f[x] + g[(s \ {y}) \ {x}]
          BY <2>1, <2>3, <3>2
        <4>3. (s \ {x}) \ {y} = (s \ {y}) \ {x}
          OBVIOUS
        <4> DEFINE rest == g[(s \ {x}) \ {y}]
        <4>4. rest \in Int
          <5>1. (s \ {x}) \ {y} \in SUBSET S
                /\ Cardinality((s \ {x}) \ {y}) <= n
            <6>1. s \ {x} \in SUBSET S /\ y \in s \ {x}
                  /\ Cardinality(s \ {x}) = Cardinality(s) - 1
                  /\ Cardinality(s) \in Nat
              BY <2>3, <3>2, OneLess
            <6> DEFINE r == s \ {x}
            <6> HIDE DEF r
            <6>0. r \in SUBSET S /\ y \in r
              BY <6>1 DEF r
            <6>2. Cardinality(r \ {y}) = Cardinality(r) - 1 /\ r \ {y} \in SUBSET S
              BY <6>0, OneLess
            <6>3. /\ Cardinality((s \ {x}) \ {y}) = Cardinality(s \ {x}) - 1
                  /\ (s \ {x}) \ {y} \in SUBSET S
              BY <6>2 DEF r
            <6> QED
              BY <6>1, <6>3
          <5>2. Right((s \ {x}) \ {y})
            BY <2>0, <5>1
          <5> QED
            BY <5>2
        <4>5. f[x] \in Int /\ f[y] \in Int
          BY <2>3, <2>5
        <4>6. g[s \ {x}] = f[y] + rest /\ g[s \ {y}] = f[x] + rest
          BY <4>1, <4>2, <4>3
        <4> HIDE DEF rest
        <4> QED
          BY <2>4, <4>4, <4>5, <4>6
      <3> QED
        BY <3>1, <3>2
    <2> QED
      BY <2>5, <2>6
  <1>4. T = Nat
    <2>1. T \in SUBSET Nat
      OBVIOUS
    <2> HIDE DEF T
    <2> QED
      BY <1>2, <1>3, <2>1, Induction
  <1> HIDE DEF Right
  <1>5. \A s \in SUBSET S : Right(s)
    <2> SUFFICES ASSUME NEW s \in SUBSET S PROVE Right(s)
      OBVIOUS
    <2>1. Cardinality(s) \in Nat
      BY FS_Subset, FS_CardinalityType
    <2>2. Cardinality(s) \in T
      BY <1>4, <2>1
    <2> QED
      BY <2>1, <2>2
  <1> QED
    BY <1>5 DEF Right

\* What holds of no elements, and of a set if of it without any one element,
\* holds of every subset of a finite set.
LEMMA SubsetInduction ==
    ASSUME NEW S, IsFiniteSet(S), NEW G, {} \in G,
           \A s \in SUBSET S : \A y \in s : s \ {y} \in G => s \in G
    PROVE  \A s \in SUBSET S : s \in G
  <1> DEFINE T == {n \in Nat : \A s \in SUBSET S : Cardinality(s) = n => s \in G}
  <1>1. 0 \in T
    <2> SUFFICES ASSUME NEW s \in SUBSET S, Cardinality(s) = 0 PROVE s \in G
      OBVIOUS
    <2>1. s = {}
      BY NoneLeft
    <2> QED
      BY <2>1
  <1>2. ASSUME NEW n \in T PROVE n + 1 \in T
    <2> SUFFICES ASSUME NEW s \in SUBSET S, Cardinality(s) = n + 1
                 PROVE  s \in G
      OBVIOUS
    <2>1. s # {}
      BY NoneLeft
    <2>2. Taken(s) \in s
      BY <2>1, TakenIs
    <2>3. s \ {Taken(s)} \in SUBSET S /\ Cardinality(s \ {Taken(s)}) = n
      BY <2>2, OneLess
    <2> QED
      BY <2>2, <2>3
  <1>3. T = Nat
    <2>1. T \in SUBSET Nat
      OBVIOUS
    <2> HIDE DEF T
    <2> QED
      BY <1>1, <1>2, <2>1, Induction
  <1> SUFFICES ASSUME NEW s \in SUBSET S PROVE s \in G
    OBVIOUS
  <1>4. Cardinality(s) \in T
    BY <1>3, NoneLeft
  <1> QED
    BY <1>4

\* What is made of the elements of a finite set is finite.
LEMMA FiniteImage ==
    ASSUME NEW S, IsFiniteSet(S), NEW f, NEW T, \A t \in T : \E x \in S : t = f[x]
    PROVE  IsFiniteSet(T)
  <1> DEFINE R == {x \in S : f[x] \in T}
             g == [x \in R |-> f[x]]
  <1>1. IsFiniteSet(R)
    BY FS_Subset
  <1>2. g \in Surjection(R, T)
    BY DEF Surjection
  <1> HIDE DEF R, g
  <1> QED
    BY <1>1, <1>2, FS_Surjection

Addable(f, S) == IsFiniteSet(S) /\ \A x \in S : f[x] \in Int

\* The sum of f over S.
Adds(f, S) == (CHOOSE g : Sums(g, f, S))[S]

\* Two sums over different sets agree where both are taken over the same terms.
LEMMA SumsAgree ==
    ASSUME NEW f, NEW S, Addable(f, S), NEW g, Sums(g, f, S),
           NEW e, NEW R, Addable(e, R), NEW h, Sums(h, e, R),
           NEW s \in SUBSET S, s \in SUBSET R, \A x \in s : f[x] = e[x]
    PROVE  g[s] = h[s]
  <1> DEFINE G == {t \in SUBSET s : g[t] = h[t]}
  <1>1. \A t \in SUBSET S : /\ g[t] \in Int
                            /\ t = {} => g[t] = 0
                            /\ \A y \in t : g[t] = f[y] + g[t \ {y}]
    BY AnyOrder DEF Addable
  <1>2. \A t \in SUBSET R : /\ h[t] \in Int
                            /\ t = {} => h[t] = 0
                            /\ \A y \in t : h[t] = e[y] + h[t \ {y}]
    <2>1. IsFiniteSet(R) /\ \A x \in R : e[x] \in Int
      BY DEF Addable
    <2> QED
      BY <2>1, AnyOrder
  <1>3. {} \in G
    BY <1>1, <1>2
  <1>4. ASSUME NEW t \in SUBSET s, NEW y \in t, t \ {y} \in G
        PROVE  t \in G
    <2>1. g[t] = f[y] + g[t \ {y}]
      BY <1>1
    <2>2. h[t] = e[y] + h[t \ {y}]
      BY <1>2
    <2> QED
      BY <1>4, <2>1, <2>2
  <1>5. IsFiniteSet(s)
    BY FS_Subset DEF Addable
  <1>6. s \in G
    <2> HIDE DEF G
    <2> QED
      BY <1>3, <1>4, <1>5, SubsetInduction
  <1> QED
    BY <1>6

\* It is any one term and the sum of the others, and only the terms matter.
LEMMA AddsSplit ==
    ASSUME NEW f, NEW S, Addable(f, S)
    PROVE  /\ Adds(f, S) \in Int
           /\ S = {} => Adds(f, S) = 0
           /\ \A y \in S : Addable(f, S \ {y}) /\ Adds(f, S) = f[y] + Adds(f, S \ {y})
  <1> DEFINE g == CHOOSE g : Sums(g, f, S)
  <1>1. Sums(g, f, S)
    BY SumsExist DEF Addable
  <1>2. Adds(f, S) = g[S]
    BY DEF Adds
  <1> HIDE DEF g
  <1>3. \A t \in SUBSET S : /\ g[t] \in Int
                            /\ t = {} => g[t] = 0
                            /\ \A y \in t : g[t] = f[y] + g[t \ {y}]
    BY <1>1, AnyOrder DEF Addable
  <1>4. ASSUME NEW y \in S
        PROVE  Addable(f, S \ {y}) /\ Adds(f, S \ {y}) = g[S \ {y}]
    <2> DEFINE R == S \ {y}
               h == CHOOSE h : Sums(h, f, R)
    <2>1. Addable(f, R)
      BY FS_Subset DEF Addable
    <2>2. Sums(h, f, R)
      BY <2>1, SumsExist DEF Addable
    <2>3. Adds(f, R) = h[R]
      BY DEF Adds
    <2> HIDE DEF h
    <2>4. R \in SUBSET S /\ R \in SUBSET R
      OBVIOUS
    <2> HIDE DEF R
    <2>5. g[R] = h[R]
      BY <1>1, <2>1, <2>2, <2>4, SumsAgree
    <2> QED
      BY <2>1, <2>3, <2>5 DEF R
  <1> QED
    BY <1>2, <1>3, <1>4

\* A sum of equal terms is equal.
LEMMA AddsSame ==
    ASSUME NEW f, NEW e, NEW S, Addable(f, S), \A x \in S : f[x] = e[x]
    PROVE  Addable(e, S) /\ Adds(f, S) = Adds(e, S)
  <1> DEFINE g == CHOOSE g : Sums(g, f, S)
             h == CHOOSE h : Sums(h, e, S)
  <1>1. Addable(e, S)
    BY DEF Addable
  <1>2. Sums(g, f, S) /\ Sums(h, e, S)
    BY SumsExist DEF Addable
  <1>3. Adds(f, S) = g[S] /\ Adds(e, S) = h[S]
    BY DEF Adds
  <1> HIDE DEF g, h
  <1>4. S \in SUBSET S
    OBVIOUS
  <1> QED
    BY <1>1, <1>2, <1>3, <1>4, SumsAgree

\* The sum of one term is that term.
LEMMA AddsOne ==
    ASSUME NEW f, NEW y, f[y] \in Int
    PROVE  Addable(f, {y}) /\ Adds(f, {y}) = f[y]
  <1>1. Addable(f, {y})
    BY FS_Singleton DEF Addable
  <1>2. Addable(f, {y} \ {y}) /\ Adds(f, {y}) = f[y] + Adds(f, {y} \ {y})
    BY <1>1, AddsSplit
  <1>3. Adds(f, {y} \ {y}) = 0
    BY <1>2, AddsSplit
  <1> QED
    BY <1>1, <1>2, <1>3

\* A term that grows makes the sum grow by as much.
LEMMA AddsGrow ==
    ASSUME NEW f, NEW e, NEW S, Addable(f, S), Addable(e, S), NEW y \in S,
           \A x \in S : x # y => f[x] = e[x], NEW d \in Int, f[y] = e[y] + d
    PROVE  Adds(f, S) = Adds(e, S) + d
  <1>1. Addable(f, S \ {y}) /\ Adds(f, S) = f[y] + Adds(f, S \ {y})
    BY AddsSplit
  <1>2. Addable(e, S \ {y}) /\ Adds(e, S) = e[y] + Adds(e, S \ {y})
    BY AddsSplit
  <1>3. Adds(f, S \ {y}) = Adds(e, S \ {y}) /\ Adds(f, S \ {y}) \in Int
    BY <1>1, AddsSame, AddsSplit
  <1>4. e[y] \in Int
    BY DEF Addable
  <1> QED
    BY <1>1, <1>2, <1>3, <1>4

\* A sum of zeros is zero.
LEMMA AddsZero ==
    ASSUME NEW f, NEW S, IsFiniteSet(S), \A x \in S : f[x] = 0
    PROVE  Addable(f, S) /\ Adds(f, S) = 0
  <1> DEFINE G == {s \in SUBSET S : Adds(f, s) = 0}
  <1>1. \A s \in SUBSET S : Addable(f, s)
    BY FS_Subset DEF Addable
  <1>2. {} \in G
    BY <1>1, AddsSplit
  <1>3. ASSUME NEW s \in SUBSET S, NEW y \in s, s \ {y} \in G
        PROVE  s \in G
    <2>1. Adds(f, s) = f[y] + Adds(f, s \ {y})
      BY <1>1, AddsSplit
    <2> QED
      BY <1>3, <2>1
  <1>4. S \in SUBSET S
    OBVIOUS
  <1>5. S \in G
    <2> HIDE DEF G
    <2> QED
      BY <1>2, <1>3, <1>4, SubsetInduction
  <1> QED
    BY <1>1, <1>4, <1>5

\* A factor common to all the terms is a factor of their sum.
LEMMA AddsTimes ==
    ASSUME NEW f, NEW e, NEW S, Addable(e, S), NEW u \in Int,
           \A x \in S : f[x] = u * e[x]
    PROVE  Addable(f, S) /\ Adds(f, S) = u * Adds(e, S)
  <1> DEFINE G == {s \in SUBSET S : Adds(f, s) = u * Adds(e, s)}
  <1>1. \A s \in SUBSET S : Addable(f, s) /\ Addable(e, s)
    BY FS_Subset DEF Addable
  <1>2. {} \in G
    <2>1. Adds(f, {}) = 0 /\ Adds(e, {}) = 0
      BY <1>1, AddsSplit
    <2> QED
      BY <2>1
  <1>3. ASSUME NEW s \in SUBSET S, NEW y \in s, s \ {y} \in G
        PROVE  s \in G
    <2>1. Adds(f, s) = f[y] + Adds(f, s \ {y})
      BY <1>1, AddsSplit
    <2>2. Adds(e, s) = e[y] + Adds(e, s \ {y})
      BY <1>1, AddsSplit
    <2>3. e[y] \in Int /\ Adds(e, s \ {y}) \in Int
      BY <1>1, AddsSplit DEF Addable
    <2>4. f[y] = u * e[y] /\ Adds(f, s \ {y}) = u * Adds(e, s \ {y})
      BY <1>3
    <2> DEFINE a == e[y]
               b == Adds(e, s \ {y})
    <2>5. u * (a + b) = u * a + u * b
      <3>1. a \in Int /\ b \in Int
        BY <2>3
      <3> HIDE DEF a, b
      <3> QED
        BY <3>1
    <2> QED
      BY <2>1, <2>2, <2>4, <2>5
  <1>4. S \in SUBSET S /\ IsFiniteSet(S)
    BY DEF Addable
  <1>5. S \in G
    <2> HIDE DEF G
    <2> QED
      BY <1>2, <1>3, <1>4, SubsetInduction
  <1> QED
    BY <1>1, <1>4, <1>5

\* Terms put into classes: the sum of the classes' sums is the sum.
Class(S, h, k) == {x \in S : h[x] = k}

\* The classes add up to what the terms add up to.
LEMMA Regroup ==
    ASSUME NEW f, NEW S, Addable(f, S), NEW K, IsFiniteSet(K), NEW h,
           \A x \in S : h[x] \in K,
           NEW F, \A k \in K : F[k] = Adds(f, Class(S, h, k))
    PROVE  Addable(F, K) /\ Adds(f, S) = Adds(F, K)
  <1> DEFINE By(s) == [k \in K |-> Adds(f, Class(s, h, k))]
             G == {s \in SUBSET S : Adds(f, s) = Adds(By(s), K)}
  <1>1. \A s \in SUBSET S : Addable(f, s) /\ Addable(By(s), K)
    <2> SUFFICES ASSUME NEW s \in SUBSET S PROVE Addable(f, s) /\ Addable(By(s), K)
      OBVIOUS
    <2>1. \A t \in SUBSET S : Addable(f, t)
      BY FS_Subset DEF Addable
    <2>2. ASSUME NEW k \in K PROVE Adds(f, Class(s, h, k)) \in Int
      <3>1. Class(s, h, k) \in SUBSET S
        BY DEF Class
      <3> QED
        BY <2>1, <3>1, AddsSplit
    <2> QED
      BY <2>1, <2>2 DEF Addable
  <1>0. \A s \in SUBSET S : Addable(f, s)
    BY <1>1
  <1>2. {} \in G
    <2>1. \A k \in K : By({})[k] = 0
      <3> SUFFICES ASSUME NEW k \in K PROVE Adds(f, Class({}, h, k)) = 0
        OBVIOUS
      <3>1. Class({}, h, k) = {}
        BY DEF Class
      <3> QED
        BY <1>1, <3>1, AddsSplit
    <2> HIDE DEF By
    <2> DEFINE e == By({})
    <2>2. \A k \in K : e[k] = 0
      BY <2>1
    <2> HIDE DEF e
    <2>3. Adds(e, K) = 0
      BY <2>2, AddsZero
    <2>4. Adds(f, {}) = 0
      BY <1>1, AddsSplit
    <2> QED
      BY <2>3, <2>4 DEF e
  <1>3. ASSUME NEW s \in SUBSET S, NEW y \in s, s \ {y} \in G
        PROVE  s \in G
    <2> DEFINE r == s \ {y}
               kk == h[y]
    <2>1. r \in SUBSET S /\ kk \in K /\ f[y] \in Int
      BY DEF Addable
    <2>2. \A k \in K : k # kk => Class(s, h, k) = Class(r, h, k)
      BY DEF Class
    <2>3. /\ y \in Class(s, h, kk) /\ Class(s, h, kk) \ {y} = Class(r, h, kk)
          /\ Class(s, h, kk) \in SUBSET S
      BY DEF Class
    <2>4. Adds(f, Class(s, h, kk)) = f[y] + Adds(f, Class(r, h, kk))
      <3> DEFINE C == Class(s, h, kk)
      <3>1. Addable(f, C) /\ y \in C /\ C \ {y} = Class(r, h, kk)
        BY <1>0, <2>3
      <3> HIDE DEF C, r
      <3>2. Adds(f, C) = f[y] + Adds(f, C \ {y})
        BY <3>1, AddsSplit
      <3> QED
        BY <3>1, <3>2 DEF C
    <2>5. Adds(f, Class(r, h, kk)) \in Int
      <3>1. Class(r, h, kk) \in SUBSET S
        BY DEF Class
      <3> QED
        BY <1>1, <3>1, AddsSplit
    <2> DEFINE now == By(s)
               was == By(r)
    <2>6. /\ \A k \in K : k # kk => now[k] = was[k]
          /\ now[kk] = was[kk] + f[y]
      <3>1. \A k \in K : /\ now[k] = Adds(f, Class(s, h, k))
                         /\ was[k] = Adds(f, Class(r, h, k))
        OBVIOUS
      <3> HIDE DEF now, was, r, kk
      <3> QED
        BY <2>1, <2>2, <2>4, <2>5, <3>1
    <2>7. Addable(now, K) /\ Addable(was, K)
      BY <1>1, <2>1
    <2>8. Adds(f, s) = f[y] + Adds(f, r) /\ Adds(f, r) \in Int
      BY <1>1, <2>1, AddsSplit
    <2>9. Adds(f, r) = Adds(was, K)
      BY <1>3
    <2> HIDE DEF By, now, was, r, kk
    <2>10. Adds(now, K) = Adds(was, K) + f[y]
      BY <2>1, <2>6, <2>7, AddsGrow
    <2>11. Adds(f, s) = Adds(now, K)
      BY <2>1, <2>8, <2>9, <2>10
    <2> QED
      BY <2>11 DEF now
  <1>4. S \in SUBSET S /\ IsFiniteSet(S)
    BY DEF Addable
  <1>5. S \in G
    <2> HIDE DEF G
    <2> QED
      BY <1>2, <1>3, <1>4, SubsetInduction
  <1> DEFINE e == By(S)
  <1>6. Adds(f, S) = Adds(e, K) /\ Addable(e, K)
    BY <1>1, <1>4, <1>5
  <1>7. \A k \in K : e[k] = F[k]
    OBVIOUS
  <1> HIDE DEF e
  <1> QED
    BY <1>6, <1>7, AddsSame

\* A sum under other names.
LEMMA Reindex ==
    ASSUME NEW f, NEW S, Addable(f, S), NEW K, IsFiniteSet(K), NEW h,
           \A x \in S : h[x] \in K,
           \A x, y \in S : h[x] = h[y] => x = y,
           \A k \in K : \E x \in S : h[x] = k,
           NEW F, \A x \in S : F[h[x]] = f[x]
    PROVE  Addable(F, K) /\ Adds(f, S) = Adds(F, K)
  <1>1. ASSUME NEW k \in K PROVE F[k] = Adds(f, Class(S, h, k))
    <2>1. PICK x \in S : h[x] = k
      OBVIOUS
    <2>2. Class(S, h, k) = {x}
      BY <2>1 DEF Class
    <2>3. f[x] \in Int
      BY DEF Addable
    <2> QED
      BY <2>1, <2>2, <2>3, AddsOne
  <1> QED
    BY <1>1, Regroup

\* Terms that are zero may be left out.
LEMMA AddsNonzero ==
    ASSUME NEW f, NEW K, Addable(f, K), NEW S \in SUBSET K,
           \A k \in K : k \notin S => f[k] = 0
    PROVE  Addable(f, S) /\ Adds(f, K) = Adds(f, S)
  <1> DEFINE h == [x \in S |-> x]
  <1>1. IsFiniteSet(K) /\ Addable(f, S) /\ \A x \in S : h[x] \in K
    BY FS_Subset DEF Addable
  <1>2. ASSUME NEW k \in K PROVE f[k] = Adds(f, Class(S, h, k))
    <2>1. CASE k \in S
      <3>1. Class(S, h, k) = {k} /\ f[k] \in Int
        BY <2>1 DEF Class, Addable
      <3> QED
        BY <3>1, AddsOne
    <2>2. CASE k \notin S
      <3>1. Class(S, h, k) = {} /\ Addable(f, {})
        BY <2>2, FS_EmptySet DEF Class, Addable
      <3> QED
        BY <2>2, <3>1, AddsSplit
    <2> QED
      BY <2>1, <2>2
  <1> HIDE DEF h
  <1> QED
    BY <1>1, <1>2, Regroup

----------------------------------------------------------------------------
\* Every solution of a sum's equations gives the sum.
LEMMA SumIs ==
    ASSUME NEW f, NEW S, Addable(f, S), NEW h, Sums(h, f, S)
    PROVE  h[S] = Adds(f, S)
  <1> DEFINE g == CHOOSE g : Sums(g, f, S)
  <1>1. Sums(g, f, S) /\ Adds(f, S) = g[S]
    BY DEF Adds
  <1> HIDE DEF g
  <1>2. S \in SUBSET S
    OBVIOUS
  <1> QED
    BY <1>1, <1>2, SumsAgree

\* It is a sum of their counts.
LEMMA QtyIsSum ==
    ASSUME NEW S, NEW f, Addable(f, S), \A x \in S : f[x] = x.qty
    PROVE  Counted(S) = Adds(f, S)
  <1> DEFINE G(g) == g = [s \in SUBSET S |->
                IF s = {} THEN 0
                ELSE (CHOOSE x \in s : TRUE).qty + g[s \ {CHOOSE x \in s : TRUE}]]
             h == CHOOSE g : G(g)
  <1>1. Counted(S) = h[S]
    BY DEF Counted, MapThenSumSet, MapThenFoldSet
  <1>2. \A s \in SUBSET S : s # {} => f[Taken(s)] = Taken(s).qty
    BY TakenIs
  <1>3. \A g : G(g) <=> Sums(g, f, S)
    BY <1>2 DEF Sums, SumsOn, Taken
  <1> HIDE DEF G
  <1>4. Sums(h, f, S)
    BY <1>3, SumsExist DEF Addable
  <1> HIDE DEF h
  <1> QED
    BY <1>1, <1>4, SumIs

\* Of none, one and two items.
LEMMA QtyOfNone == Counted({}) = 0
  <1> DEFINE f == [x \in {} |-> x.qty]
  <1>1. Addable(f, {}) /\ \A x \in {} : f[x] = x.qty
    BY FS_EmptySet DEF Addable
  <1> HIDE DEF f
  <1> QED
    BY <1>1, QtyIsSum, AddsSplit

\* Of one.
LEMMA QtyOfOne ==
    ASSUME NEW a, a.qty \in Int
    PROVE  Counted({a}) = a.qty
  <1> DEFINE f == [x \in {a} |-> x.qty]
  <1>1. f[a] = a.qty
    OBVIOUS
  <1> HIDE DEF f
  <1>2. Addable(f, {a}) /\ Adds(f, {a}) = a.qty
    BY <1>1, AddsOne
  <1> QED
    BY <1>1, <1>2, QtyIsSum

\* Of two.
LEMMA QtyOfTwo ==
    ASSUME NEW a, NEW b, a # b, a.qty \in Int, b.qty \in Int
    PROVE  Counted({a, b}) = a.qty + b.qty
  <1> DEFINE f == [x \in {a, b} |-> x.qty]
  <1>1. f[a] = a.qty /\ f[b] = b.qty
    OBVIOUS
  <1> HIDE DEF f
  <1>2. IsFiniteSet({a, b})
    <2>1. IsFiniteSet({a}) /\ {a, b} = {a} \cup {b}
      BY FS_Singleton
    <2> QED
      BY <2>1, FS_AddElement
  <1>3. Addable(f, {a, b})
    BY <1>1, <1>2 DEF Addable
  <1>4. Adds(f, {a, b}) = f[a] + Adds(f, {a, b} \ {a})
    BY <1>3, AddsSplit
  <1>5. {a, b} \ {a} = {b}
    OBVIOUS
  <1>6. Adds(f, {b}) = b.qty
    BY <1>1, AddsOne
  <1> QED
    BY <1>1, <1>3, <1>4, <1>5, <1>6, QtyIsSum

----------------------------------------------------------------------------
\* The four names of an OpenAI-shaped usage are different.
LEMMA NamesDiffer ==
    /\ Len(In) = 1 /\ In[1] = "in" /\ Len(Out) = 1 /\ Out[1] = "out"
    /\ Len(CacheRead) = 2 /\ CacheRead[1] = "in"
    /\ Len(Reasoning) = 2 /\ Reasoning[1] = "out"
  BY DEF In, Out, CacheRead, Reasoning

\* Two of them are under `in', the other two under `out'.
LEMMA NamesNest ==
    /\ Under(In, In) /\ Under(CacheRead, In) /\ ~ Under(Out, In) /\ ~ Under(Reasoning, In)
    /\ Under(Out, Out) /\ Under(Reasoning, Out) /\ ~ Under(In, Out) /\ ~ Under(CacheRead, Out)
  BY DEF In, Out, CacheRead, Reasoning, Under, IsPrefix

\* Rules whose names are sequences of parts.
TableOf(table, Part) ==
    \A r \in table : r.name \in Seq(Part) /\ r.key \in Seq(Part)

\* Bounded numbers have a greatest.
LEMMA MostOfThese ==
    ASSUME NEW n \in Nat, NEW S \in SUBSET Nat, S # {}, \A k \in S : k <= n
    PROVE  \E m \in S : \A k \in S : m >= k
  <1> DEFINE T == {b \in Nat : \A X \in SUBSET Nat :
                     X # {} /\ (\A k \in X : k <= b) => \E m \in X : \A k \in X : m >= k}
  <1>1. 0 \in T
    <2> SUFFICES ASSUME NEW X \in SUBSET Nat, X # {}, \A k \in X : k <= 0
                 PROVE  \E m \in X : \A k \in X : m >= k
      OBVIOUS
    <2>1. PICK m \in X : TRUE
      OBVIOUS
    <2> QED
      BY <2>1
  <1>2. ASSUME NEW b \in T PROVE b + 1 \in T
    <2> SUFFICES ASSUME NEW X \in SUBSET Nat, X # {}, \A k \in X : k <= b + 1
                 PROVE  \E m \in X : \A k \in X : m >= k
      OBVIOUS
    <2>1. CASE b + 1 \in X
      BY <2>1
    <2>2. CASE b + 1 \notin X
      <3>1. \A k \in X : k <= b
        BY <2>2
      <3> QED
        BY <3>1
    <2> QED
      BY <2>1, <2>2
  <1>3. T = Nat
    <2>1. T \in SUBSET Nat
      OBVIOUS
    <2> HIDE DEF T
    <2> QED
      BY <1>1, <1>2, <2>1, Induction
  <1> QED
    BY <1>3

\* The parts of the name weigh more than the tier and the condition together.
LEMMA SpecificityBounds ==
    ASSUME NEW q, Len(Pattern(q)) \in Nat
    PROVE  /\ Specificity(q) \in Nat
           /\ Specificity(q) >= 4 * Len(Pattern(q))
           /\ Specificity(q) <= 4 * Len(Pattern(q)) + 3
  <1> DEFINE len == Len(Pattern(q))
             t == IF q.tier = "" THEN 0 ELSE 2
             w == IF q.when = Missing THEN 0 ELSE 1
  <1>1. Specificity(q) = 4 * len + t + w
    BY DEF Specificity
  <1>2. len \in Nat /\ t \in {0, 2} /\ w \in {0, 1}
    OBVIOUS
  <1> HIDE DEF len, t, w
  <1>3. /\ Specificity(q) \in Nat
        /\ Specificity(q) >= 4 * len /\ Specificity(q) <= 4 * len + 3
    BY <1>1, <1>2
  <1> QED
    BY <1>3 DEF len

\* Where a rule matches, some matching rule constrains the call most.
LEMMA SomeRuleIsBest ==
    ASSUME NEW Part, NEW table, TableOf(table, Part), NEW name, Len(name) \in Nat,
           NEW facts, NEW r \in table, Matches(name, r, facts)
    PROVE  Best(name, table, facts) # {}
  <1> DEFINE found == {q \in table : Matches(name, q, facts)}
             S == {Specificity(q) : q \in found}
  <1>1. \A q \in found : Specificity(q) \in Nat /\ Specificity(q) <= 4 * Len(name) + 3
    <2> SUFFICES ASSUME NEW q \in found
                 PROVE  Specificity(q) \in Nat /\ Specificity(q) <= 4 * Len(name) + 3
      OBVIOUS
    <2>1. Len(Pattern(q)) \in Nat
      BY DEF TableOf, Pattern
    <2>2. Len(Pattern(q)) <= Len(name)
      BY DEF Matches, Under, IsPrefix
    <2>3. Specificity(q) \in Nat /\ Specificity(q) <= 4 * Len(Pattern(q)) + 3
      BY <2>1, SpecificityBounds
    <2> QED
      BY <2>1, <2>2, <2>3
  <1>2. S \in SUBSET Nat /\ S # {} /\ \A k \in S : k <= 4 * Len(name) + 3
    BY <1>1
  <1>3. 4 * Len(name) + 3 \in Nat
    OBVIOUS
  <1>4. PICK m \in S : \A k \in S : m >= k
    <2> HIDE DEF S
    <2> QED
      BY <1>2, <1>3, MostOfThese
  <1>5. PICK q \in found : \A p \in found : Specificity(q) >= Specificity(p)
    BY <1>4
  <1> QED
    BY <1>5 DEF Best

\* A name under one that is priced unconditionally is priced.
LEMMA PricedIsRated ==
    ASSUME NEW Part, NEW table, TableOf(table, Part), NEW name, Len(name) \in Nat,
           NEW prefix, Under(name, prefix), Priced(table, prefix), NEW facts
    PROVE  Best(name, table, facts) # {}
  <1>1. PICK r \in table : Pattern(r) = prefix /\ r.tier = "" /\ r.when = Missing
    BY DEF Priced
  <1>2. Matches(name, r, facts)
    BY <1>1 DEF Matches
  <1> QED
    BY <1>2, SomeRuleIsBest

\* A usage has this count for a name: where it is positive, and only there.
HasCount(u, n, x) == (n \in DOMAIN u <=> x > 0) /\ (x > 0 => u[n] = x)

\* Of counts of distinct names, those that are positive.
LEMMA TokensCount ==
    ASSUME NEW counts, \A p, q \in counts : p[1] = q[1] => p = q,
           NEW u, u = Tokens(counts)
    PROVE  /\ DOMAIN u \subseteq {p[1] : p \in counts}
           /\ \A p \in counts : HasCount(u, p[1], p[2])
  <1> DEFINE D == {p[1] : p \in {p \in counts : p[2] > 0}}
             value(n) == (CHOOSE p \in counts : p[1] = n)[2]
  <1>1. DOMAIN u = D /\ \A n \in D : u[n] = value(n)
    BY DEF Tokens
  <1>2. \A p \in counts : value(p[1]) = p[2]
    OBVIOUS
  <1> HIDE DEF value
  <1>3. \A p \in counts : p[1] \in D <=> p[2] > 0
    OBVIOUS
  <1>4. \A p \in counts : p[2] > 0 => u[p[1]] = p[2]
    BY <1>1, <1>2, <1>3
  <1> QED
    BY <1>1, <1>3, <1>4 DEF HasCount

\* The members of items are those I has for the names in D.
TheseItems(items, I, D) == \A i : i \in items <=> \E n \in D : i = I[n]

\* The items I has for the names in D count what the usage u does.
ItemsCount(I, D, u) == \A n \in D : I[n].key = n /\ I[n].qty = u[n]

\* A best rule for its name priced each item.
ItemsRuled(I, table, facts) ==
    \A n \in DOMAIN I : \E r \in Best(n, table, facts) : I[n].rule = r.name

\* One item for a name: what two names of a usage come to.
LEMMA TwoNames ==
    ASSUME NEW D, NEW I, NEW u, ItemsCount(I, D, u),
           NEW a, NEW b, a # b, a \in D => u[a] \in Int, b \in D => u[b] \in Int,
           NEW S, TheseItems(S, I, D \cap {a, b})
    PROVE  Counted(S) = (IF a \in D THEN u[a] ELSE 0) + (IF b \in D THEN u[b] ELSE 0)
  <1>1. \A i : i \in S <=> (a \in D /\ i = I[a]) \/ (b \in D /\ i = I[b])
    BY DEF TheseItems
  <1>6. \A n \in D : I[n].key = n /\ I[n].qty = u[n]
    BY DEF ItemsCount
  <1>2. CASE a \in D /\ b \in D
    <2>1. S = {I[a], I[b]} /\ I[a] # I[b]
      BY <1>1, <1>2, <1>6
    <2> QED
      BY <1>2, <1>6, <2>1, QtyOfTwo
  <1>3. CASE a \in D /\ b \notin D
    <2>1. S = {I[a]}
      BY <1>1, <1>3, <1>6
    <2> QED
      BY <1>3, <1>6, <2>1, QtyOfOne
  <1>4. CASE a \notin D /\ b \in D
    <2>1. S = {I[b]}
      BY <1>1, <1>4, <1>6
    <2> QED
      BY <1>4, <1>6, <2>1, QtyOfOne
  <1>5. CASE a \notin D /\ b \notin D
    <2>1. S = {}
      BY <1>1, <1>5, <1>6
    <2> QED
      BY <1>5, <1>6, <2>1, QtyOfNone
  <1> QED
    BY <1>2, <1>3, <1>4, <1>5

\* The item of each priced name, and that these are all of them.
PricedNames(table, usage, facts) ==
    {m \in DOMAIN usage : Best(m, table, facts) # {}}

ItemFor(table, usage, facts) ==
    [n \in PricedNames(table, usage, facts) |->
        LET rule == CHOOSE r \in Best(n, table, facts) : TRUE
        IN [rule |-> rule.name, key |-> n, qty |-> usage[n],
            rate |-> rule.rate, cost |-> Charge(rule, usage[n])]]

\* rate() makes these items and no others.
LEMMA RateIsItems ==
    ASSUME NEW table, NEW usage, NEW facts, NEW I, I = ItemFor(table, usage, facts)
    PROVE  /\ TheseItems(Rate(table, usage, facts), I, DOMAIN I)
           /\ DOMAIN I = PricedNames(table, usage, facts)
           /\ ItemsCount(I, DOMAIN I, usage)
           /\ ItemsRuled(I, table, facts)
  BY DEF Rate, ItemFor, PricedNames, TheseItems, ItemsCount, ItemsRuled

\* openai_usage() splits the totals of a reply into disjoint names, and rate()
\* bills each of them by exactly one rule: what the items of a direction count is
\* its total, where some rule prices the direction whatever the facts are.
LEMMA TokensAreBilled ==
    ASSUME NEW table, Rated(table), NEW reply, ReplyCounts(reply), NEW tier,
           NEW bill, bill = Rate(table, OpenAIUsage(reply), Facts(OpenAIUsage(reply), tier))
    PROVE  /\ Priced(table, In) =>
                 Counted({i \in bill : Under(i.key, In)}) = reply.prompt
           /\ Priced(table, Out) =>
                 Counted({i \in bill : Under(i.key, Out)}) = reply.completion
  <1> DEFINE usage == OpenAIUsage(reply)
             facts == Facts(usage, tier)
             I == ItemFor(table, usage, facts)
             items == Rate(table, usage, facts)
             part(n) == IF n = Missing THEN 0 ELSE n
  <1>1. \A n \in Nat \cup {Missing} : Max({n, 0}) = part(n)
    <2> SUFFICES ASSUME NEW n \in Nat \cup {Missing} PROVE Max({n, 0}) = part(n)
      OBVIOUS
    <2>1. part(n) \in {n, 0} /\ \A y \in {n, 0} : part(n) >= y
      BY DEF Missing
    <2>2. \A m \in {n, 0} : (\A y \in {n, 0} : m >= y) => m = part(n)
      BY DEF Missing
    <2> HIDE DEF part
    <2> QED
      BY <2>1, <2>2 DEF Max
  <1> DEFINE left == reply.prompt - part(reply.cached)
             said == reply.completion - part(reply.reasoning)
  <1>2. usage = Tokens({<<In, left>>, <<CacheRead, reply.cached>>,
                        <<Out, said>>, <<Reasoning, reply.reasoning>>})
    <2> HIDE DEF part
    <2> QED
      BY <1>1 DEF OpenAIUsage, ReplyCounts
  <1>3. left \in Nat /\ said \in Nat /\ reply.cached \in Int /\ reply.reasoning \in Int
    BY DEF ReplyCounts, Missing
  <1>4. /\ DOMAIN usage \subseteq {In, CacheRead, Out, Reasoning}
        /\ HasCount(usage, In, left) /\ HasCount(usage, CacheRead, reply.cached)
        /\ HasCount(usage, Out, said) /\ HasCount(usage, Reasoning, reply.reasoning)
    <2> DEFINE counts == {<<In, left>>, <<CacheRead, reply.cached>>,
                          <<Out, said>>, <<Reasoning, reply.reasoning>>}
    <2>1. \A p, q \in counts : p[1] = q[1] => p = q
      BY NamesDiffer
    <2>2. usage = Tokens(counts)
      BY <1>2
    <2>3. /\ {p[1] : p \in counts} = {In, CacheRead, Out, Reasoning}
          /\ <<In, left>> \in counts /\ <<CacheRead, reply.cached>> \in counts
          /\ <<Out, said>> \in counts /\ <<Reasoning, reply.reasoning>> \in counts
      OBVIOUS
    <2> HIDE DEF counts, usage, left, said
    <2>4. /\ DOMAIN usage \subseteq {p[1] : p \in counts}
          /\ \A p \in counts : HasCount(usage, p[1], p[2])
      BY <2>1, <2>2, TokensCount
    <2> QED
      BY <2>3, <2>4
  <1> HIDE DEF usage, facts
  <1>5. /\ TheseItems(items, I, DOMAIN I)
        /\ DOMAIN I = PricedNames(table, usage, facts)
        /\ ItemsCount(I, DOMAIN I, usage)
    <2>1. I = ItemFor(table, usage, facts) /\ items = Rate(table, usage, facts)
      OBVIOUS
    <2> HIDE DEF I, items
    <2> QED
      BY <2>1, RateIsItems
  <1>6. DOMAIN I \subseteq DOMAIN usage
    BY <1>5 DEF PricedNames
  <1>10. TableOf(table, Parts)
    BY DEF Rated, TableOf
  <1>9. bill = items
    BY DEF items, facts, usage
  <1> HIDE DEF I, items
  <1>7. ASSUME Priced(table, In)
        PROVE  Counted({i \in items : Under(i.key, In)}) = reply.prompt
    <2>1. \A n \in DOMAIN I : Under(n, In) <=> n \in {In, CacheRead}
      BY <1>4, <1>6, NamesNest
    <2>7. \A n \in {In, CacheRead} : n \in DOMAIN I <=> n \in DOMAIN usage
      <3>1. \A n \in {In, CacheRead} : Len(n) \in Nat /\ Under(n, In)
        BY NamesDiffer, NamesNest
      <3>2. \A n \in {In, CacheRead} : Best(n, table, facts) # {}
        BY <1>7, <1>10, <3>1, PricedIsRated
      <3> QED
        BY <1>5, <3>2 DEF PricedNames
    <2>2. /\ In \in DOMAIN I => usage[In] \in Int
          /\ CacheRead \in DOMAIN I => usage[CacheRead] \in Int
      BY <1>3, <1>4, <1>6 DEF HasCount
    <2>3. In # CacheRead
      BY NamesDiffer
    <2> DEFINE S == {i \in items : Under(i.key, In)}
    <2>5. TheseItems(S, I, DOMAIN I \cap {In, CacheRead})
      BY <1>5, <2>1 DEF TheseItems, ItemsCount
    <2> HIDE DEF S
    <2>4. Counted(S) = (IF In \in DOMAIN I THEN usage[In] ELSE 0)
               + (IF CacheRead \in DOMAIN I THEN usage[CacheRead] ELSE 0)
      BY <1>5, <2>2, <2>3, <2>5, TwoNames
    <2> QED
      BY <1>3, <1>4, <2>4, <2>7 DEF ReplyCounts, Missing, S, HasCount
  <1>8. ASSUME Priced(table, Out)
        PROVE  Counted({i \in items : Under(i.key, Out)}) = reply.completion
    <2>1. \A n \in DOMAIN I : Under(n, Out) <=> n \in {Out, Reasoning}
      BY <1>4, <1>6, NamesNest
    <2>7. \A n \in {Out, Reasoning} : n \in DOMAIN I <=> n \in DOMAIN usage
      <3>1. \A n \in {Out, Reasoning} : Len(n) \in Nat /\ Under(n, Out)
        BY NamesDiffer, NamesNest
      <3>2. \A n \in {Out, Reasoning} : Best(n, table, facts) # {}
        BY <1>8, <1>10, <3>1, PricedIsRated
      <3> QED
        BY <1>5, <3>2 DEF PricedNames
    <2>2. /\ Out \in DOMAIN I => usage[Out] \in Int
          /\ Reasoning \in DOMAIN I => usage[Reasoning] \in Int
      BY <1>3, <1>4, <1>6 DEF HasCount
    <2>3. Out # Reasoning
      BY NamesDiffer
    <2> DEFINE S == {i \in items : Under(i.key, Out)}
    <2>5. TheseItems(S, I, DOMAIN I \cap {Out, Reasoning})
      BY <1>5, <2>1 DEF TheseItems, ItemsCount
    <2> HIDE DEF S
    <2>4. Counted(S) = (IF Out \in DOMAIN I THEN usage[Out] ELSE 0)
               + (IF Reasoning \in DOMAIN I THEN usage[Reasoning] ELSE 0)
      BY <1>5, <2>2, <2>3, <2>5, TwoNames
    <2> QED
      BY <1>3, <1>4, <2>4, <2>7 DEF ReplyCounts, Missing, S, HasCount
  <1> QED
    BY <1>7, <1>8, <1>9
----------------------------------------------------------------------------
\* The names of a reply of this protocol: sequences of at most three parts.
ShortName(n) == Len(n) <= 3 /\ \E P : n \in Seq(P)

\* The names of an Anthropic usage are such, and differ by their TTL.
LEMMA WriteNames ==
    /\ \A ttl : Len(CacheWrite(ttl)) = 3 /\ ShortName(CacheWrite(ttl))
    /\ \A ttl, other : CacheWrite(ttl) = CacheWrite(other) => ttl = other
    /\ ShortName(In) /\ ShortName(CacheRead) /\ ShortName(Out)
  <1>1. \A ttl : Len(CacheWrite(ttl)) = 3 /\ CacheWrite(ttl)[3] = ttl
    BY DEF CacheWrite
  <1>3. In \in Seq({"in"}) /\ Len(In) = 1 /\ Out \in Seq({"out"}) /\ Len(Out) = 1
    BY DEF In, Out
  <1>4. CacheRead \in Seq({"in", "cache_read"}) /\ Len(CacheRead) = 2
    BY DEF CacheRead
  <1>5. \A ttl : ShortName(CacheWrite(ttl))
    <2> SUFFICES ASSUME NEW ttl PROVE ShortName(CacheWrite(ttl))
      OBVIOUS
    <2> DEFINE W == CacheWrite(ttl)
               P == {"in", "cache_write", ttl}
    <2>1. W \in Seq(P) /\ Len(W) <= 3
      BY DEF CacheWrite
    <2> HIDE DEF W, P
    <2>2. ShortName(W)
      BY <2>1 DEF ShortName
    <2> QED
      BY <2>2 DEF W
  <1>6. ShortName(In) /\ ShortName(CacheRead) /\ ShortName(Out)
    <2>1. ShortName(In)
      BY <1>3 DEF ShortName
    <2>2. ShortName(Out)
      BY <1>3 DEF ShortName
    <2>3. ShortName(CacheRead)
      BY <1>4 DEF ShortName
    <2> QED
      BY <2>1, <2>2, <2>3
  <1>7. \A ttl, other : CacheWrite(ttl) = CacheWrite(other) => ttl = other
    BY DEF CacheWrite
  <1> QED
    BY <1>1, <1>5, <1>6, <1>7

\* A prefix that is as long as the whole is the whole.
LEMMA PrefixAsLong ==
    ASSUME NEW P, NEW s \in Seq(P), NEW Q, NEW t \in Seq(Q),
           IsPrefix(s, t), Len(s) >= Len(t)
    PROVE  s = t
  <1>1. Len(s) = Len(t) /\ SubSeq(s, 1, Len(s)) = SubSeq(t, 1, Len(s))
    BY DEF IsPrefix
  <1>2. SubSeq(s, 1, Len(s)) = s /\ SubSeq(t, 1, Len(t)) = t
    OBVIOUS
  <1> QED
    BY <1>1, <1>2

\* The counts of a reply, one for each name, the one asked for among them.
LEMMA WritesAreCounted ==
    ASSUME NEW reply, NEW asked, asked # "off", ReplyWrites(reply, asked),
           NEW u, u = AnthropicUsage(reply, asked)
    PROVE  /\ \A n \in DOMAIN u : ShortName(n)
           /\ HasCount(u, CacheWrite(asked), reply.written)
  <1> DEFINE counts == {<<In, reply.input>>, <<CacheRead, reply.read>>,
                        <<Out, reply.output>>} \cup WriteCounts(reply, asked)
  <1>1. \A p \in WriteCounts(reply, asked) : \E ttl : p[1] = CacheWrite(ttl)
    BY DEF WriteCounts
  <1>2. \A p, q \in WriteCounts(reply, asked) : p[1] = q[1] => p = q
    BY WriteNames DEF WriteCounts
  <1>3. \A p \in WriteCounts(reply, asked) : Len(p[1]) = 3 /\ ShortName(p[1])
    BY <1>1, WriteNames
  <1>4. \A p, q \in counts : p[1] = q[1] => p = q
    <2> DEFINE others == {<<In, reply.input>>, <<CacheRead, reply.read>>,
                          <<Out, reply.output>>}
    <2>1. \A p, q \in others : p[1] = q[1] => p = q
      BY NamesDiffer
    <2>2. \A p \in others : Len(p[1]) # 3
      BY NamesDiffer
    <2> HIDE DEF others
    <2> QED
      BY <1>2, <1>3, <2>1, <2>2 DEF others
  <1>5. \A p \in counts : ShortName(p[1])
    BY <1>3, WriteNames
  <1>6. <<CacheWrite(asked), reply.written>> \in WriteCounts(reply, asked)
    BY DEF WriteCounts, ReplyWrites
  <1>7. <<CacheWrite(asked), reply.written>> \in counts
    BY <1>6
  <1>8. u = Tokens(counts)
    BY DEF AnthropicUsage
  <1> HIDE DEF counts
  <1>9. /\ DOMAIN u \subseteq {p[1] : p \in counts}
        /\ \A p \in counts : HasCount(u, p[1], p[2])
    BY <1>4, <1>8, TokensCount
  <1> QED
    BY <1>5, <1>7, <1>9

\* The best rule for a cache write is a rule of that name, for no other count.
LEMMA WritesHaveTheirRule ==
    ASSUME NEW Part, NEW table, TableOf(table, Part), NEW asked,
           asked \in CacheTtls(table), PlainFor(table, CacheWrite(asked)), NEW facts
    PROVE  /\ Best(CacheWrite(asked), table, facts) # {}
           /\ \A r \in Best(CacheWrite(asked), table, facts) : r.name = CacheWrite(asked)
           /\ \A n : ShortName(n) =>
                \A r \in Best(n, table, facts) :
                    r.name = CacheWrite(asked) => n = CacheWrite(asked)
  <1> DEFINE W == CacheWrite(asked)
  <1>1. ShortName(W) /\ Len(W) = 3
    BY WriteNames
  <1>2. PICK q \in table : q.name = W
    <2>1. PICK q \in table : Len(q.name) = 3 /\ q.name = CacheWrite(q.name[3])
                             /\ q.name[3] = asked
      BY DEF CacheTtls
    <2> QED
      BY <2>1
  <1>3. Pattern(q) = W /\ q.tier = "" /\ q.when = Missing
    BY <1>2 DEF PlainFor
  <1>4. \A r \in table : Pattern(r) \in Seq(Part)
    BY DEF TableOf, Pattern
  <1> HIDE DEF W
  <1>5. Matches(W, q, facts) /\ Specificity(q) >= 12
    <2>1. IsPrefix(W, W)
      BY <1>1 DEF IsPrefix
    <2>2. Matches(W, q, facts)
      BY <1>3, <2>1 DEF Matches, Under
    <2> DEFINE len == Len(Pattern(q))
    <2>3. len = 3
      BY <1>1, <1>3
    <2>4. Len(Pattern(q)) \in Nat
      BY <2>3
    <2>5. Specificity(q) >= 4 * len
      BY <2>4, SpecificityBounds
    <2> HIDE DEF len
    <2> QED
      BY <2>2, <2>3, <2>5
  <1>6. Best(W, table, facts) # {}
    BY <1>1, <1>5, SomeRuleIsBest
  <1>7. ASSUME NEW r \in Best(W, table, facts) PROVE r.name = W
    <2>1. r \in table /\ Matches(W, r, facts) /\ Specificity(r) >= 12
      <3>1. r \in table /\ Matches(W, r, facts) /\ Specificity(r) >= Specificity(q)
        BY <1>5 DEF Best
      <3>2. Specificity(r) \in Nat /\ Specificity(q) \in Nat
        BY <1>4, <3>1, SpecificityBounds
      <3> QED
        BY <1>5, <3>1, <3>2
    <2> DEFINE len == Len(Pattern(r))
    <2>2. len \in Nat
      BY <1>4, <2>1
    <2>3. Specificity(r) <= 4 * len + 3
      BY <2>2, SpecificityBounds
    <2>4. Specificity(r) \in Nat
      BY <2>2, SpecificityBounds
    <2> HIDE DEF len
    <2>5. len >= 3
      BY <2>1, <2>2, <2>3, <2>4
    <2>6. Pattern(r) \in Seq(Part) /\ IsPrefix(Pattern(r), W)
      BY <1>4, <2>1 DEF Matches, Under
    <2>7. Pattern(r) = W
      BY <1>1, <2>5, <2>6, PrefixAsLong DEF ShortName, len
    <2> QED
      BY <2>1, <2>7 DEF PlainFor, W
  <1>8. ASSUME NEW n, ShortName(n), NEW r \in Best(n, table, facts), r.name = W
        PROVE  n = W
    <2>1. r \in table /\ Matches(n, r, facts)
      BY DEF Best
    <2>2. Pattern(r) = W
      BY <1>8, <2>1 DEF PlainFor, W
    <2>3. IsPrefix(W, n)
      BY <2>1, <2>2 DEF Matches, Under
    <2> QED
      BY <1>1, <1>8, <2>3, PrefixAsLong DEF ShortName
  <1> QED
    BY <1>6, <1>7, <1>8 DEF W

\* Where cache_ttl() accepts a TTL, all that was written is billed by the rule
\* of that TTL, however the reply reports it.
LEMMA WritesAreBilled ==
    ASSUME NEW table, Rated(table), NEW asked, asked \in CacheTtls(table),
           asked # "off", PlainFor(table, CacheWrite(asked)),
           NEW reply, ReplyWrites(reply, asked),
           NEW bill, bill = Rate(table, AnthropicUsage(reply, asked),
                                 Facts(AnthropicUsage(reply, asked), "default"))
    PROVE  Counted({i \in bill : i.rule = CacheWrite(asked)}) = reply.written
  <1> DEFINE usage == AnthropicUsage(reply, asked)
             facts == Facts(usage, "default")
             I == ItemFor(table, usage, facts)
             items == Rate(table, usage, facts)
             W == CacheWrite(asked)
             written == {i \in items : i.rule = W}
  <1> SUFFICES Counted(written) = reply.written
    OBVIOUS
  <1>1. asked \in CacheTtls(table) /\ TableOf(table, Parts)
    BY DEF Rated, TableOf
  <1>2. (\A n \in DOMAIN usage : ShortName(n)) /\ HasCount(usage, W, reply.written)
    BY WritesAreCounted
  <1> HIDE DEF usage, facts
  <1>3. /\ TheseItems(items, I, DOMAIN I)
        /\ DOMAIN I = PricedNames(table, usage, facts)
        /\ ItemsCount(I, DOMAIN I, usage)
        /\ ItemsRuled(I, table, facts)
    <2>1. I = ItemFor(table, usage, facts) /\ items = Rate(table, usage, facts)
      OBVIOUS
    <2> HIDE DEF I, items
    <2> QED
      BY <2>1, RateIsItems
  <1>4. /\ Best(W, table, facts) # {}
        /\ \A r \in Best(W, table, facts) : r.name = W
        /\ \A n : ShortName(n) => \A r \in Best(n, table, facts) : r.name = W => n = W
    BY <1>1, WritesHaveTheirRule
  <1> HIDE DEF I, items, W
  <1>5. \A n \in DOMAIN I : I[n].rule = W <=> n = W
    BY <1>2, <1>3, <1>4 DEF ItemsRuled, PricedNames
  <1>6. \A i : i \in written <=> W \in DOMAIN I /\ i = I[W]
    <2>1. \A i : i \in items <=> \E n \in DOMAIN I : i = I[n]
      BY <1>3 DEF TheseItems
    <2>2. \A i : i \in written <=> i \in items /\ i.rule = W
      OBVIOUS
    <2> HIDE DEF written
    <2> QED
      BY <1>5, <2>1, <2>2
  <1>7. W \in DOMAIN I <=> reply.written > 0
    BY <1>2, <1>3, <1>4 DEF HasCount, PricedNames
  <1>8. reply.written \in Nat
    BY DEF ReplyWrites
  <1> HIDE DEF written
  <1>9. CASE reply.written > 0
    <2>1. written = {I[W]} /\ I[W].qty = reply.written
      BY <1>2, <1>3, <1>6, <1>7, <1>9 DEF HasCount, ItemsCount
    <2> QED
      BY <1>8, <2>1, QtyOfOne
  <1>10. CASE reply.written = 0
    <2>1. written = {}
      BY <1>6, <1>7, <1>10
    <2> QED
      BY <1>10, <2>1, QtyOfNone
  <1> QED
    BY <1>8, <1>9, <1>10
----------------------------------------------------------------------------
\* The other sums of a bill, as sums of what they add up.
LEMMA CostIsSum ==
    ASSUME NEW S, NEW f, Addable(f, S), \A x \in S : f[x] = x.cost
    PROVE  Cost(S) = Adds(f, S)
  <1> DEFINE G(g) == g = [s \in SUBSET S |->
                IF s = {} THEN 0
                ELSE (CHOOSE x \in s : TRUE).cost + g[s \ {CHOOSE x \in s : TRUE}]]
             h == CHOOSE g : G(g)
  <1>1. Cost(S) = h[S]
    BY DEF Cost, MapThenSumSet, MapThenFoldSet
  <1>2. \A s \in SUBSET S : s # {} => f[Taken(s)] = Taken(s).cost
    BY TakenIs
  <1>3. \A g : G(g) <=> Sums(g, f, S)
    BY <1>2 DEF Sums, SumsOn, Taken
  <1> HIDE DEF G
  <1>4. Sums(h, f, S)
    BY <1>3, SumsExist DEF Addable
  <1> HIDE DEF h
  <1> QED
    BY <1>1, <1>4, SumIs

ItemQty(S) == MapThenSumSet(LAMBDA b : b.item.qty, S)
ItemCost(S) == MapThenSumSet(LAMBDA b : b.item.cost, S)

\* The counts of numbered items are summed.
LEMMA ItemQtyIsSum ==
    ASSUME NEW S, NEW f, Addable(f, S), \A x \in S : f[x] = x.item.qty
    PROVE  ItemQty(S) = Adds(f, S)
  <1> DEFINE G(g) == g = [s \in SUBSET S |->
                IF s = {} THEN 0
                ELSE (CHOOSE x \in s : TRUE).item.qty + g[s \ {CHOOSE x \in s : TRUE}]]
             h == CHOOSE g : G(g)
  <1>1. ItemQty(S) = h[S]
    BY DEF ItemQty, MapThenSumSet, MapThenFoldSet
  <1>2. \A s \in SUBSET S : s # {} => f[Taken(s)] = Taken(s).item.qty
    BY TakenIs
  <1>3. \A g : G(g) <=> Sums(g, f, S)
    BY <1>2 DEF Sums, SumsOn, Taken
  <1> HIDE DEF G
  <1>4. Sums(h, f, S)
    BY <1>3, SumsExist DEF Addable
  <1> HIDE DEF h
  <1> QED
    BY <1>1, <1>4, SumIs

\* So are their costs.
LEMMA ItemCostIsSum ==
    ASSUME NEW S, NEW f, Addable(f, S), \A x \in S : f[x] = x.item.cost
    PROVE  ItemCost(S) = Adds(f, S)
  <1> DEFINE G(g) == g = [s \in SUBSET S |->
                IF s = {} THEN 0
                ELSE (CHOOSE x \in s : TRUE).item.cost + g[s \ {CHOOSE x \in s : TRUE}]]
             h == CHOOSE g : G(g)
  <1>1. ItemCost(S) = h[S]
    BY DEF ItemCost, MapThenSumSet, MapThenFoldSet
  <1>2. \A s \in SUBSET S : s # {} => f[Taken(s)] = Taken(s).item.cost
    BY TakenIs
  <1>3. \A g : G(g) <=> Sums(g, f, S)
    BY <1>2 DEF Sums, SumsOn, Taken
  <1> HIDE DEF G
  <1>4. Sums(h, f, S)
    BY <1>3, SumsExist DEF Addable
  <1> HIDE DEF h
  <1> QED
    BY <1>1, <1>4, SumIs

\* The sum of a function, said with the operator of the community modules.
LEMMA MapIsSum ==
    ASSUME NEW S, NEW f, Addable(f, S)
    PROVE  MapThenSumSet(LAMBDA x : f[x], S) = Adds(f, S)
  <1> DEFINE G(g) == g = [s \in SUBSET S |->
                IF s = {} THEN 0
                ELSE f[CHOOSE x \in s : TRUE] + g[s \ {CHOOSE x \in s : TRUE}]]
             h == CHOOSE g : G(g)
  <1>1. MapThenSumSet(LAMBDA x : f[x], S) = h[S]
    BY DEF MapThenSumSet, MapThenFoldSet
  <1>3. \A g : G(g) <=> Sums(g, f, S)
    BY DEF Sums, SumsOn, Taken
  <1> HIDE DEF G
  <1>4. Sums(h, f, S)
    BY <1>3, SumsExist DEF Addable
  <1> HIDE DEF h
  <1> QED
    BY <1>1, <1>4, SumIs

----------------------------------------------------------------------------
IsItem(i) == \E rule, key, qty, rate, cost :
    i = [rule |-> rule, key |-> key, qty |-> qty, rate |-> rate, cost |-> cost]

\* An item that multiplies out.
GoodItem(table, i) ==
    /\ IsItem(i) /\ i.qty \in Int /\ i.cost \in Int
    /\ UnitCost(table, i) \in Int /\ i.cost = UnitCost(table, i) * i.qty

\* What a round is billed: items that multiply out, one for one key.
GoodBill(table, items) ==
    /\ IsFiniteSet(items)
    /\ \A i \in items : GoodItem(table, i)
    /\ \A i, j \in items : MergeKey(i) = MergeKey(j) => i = j

GoodRound(round) ==
    /\ IsFiniteSet(DOMAIN round.usage)
    /\ \A n \in DOMAIN round.usage : round.usage[n] \in Int /\ \E P : n \in Seq(P)
    /\ round.charged \in Int

\* A charge is the charge for one, times the count.
LEMMA ChargeMultiplies ==
    ASSUME NEW r, r.rate \in Int, NEW qty \in Int
    PROVE  Charge(r, qty) \in Int /\ Charge(r, 1) \in Int /\ Charge(r, qty) = Charge(r, 1) * qty
  <1> DEFINE unit == IF r.unit = "token" THEN 1 ELSE 10^6
  <1>1. unit \in Int
    OBVIOUS
  <1>2. Charge(r, qty) = r.rate * qty * unit /\ Charge(r, 1) = r.rate * 1 * unit
    BY DEF Charge
  <1> HIDE DEF unit
  <1> QED
    BY <1>1, <1>2

\* billing() makes a good bill of every round, rated or reported.
LEMMA RoundsAreBilled ==
    ASSUME NEW table, Rated(table), NEW round, GoodRound(round)
    PROVE  /\ Billing(table, round).usage = round.usage
           /\ GoodBill(table, Billing(table, round).items)
  <1> DEFINE usage == round.usage
             facts == Facts(usage, round.tier)
             I == ItemFor(table, usage, facts)
             items == Rate(table, usage, facts)
  <1>1. CASE round.charged # Missing
    <2> DEFINE total == round.charged
               i == [rule |-> Provider, key |-> <<"cost">>, qty |-> total, rate |-> 1,
                     cost |-> total]
    <2>1. Billing(table, round).items = {i} /\ Billing(table, round).usage = round.usage
      BY <1>1 DEF Billing, Reported
    <2>2. total \in Int
      BY DEF GoodRound
    <2>3. IsItem(i) /\ i.rule = Provider /\ i.qty = total /\ i.cost = total
      BY DEF IsItem
    <2> HIDE DEF i, total
    <2>4. GoodItem(table, i)
      BY <2>2, <2>3 DEF GoodItem, UnitCost
    <2> QED
      BY <2>1, <2>4, FS_Singleton DEF GoodBill
  <1>2. CASE round.charged = Missing
    <2>1. Billing(table, round).items = items /\ Billing(table, round).usage = usage
      BY <1>2 DEF Billing
    <2> HIDE DEF facts
    <2>2. /\ TheseItems(items, I, DOMAIN I)
          /\ DOMAIN I = PricedNames(table, usage, facts)
      <3>1. I = ItemFor(table, usage, facts) /\ items = Rate(table, usage, facts)
        OBVIOUS
      <3> HIDE DEF I, items
      <3> QED
        BY <3>1, RateIsItems
    <2>3. IsFiniteSet(DOMAIN I)
      <3>1. DOMAIN I \subseteq DOMAIN usage
        BY <2>2 DEF PricedNames
      <3> HIDE DEF I
      <3> QED
        BY <3>1, FS_Subset DEF GoodRound
    <2>4. IsFiniteSet(items)
      <3> HIDE DEF I, items
      <3>1. \A i \in items : \E n \in DOMAIN I : i = I[n]
        BY <2>2 DEF TheseItems
      <3> QED
        BY <2>3, <3>1, FiniteImage
    <2>5. ASSUME NEW n \in DOMAIN I
          PROVE  GoodItem(table, I[n]) /\ I[n].key = n
      <3> DEFINE rule == CHOOSE r \in Best(n, table, facts) : TRUE
      <3>1. n \in DOMAIN usage /\ Best(n, table, facts) # {}
        BY <2>2 DEF PricedNames
      <3>2. rule \in table
        BY <3>1 DEF Best
      <3>3. I[n] = [rule |-> rule.name, key |-> n, qty |-> usage[n],
                    rate |-> rule.rate, cost |-> Charge(rule, usage[n])]
        BY <2>2 DEF ItemFor
      <3> HIDE DEF I, rule
      <3>4. usage[n] \in Int
        BY <3>1 DEF GoodRound
      <3>5. rule.rate \in Int /\ rule.name # Provider
        BY <3>2 DEF Rated
      <3>6. (CHOOSE r \in table : r.name = rule.name) = rule
        BY <3>2 DEF Rated
      <3>7. UnitCost(table, I[n]) = Charge(rule, 1)
        <4>1. I[n].rule = rule.name
          BY <3>3
        <4> QED
          BY <3>5, <3>6, <4>1 DEF UnitCost
      <3>8. /\ Charge(rule, usage[n]) \in Int /\ Charge(rule, 1) \in Int
            /\ Charge(rule, usage[n]) = Charge(rule, 1) * usage[n]
        <4> DEFINE q == usage[n]
        <4>1. q \in Int
          BY <3>4
        <4> HIDE DEF q
        <4>2. Charge(rule, q) \in Int /\ Charge(rule, 1) \in Int /\ Charge(rule, q) = Charge(rule, 1) * q
          BY <3>5, <4>1, ChargeMultiplies
        <4> QED
          BY <4>2 DEF q
      <3>9. IsItem(I[n])
        BY <3>3 DEF IsItem
      <3>10. I[n].qty = usage[n] /\ I[n].cost = Charge(rule, usage[n]) /\ I[n].key = n
        BY <3>3
      <3> QED
        BY <3>4, <3>7, <3>8, <3>9, <3>10 DEF GoodItem
    <2> HIDE DEF I, items
    <2>6. \A i \in items : \E n \in DOMAIN I : i = I[n]
      BY <2>2 DEF TheseItems
    <2>7. \A i \in items : GoodItem(table, i)
      BY <2>5, <2>6
    <2>8. ASSUME NEW i \in items, NEW j \in items, MergeKey(i) = MergeKey(j)
          PROVE  i = j
      <3>1. i.key = j.key
        BY <2>8 DEF MergeKey
      <3> QED
        BY <2>5, <2>6, <3>1
    <2> QED
      BY <2>1, <2>4, <2>7, <2>8 DEF GoodBill
  <1> QED
    BY <1>1, <1>2
----------------------------------------------------------------------------
\* The items of every round with the number of their round, as in MergedItems.
AllItems(bills) ==
    UNION {{[round |-> i, item |-> x] : x \in bills[i].items} : i \in DOMAIN bills}
SameKey(bills, a) == {b \in AllItems(bills) : MergeKey(b.item) = MergeKey(a.item)}
FirstOf(bills, a) == \A b \in SameKey(bills, a) : a.round <= b.round

GoodBills(table, bills) ==
    /\ \E n \in Nat : DOMAIN bills = 1..n
    /\ \A i \in DOMAIN bills : GoodBill(table, bills[i].items)

\* merged(), in these names.
LEMMA MergedItemsIs ==
    ASSUME NEW bills
    PROVE  MergedItems(bills)
             = {[a.item EXCEPT !.qty = ItemQty(SameKey(bills, a)),
                               !.cost = ItemCost(SameKey(bills, a))] :
                   a \in {a \in AllItems(bills) : FirstOf(bills, a)}}
  BY DEF MergedItems, AllItems, SameKey, FirstOf, ItemQty, ItemCost

\* There are finitely many, each from one round, and each multiplies out.
LEMMA AllItemsAre ==
    ASSUME NEW table, NEW bills, GoodBills(table, bills)
    PROVE  /\ IsFiniteSet(AllItems(bills))
           /\ \A a \in AllItems(bills) :
                 /\ a.round \in DOMAIN bills /\ a.item \in bills[a.round].items
                 /\ a = [round |-> a.round, item |-> a.item]
                 /\ GoodItem(table, a.item)
           /\ \A i \in DOMAIN bills : \A x \in bills[i].items :
                 [round |-> i, item |-> x] \in AllItems(bills)
  <1> DEFINE Of(i) == {[round |-> i, item |-> x] : x \in bills[i].items}
  <1>1. \A a : a \in AllItems(bills) <=>
                 \E i \in DOMAIN bills : \E x \in bills[i].items :
                    a = [round |-> i, item |-> x]
    BY DEF AllItems
  <1>2. ASSUME NEW i \in DOMAIN bills PROVE IsFiniteSet(Of(i))
    <2> DEFINE f == [x \in bills[i].items |-> [round |-> i, item |-> x]]
    <2>1. \A t \in Of(i) : \E x \in bills[i].items : t = f[x]
      OBVIOUS
    <2>2. IsFiniteSet(bills[i].items)
      BY DEF GoodBills, GoodBill
    <2> HIDE DEF f, Of
    <2> QED
      BY <2>1, <2>2, FiniteImage
  <1>3. IsFiniteSet({Of(i) : i \in DOMAIN bills})
    <2> DEFINE f == [i \in DOMAIN bills |-> Of(i)]
               T == {Of(i) : i \in DOMAIN bills}
    <2>1. \A t \in T : \E i \in DOMAIN bills : t = f[i]
      OBVIOUS
    <2>2. IsFiniteSet(DOMAIN bills)
      BY FS_Interval DEF GoodBills
    <2> HIDE DEF f, T
    <2>3. IsFiniteSet(T)
      BY <2>1, <2>2, FiniteImage
    <2> QED
      BY <2>3 DEF T
  <1>4. IsFiniteSet(UNION {Of(i) : i \in DOMAIN bills})
    <2> DEFINE T == {Of(i) : i \in DOMAIN bills}
    <2>1. \A t \in T : IsFiniteSet(t)
      BY <1>2
    <2>2. IsFiniteSet(T)
      BY <1>3
    <2> HIDE DEF T
    <2>3. IsFiniteSet(UNION T)
      BY <2>1, <2>2, FS_UNION
    <2> QED
      BY <2>3 DEF T
  <1>5. IsFiniteSet(AllItems(bills))
    BY <1>4 DEF AllItems
  <1>6. \A i \in DOMAIN bills : \A x \in bills[i].items : GoodItem(table, x)
    BY DEF GoodBills, GoodBill
  <1> QED
    BY <1>1, <1>5, <1>6

\* One merged item: of which items, and what it counts and costs.
MergedFrom(bills, m, a) ==
    /\ FirstOf(bills, a)
    /\ IsItem(m) /\ MergeKey(m) = MergeKey(a.item) /\ m.rule = a.item.rule
    /\ m.qty = ItemQty(SameKey(bills, a))
    /\ m.cost = ItemCost(SameKey(bills, a))
    /\ m = [a.item EXCEPT !.qty = ItemQty(SameKey(bills, a)),
                          !.cost = ItemCost(SameKey(bills, a))]

\* Every merged item is made from a first one.
LEMMA MergedItemIs ==
    ASSUME NEW table, NEW bills, GoodBills(table, bills), NEW m \in MergedItems(bills)
    PROVE  \E a \in AllItems(bills) : MergedFrom(bills, m, a)
  <1>1. PICK a \in AllItems(bills) :
           /\ FirstOf(bills, a)
           /\ m = [a.item EXCEPT !.qty = ItemQty(SameKey(bills, a)),
                                 !.cost = ItemCost(SameKey(bills, a))]
    BY MergedItemsIs
  <1>2. IsItem(a.item)
    BY AllItemsAre DEF GoodItem
  <1> DEFINE i == a.item
             qty == ItemQty(SameKey(bills, a))
             cost == ItemCost(SameKey(bills, a))
  <1>3. IsItem(i) /\ m = [i EXCEPT !.qty = qty, !.cost = cost]
    BY <1>1, <1>2
  <1> HIDE DEF i, qty, cost
  <1>4. m = [rule |-> i.rule, key |-> i.key, qty |-> qty, rate |-> i.rate, cost |-> cost]
    BY <1>3 DEF IsItem
  <1>5. /\ IsItem(m) /\ m.rule = i.rule /\ m.key = i.key /\ m.rate = i.rate
        /\ m.qty = qty /\ m.cost = cost
    BY <1>4 DEF IsItem
  <1>6. MergeKey(m) = MergeKey(i)
    BY <1>5 DEF MergeKey
  <1> QED
    BY <1>1, <1>5, <1>6 DEF i, qty, cost, MergedFrom

\* The counts and the costs of the items of all rounds.
QtyOf(bills) == [a \in AllItems(bills) |-> a.item.qty]
CostsOf(bills) == [a \in AllItems(bills) |-> a.item.cost]

\* Some of them can be added up, by count and by cost.
LEMMA AllAddable ==
    ASSUME NEW table, NEW bills, GoodBills(table, bills)
    PROVE  \A S \in SUBSET AllItems(bills) :
              /\ Addable(QtyOf(bills), S) /\ ItemQty(S) = Adds(QtyOf(bills), S)
              /\ Addable(CostsOf(bills), S) /\ ItemCost(S) = Adds(CostsOf(bills), S)
  <1> DEFINE f == QtyOf(bills)
             c == CostsOf(bills)
  <1> SUFFICES ASSUME NEW S \in SUBSET AllItems(bills)
               PROVE  /\ Addable(f, S) /\ ItemQty(S) = Adds(f, S)
                      /\ Addable(c, S) /\ ItemCost(S) = Adds(c, S)
    OBVIOUS
  <1>1. IsFiniteSet(S)
    BY AllItemsAre, FS_Subset
  <1>2. \A a \in S : f[a] = a.item.qty /\ c[a] = a.item.cost
    BY DEF QtyOf, CostsOf
  <1>3. \A a \in S : a.item.qty \in Int /\ a.item.cost \in Int
    BY AllItemsAre DEF GoodItem
  <1>4. Addable(f, S) /\ Addable(c, S)
    BY <1>1, <1>2, <1>3 DEF Addable
  <1> HIDE DEF f, c
  <1> QED
    BY <1>2, <1>4, ItemQtyIsSum, ItemCostIsSum

\* Every merged item multiplies out, as the items it is the sum of did.
LEMMA MergedItemsMultiply ==
    ASSUME NEW table, NEW bills, GoodBills(table, bills), NEW m \in MergedItems(bills)
    PROVE  GoodItem(table, m)
  <1>1. PICK a \in AllItems(bills) :
           /\ FirstOf(bills, a)
           /\ IsItem(m) /\ MergeKey(m) = MergeKey(a.item) /\ m.rule = a.item.rule
           /\ m.qty = ItemQty(SameKey(bills, a))
           /\ m.cost = ItemCost(SameKey(bills, a))
    <2>1. \E a \in AllItems(bills) : MergedFrom(bills, m, a)
      BY MergedItemIs
    <2> QED
      BY <2>1 DEF MergedFrom
  <1> DEFINE S == SameKey(bills, a)
             u == UnitCost(table, m)
             f == QtyOf(bills)
             c == CostsOf(bills)
  <1>2. S \in SUBSET AllItems(bills)
    BY DEF SameKey
  <1>3. ASSUME NEW b \in S PROVE UnitCost(table, b.item) = u
    <2>1. b.item.rule = m.rule
      BY <1>1, <1>3 DEF SameKey, MergeKey
    <2> QED
      BY <2>1 DEF UnitCost
  <1>4. u \in Int
    <2>1. UnitCost(table, a.item) = u
      BY <1>1 DEF UnitCost
    <2> QED
      BY <2>1, AllItemsAre DEF GoodItem
  <1>5. \A b \in S : c[b] = u * f[b]
    <2> SUFFICES ASSUME NEW b \in S PROVE c[b] = u * f[b]
      OBVIOUS
    <2>1. b.item.cost = UnitCost(table, b.item) * b.item.qty
      BY <1>2, AllItemsAre DEF GoodItem
    <2>2. c[b] = b.item.cost /\ f[b] = b.item.qty
      BY <1>2 DEF QtyOf, CostsOf
    <2> QED
      BY <1>3, <2>1, <2>2
  <1> HIDE DEF S, f, c, u
  <1>6. Addable(f, S) /\ Addable(c, S) /\ m.qty = Adds(f, S) /\ m.cost = Adds(c, S)
    BY <1>1, <1>2, AllAddable DEF S, f, c
  <1>7. Adds(c, S) = u * Adds(f, S)
    BY <1>4, <1>5, <1>6, AddsTimes
  <1>8. m.qty \in Int /\ m.cost \in Int
    BY <1>6, AddsSplit
  <1> QED
    BY <1>1, <1>4, <1>6, <1>7, <1>8 DEF GoodItem, u

\* The items come to what the rounds' items came to: one way of adding them up
\* is round by round, the other key by key.
LEMMA MergedCosts ==
    ASSUME NEW table, NEW bills, GoodBills(table, bills),
           NEW F, \A i \in DOMAIN bills : F[i] = Cost(bills[i].items)
    PROVE  /\ Addable(F, DOMAIN bills) /\ Cost(MergedItems(bills)) = Adds(F, DOMAIN bills)
           /\ IsFiniteSet(MergedItems(bills))
  <1> DEFINE all == AllItems(bills)
             c == CostsOf(bills)
             byRound == [a \in all |-> a.round]
             byKey == [a \in all |-> MergeKey(a.item)]
             K == {MergeKey(a.item) : a \in all}
             C == [k \in K |-> Adds(c, Class(all, byKey, k))]
             M == MergedItems(bills)
  <1>1. Addable(c, all) /\ \A S \in SUBSET all : Addable(c, S) /\ ItemCost(S) = Adds(c, S)
    BY AllAddable
  <1>2. IsFiniteSet(DOMAIN bills)
    BY FS_Interval DEF GoodBills
  <1>3. ASSUME NEW i \in DOMAIN bills PROVE F[i] = Adds(c, Class(all, byRound, i))
    <2> DEFINE S == Class(all, byRound, i)
               items == bills[i].items
               h == [a \in S |-> a.item]
               e == [x \in items |-> x.cost]
    <2>1. S \in SUBSET all /\ \A a \in S : a.round = i
      BY DEF Class
    <2>2. \A a \in S : h[a] \in items
      BY <2>1, AllItemsAre
    <2>3. \A a, b \in S : h[a] = h[b] => a = b
      BY <2>1, AllItemsAre
    <2>4. \A x \in items : \E a \in S : h[a] = x
      <3> SUFFICES ASSUME NEW x \in items PROVE \E a \in S : h[a] = x
        OBVIOUS
      <3> DEFINE a == [round |-> i, item |-> x]
      <3>1. a \in all /\ a.round = i /\ a.item = x
        BY AllItemsAre
      <3>2. a \in S
        BY <3>1 DEF Class
      <3> QED
        BY <3>1, <3>2
    <2>5. \A a \in S : e[h[a]] = c[a]
      BY <2>1, <2>2 DEF CostsOf
    <2>6. IsFiniteSet(items)
      BY DEF GoodBills, GoodBill
    <2>7. Addable(c, S)
      BY <1>1, <2>1
    <2>8. \A x \in items : e[x] = x.cost
      OBVIOUS
    <2> HIDE DEF S, items, h, e, c
    <2>9. Addable(e, items) /\ Adds(c, S) = Adds(e, items)
      BY <2>2, <2>3, <2>4, <2>5, <2>6, <2>7, Reindex
    <2>10. Cost(items) = Adds(e, items)
      BY <2>8, <2>9, CostIsSum
    <2> QED
      BY <2>9, <2>10 DEF items, S
  <1>4. Addable(F, DOMAIN bills) /\ Adds(c, all) = Adds(F, DOMAIN bills)
    <2>1. \A a \in all : byRound[a] \in DOMAIN bills
      BY AllItemsAre
    <2> HIDE DEF c, all, byRound
    <2> QED
      BY <1>1, <1>2, <1>3, <2>1, Regroup
  <1>5. IsFiniteSet(K)
    <2>1. \A k \in K : \E a \in all : k = byKey[a]
      OBVIOUS
    <2>2. IsFiniteSet(all)
      BY <1>1 DEF Addable
    <2> HIDE DEF all, byKey, K
    <2> QED
      BY <2>1, <2>2, FiniteImage
  <1>6. Addable(C, K) /\ Adds(c, all) = Adds(C, K)
    <2>1. \A a \in all : byKey[a] \in K
      OBVIOUS
    <2>2. \A k \in K : C[k] = Adds(c, Class(all, byKey, k))
      OBVIOUS
    <2> HIDE DEF c, all, byKey, K, C
    <2> QED
      BY <1>1, <1>5, <2>1, <2>2, Regroup
  <1>7. \A a \in all : SameKey(bills, a) = Class(all, byKey, MergeKey(a.item))
    BY DEF SameKey, Class
  <1>8. \A k \in K : \E m \in M : MergeKey(m) = k
    <2> SUFFICES ASSUME NEW a \in all PROVE \E m \in M : MergeKey(m) = MergeKey(a.item)
      OBVIOUS
    <2> DEFINE R == {b.round : b \in SameKey(bills, a)}
    <2>1. R \in SUBSET Nat /\ R # {}
      <3>1. \A b \in all : b.round \in Nat
        BY AllItemsAre DEF GoodBills
      <3>2. a \in SameKey(bills, a) /\ SameKey(bills, a) \subseteq all
        BY DEF SameKey
      <3> QED
        BY <3>1, <3>2
    <2>2. PICK r \in R : \A q \in R : r <= q
      <3> HIDE DEF R
      <3> QED
        BY <2>1, LeastNumber
    <2>3. PICK b \in SameKey(bills, a) : b.round = r
      OBVIOUS
    <2>4. SameKey(bills, b) = SameKey(bills, a) /\ b \in all
      BY DEF SameKey
    <2>5. FirstOf(bills, b)
      BY <2>2, <2>3, <2>4 DEF FirstOf
    <2> DEFINE m == [b.item EXCEPT !.qty = ItemQty(SameKey(bills, b)),
                                   !.cost = ItemCost(SameKey(bills, b))]
    <2>6. m \in M
      BY <2>4, <2>5, MergedItemsIs
    <2>7. IsItem(b.item)
      BY <2>4, AllItemsAre DEF GoodItem
    <2>8. MergeKey(m) = MergeKey(b.item)
      BY <2>7 DEF MergeKey, IsItem
    <2>9. MergeKey(b.item) = MergeKey(a.item)
      BY DEF SameKey
    <2> QED
      BY <2>6, <2>8, <2>9
  <1>9. ASSUME NEW m \in M
        PROVE  MergeKey(m) \in K /\ m.cost = C[MergeKey(m)] /\ m.cost \in Int
    <2>1. PICK a \in all : MergeKey(m) = MergeKey(a.item)
                           /\ m.cost = ItemCost(SameKey(bills, a))
      <3>1. \E a \in AllItems(bills) : MergedFrom(bills, m, a)
        BY MergedItemIs
      <3> QED
        BY <3>1 DEF MergedFrom
    <2>2. SameKey(bills, a) \in SUBSET all
      BY DEF SameKey
    <2>3. m.cost = Adds(c, SameKey(bills, a))
      BY <1>1, <2>1, <2>2
    <2>4. MergeKey(m) \in K
      BY <2>1
    <2>5. C[MergeKey(m)] = Adds(c, Class(all, byKey, MergeKey(m)))
      BY <2>4
    <2> HIDE DEF C, K, byKey
    <2>6. m.cost = C[MergeKey(m)]
      BY <1>7, <2>1, <2>3, <2>5
    <2>7. m.cost \in Int
      BY <1>6, <2>4, <2>6 DEF Addable
    <2> QED
      BY <2>4, <2>6, <2>7
  <1>10. ASSUME NEW m \in M, NEW o \in M, MergeKey(m) = MergeKey(o) PROVE m = o
    <2>1. PICK a \in all : /\ FirstOf(bills, a) /\ MergeKey(m) = MergeKey(a.item)
                           /\ m = [a.item EXCEPT !.qty = ItemQty(SameKey(bills, a)),
                                                 !.cost = ItemCost(SameKey(bills, a))]
      <3>1. \E a \in AllItems(bills) : MergedFrom(bills, m, a)
        BY MergedItemIs
      <3> QED
        BY <3>1 DEF MergedFrom
    <2>2. PICK b \in all : /\ FirstOf(bills, b) /\ MergeKey(o) = MergeKey(b.item)
                           /\ o = [b.item EXCEPT !.qty = ItemQty(SameKey(bills, b)),
                                                 !.cost = ItemCost(SameKey(bills, b))]
      <3>1. \E b \in AllItems(bills) : MergedFrom(bills, o, b)
        BY MergedItemIs
      <3> QED
        BY <3>1 DEF MergedFrom
    <2>3. MergeKey(a.item) = MergeKey(b.item)
      BY <1>10, <2>1, <2>2
    <2>4. a \in SameKey(bills, b) /\ b \in SameKey(bills, a)
      BY <2>3 DEF SameKey
    <2>5. a.round <= b.round /\ b.round <= a.round
      BY <2>1, <2>2, <2>4 DEF FirstOf
    <2>6. a.round \in Nat /\ b.round \in Nat
      BY AllItemsAre, SMTT(60) DEF GoodBills
    <2>7. a.round = b.round
      BY <2>5, <2>6
    <2>8. a.item = b.item
      BY <2>3, <2>7, AllItemsAre DEF GoodBills, GoodBill
    <2>9. a = b
      BY <2>7, <2>8, AllItemsAre
    <2> QED
      BY <2>1, <2>2, <2>9
  <1> DEFINE h == [m \in M |-> MergeKey(m)]
             e == [m \in M |-> m.cost]
             back == [k \in K |-> CHOOSE m \in M : MergeKey(m) = k]
  <1>11. IsFiniteSet(M)
    <2>1. \A m \in M : \E k \in K : m = back[k]
      <3> SUFFICES ASSUME NEW m \in M PROVE m = back[MergeKey(m)] /\ MergeKey(m) \in K
        OBVIOUS
      <3> HIDE DEF K, M
      <3> QED
        BY <1>9, <1>10
    <2> HIDE DEF M, K, back
    <2> QED
      BY <1>5, <2>1, FiniteImage
  <1>12. Addable(e, M)
    BY <1>9, <1>11 DEF Addable
  <1>13. Cost(M) = Adds(e, M)
    <2>1. \A m \in M : e[m] = m.cost
      OBVIOUS
    <2> HIDE DEF e, M
    <2> QED
      BY <1>12, <2>1, CostIsSum
  <1>14. Adds(e, M) = Adds(C, K)
    <2>1. /\ \A m \in M : h[m] \in K
          /\ \A m, o \in M : h[m] = h[o] => m = o
          /\ \A k \in K : \E m \in M : h[m] = k
          /\ \A m \in M : C[h[m]] = e[m]
      <3> HIDE DEF C, K, M
      <3> QED
        BY <1>8, <1>9, <1>10
    <2> HIDE DEF e, M, h, C, K
    <2> QED
      BY <1>5, <1>12, <2>1, Reindex
  <1> QED
    BY <1>4, <1>6, <1>11, <1>13, <1>14
----------------------------------------------------------------------------
\* A table of numbers adds up to the same by lines and by columns.
Crossed(A, B, f, lines, columns) ==
    \A a \in A, b \in B :
        f[<<a, b>>] \in Int /\ lines[a][b] = f[<<a, b>>] /\ columns[b][a] = f[<<a, b>>]

\* The sum of the lines' sums is that of the columns' sums.
LEMMA SumsSwap ==
    ASSUME NEW A, NEW B, IsFiniteSet(A), IsFiniteSet(B),
           NEW f, NEW lines, NEW columns, Crossed(A, B, f, lines, columns),
           NEW F, \A a \in A : F[a] = Adds(lines[a], B),
           NEW G, \A b \in B : G[b] = Adds(columns[b], A)
    PROVE  Addable(F, A) /\ Addable(G, B) /\ Adds(F, A) = Adds(G, B)
  <1> DEFINE P == A \X B
             first == [p \in P |-> p[1]]
             second == [p \in P |-> p[2]]
  <1>0. \A a \in A, b \in B :
           f[<<a, b>>] \in Int /\ lines[a][b] = f[<<a, b>>] /\ columns[b][a] = f[<<a, b>>]
    BY DEF Crossed
  <1>1. Addable(f, P)
    <2>1. IsFiniteSet(P)
      BY FS_Product
    <2> QED
      BY <1>0, <2>1 DEF Addable
  <1>2. ASSUME NEW a \in A PROVE F[a] = Adds(f, Class(P, first, a))
    <2> DEFINE S == Class(P, first, a)
               e == lines[a]
    <2>1. S \in SUBSET P /\ \A p \in S : p = <<a, p[2]>> /\ p[2] \in B
      BY DEF Class
    <2>2. \A b \in B : <<a, b>> \in S
      BY DEF Class
    <2>3. Addable(f, S)
      BY <1>1, <2>1, FS_Subset DEF Addable
    <2> DEFINE h == [p \in S |-> p[2]]
    <2>4. /\ \A p \in S : h[p] \in B
          /\ \A p, q \in S : h[p] = h[q] => p = q
          /\ \A b \in B : \E p \in S : h[p] = b
          /\ \A p \in S : e[h[p]] = f[p]
      <3> HIDE DEF S
      <3>1. \A p, q \in S : h[p] = h[q] => p = q
        BY <2>1
      <3>2. \A b \in B : <<a, b>> \in S /\ h[<<a, b>>] = b
        BY <2>2
      <3>3. \A p \in S : h[p] \in B /\ e[h[p]] = f[p]
        BY <1>0, <2>1
      <3> QED
        BY <3>1, <3>2, <3>3
    <2>5. F[a] = Adds(e, B)
      OBVIOUS
    <2> HIDE DEF S, e, h
    <2>6. Adds(f, S) = Adds(e, B)
      BY <2>3, <2>4, Reindex
    <2> QED
      BY <2>5, <2>6 DEF S
  <1>3. ASSUME NEW b \in B PROVE G[b] = Adds(f, Class(P, second, b))
    <2> DEFINE S == Class(P, second, b)
               e == columns[b]
    <2>1. S \in SUBSET P /\ \A p \in S : p = <<p[1], b>> /\ p[1] \in A
      BY DEF Class
    <2>2. \A a \in A : <<a, b>> \in S
      BY DEF Class
    <2>3. Addable(f, S)
      BY <1>1, <2>1, FS_Subset DEF Addable
    <2> DEFINE h == [p \in S |-> p[1]]
    <2>4. /\ \A p \in S : h[p] \in A
          /\ \A p, q \in S : h[p] = h[q] => p = q
          /\ \A a \in A : \E p \in S : h[p] = a
          /\ \A p \in S : e[h[p]] = f[p]
      <3> HIDE DEF S
      <3>1. \A p, q \in S : h[p] = h[q] => p = q
        BY <2>1
      <3>2. \A a \in A : <<a, b>> \in S /\ h[<<a, b>>] = a
        BY <2>2
      <3>3. \A p \in S : h[p] \in A /\ e[h[p]] = f[p]
        BY <1>0, <2>1
      <3> QED
        BY <3>1, <3>2, <3>3
    <2>5. G[b] = Adds(e, A)
      OBVIOUS
    <2> HIDE DEF S, e, h
    <2>6. Adds(f, S) = Adds(e, A)
      BY <2>3, <2>4, Reindex
    <2> QED
      BY <2>5, <2>6 DEF S
  <1>4. (\A p \in P : first[p] \in A) /\ (\A p \in P : second[p] \in B)
    OBVIOUS
  <1> HIDE DEF P, first, second
  <1>5. Addable(F, A) /\ Adds(f, P) = Adds(F, A)
    BY <1>1, <1>2, <1>4, Regroup
  <1>6. Addable(G, B) /\ Adds(f, P) = Adds(G, B)
    BY <1>1, <1>3, <1>4, Regroup
  <1> QED
    BY <1>5, <1>6

\* What a usage says of a name: its count, or none.
CountIn(u, n) == IF n \in DOMAIN u THEN u[n] ELSE 0

CountOver(bills, n, S) ==
    MapThenSumSet(LAMBDA i : IF n \in DOMAIN bills[i].usage THEN bills[i].usage[n] ELSE 0, S)

\* The count of one name, over the rounds, is a sum.
LEMMA CountIsSum ==
    ASSUME NEW bills, NEW n, NEW S, NEW f, Addable(f, S),
           \A i \in S : f[i] = CountIn(bills[i].usage, n)
    PROVE  CountOver(bills, n, S) = Adds(f, S)
  <1> DEFINE term(x) == IF n \in DOMAIN bills[x].usage THEN bills[x].usage[n] ELSE 0
             G(g) == g = [s \in SUBSET S |->
                IF s = {} THEN 0
                ELSE term(CHOOSE x \in s : TRUE) + g[s \ {CHOOSE x \in s : TRUE}]]
             h == CHOOSE g : G(g)
  <1>1. CountOver(bills, n, S) = h[S]
    BY DEF CountOver, MapThenSumSet, MapThenFoldSet
  <1>2. \A s \in SUBSET S : s # {} => f[Taken(s)] = term(Taken(s))
    BY TakenIs DEF CountIn
  <1> HIDE DEF term
  <1>3. \A g : G(g) <=> Sums(g, f, S)
    BY <1>2 DEF Sums, SumsOn, Taken
  <1> HIDE DEF G
  <1>4. Sums(h, f, S)
    BY <1>3, SumsExist DEF Addable
  <1> HIDE DEF h
  <1> QED
    BY <1>1, <1>4, SumIs

\* The sums over the rounds of LineIsTheRows.
\* The first of them.
LEMMA RoundCostsIsSum ==
    ASSUME NEW bills, NEW S, S = DOMAIN bills, NEW f, Addable(f, S), \A i \in S : f[i] = Cost(bills[i].items)
    PROVE  RoundCosts(bills) = Adds(f, S)
  <1> DEFINE G(g) == g = [s \in SUBSET S |->
                IF s = {} THEN 0
                ELSE Cost(bills[CHOOSE x \in s : TRUE].items) + g[s \ {CHOOSE x \in s : TRUE}]]
             h == CHOOSE g : G(g)
  <1>1. RoundCosts(bills) = h[S]
    BY DEF RoundCosts, MapThenSumSet, MapThenFoldSet
  <1>2. \A s \in SUBSET S : s # {} => f[Taken(s)] = Cost(bills[Taken(s)].items)
    BY TakenIs
  <1>3. \A g : G(g) <=> Sums(g, f, S)
    BY <1>2 DEF Sums, SumsOn, Taken
  <1> HIDE DEF G
  <1>4. Sums(h, f, S)
    BY <1>3, SumsExist DEF Addable
  <1> HIDE DEF h
  <1> QED
    BY <1>1, <1>4, SumIs

\* The second.
LEMMA RoundTotalsIsSum ==
    ASSUME NEW bills, NEW S, S = DOMAIN bills, NEW f, Addable(f, S),
           \A i \in S : f[i] = UsageTotal(bills[i].usage, << >>)
    PROVE  RoundTotals(bills) = Adds(f, S)
  <1> DEFINE G(g) == g = [s \in SUBSET S |->
                IF s = {} THEN 0
                ELSE UsageTotal(bills[CHOOSE x \in s : TRUE].usage, << >>)
                       + g[s \ {CHOOSE x \in s : TRUE}]]
             h == CHOOSE g : G(g)
  <1>1. RoundTotals(bills) = h[S]
    BY DEF RoundTotals, MapThenSumSet, MapThenFoldSet
  <1>2. \A s \in SUBSET S : s # {} =>
           f[Taken(s)] = UsageTotal(bills[Taken(s)].usage, << >>)
    BY TakenIs
  <1>3. \A g : G(g) <=> Sums(g, f, S)
    BY <1>2 DEF Sums, SumsOn, Taken
  <1> HIDE DEF G
  <1>4. Sums(h, f, S)
    BY <1>3, SumsExist DEF Addable
  <1> HIDE DEF h
  <1> QED
    BY <1>1, <1>4, SumIs

\* Every count of a usage is under the name of no parts.
LEMMA WholeUsage ==
    ASSUME NEW u, IsFiniteSet(DOMAIN u),
           \A n \in DOMAIN u : u[n] \in Int /\ \E P : n \in Seq(P)
    PROVE  Addable(u, DOMAIN u) /\ UsageTotal(u, << >>) = Adds(u, DOMAIN u)
  <1>1. Addable(u, DOMAIN u)
    BY DEF Addable
  <1>2. {n \in DOMAIN u : Under(n, << >>)} = DOMAIN u
    <2> SUFFICES ASSUME NEW n \in DOMAIN u PROVE Under(n, << >>)
      OBVIOUS
    <2>1. PICK P : n \in Seq(P)
      OBVIOUS
    <2>2. Len(<< >>) = 0 /\ Len(n) \in Nat
      BY <2>1
    <2>3. SubSeq(<< >>, 1, 0) = SubSeq(n, 1, 0)
      BY <2>1
    <2> QED
      BY <2>2, <2>3 DEF Under, IsPrefix
  <1>3. UsageTotal(u, << >>) = MapThenSumSet(LAMBDA x : u[x], DOMAIN u)
    BY <1>2 DEF UsageTotal
  <1> QED
    BY <1>1, <1>3, MapIsSum

\* The counts of the rounds add up to the counts of the call.
LEMMA MergedTotals ==
    ASSUME NEW D, IsFiniteSet(D), NEW bills, DOMAIN bills = D,
           \A i \in D : /\ IsFiniteSet(DOMAIN bills[i].usage)
                        /\ \A n \in DOMAIN bills[i].usage :
                              bills[i].usage[n] \in Int /\ \E P : n \in Seq(P),
           NEW F, \A i \in D : F[i] = UsageTotal(bills[i].usage, << >>)
    PROVE  Addable(F, D) /\ UsageTotal(MergedUsage(bills), << >>) = Adds(F, D)
  <1> DEFINE names == UNION {DOMAIN bills[i].usage : i \in D}
             f == [p \in names \X D |-> CountIn(bills[p[2]].usage, p[1])]
             mu == MergedUsage(bills)
             lines == [n \in names |-> [i \in D |-> f[<<n, i>>]]]
             columns == [i \in D |-> [n \in names |-> f[<<n, i>>]]]
  <1>1. IsFiniteSet(names)
    <2> DEFINE T == {DOMAIN bills[i].usage : i \in D}
               g == [i \in D |-> DOMAIN bills[i].usage]
    <2>1. \A t \in T : IsFiniteSet(t)
      OBVIOUS
    <2>2. \A t \in T : \E i \in D : t = g[i]
      OBVIOUS
    <2> HIDE DEF T, g
    <2>3. IsFiniteSet(T)
      BY <2>2, FiniteImage
    <2>4. IsFiniteSet(UNION T)
      BY <2>1, <2>3, FS_UNION
    <2> QED
      BY <2>4 DEF T
  <1>2. \A n \in names, i \in D : f[<<n, i>>] = CountIn(bills[i].usage, n)
    OBVIOUS
  <1>3. \A n \in names, i \in D : f[<<n, i>>] \in Int
    <2> SUFFICES ASSUME NEW n \in names, NEW i \in D PROVE f[<<n, i>>] \in Int
      OBVIOUS
    <2>1. f[<<n, i>>] = CountIn(bills[i].usage, n)
      BY <1>2
    <2> DEFINE u == bills[i].usage
    <2>2. \A m \in DOMAIN u : u[m] \in Int
      OBVIOUS
    <2> HIDE DEF u
    <2>3. CountIn(u, n) \in Int
      BY <2>2 DEF CountIn
    <2> QED
      BY <2>1, <2>3 DEF u
  <1>4. ASSUME NEW n \in names PROVE mu[n] = Adds(lines[n], D)
    <2>1. mu[n] = CountOver(bills, n, D)
      BY DEF MergedUsage, CountOver
    <2> DEFINE e == lines[n]
    <2>2. \A i \in D : e[i] = CountIn(bills[i].usage, n) /\ e[i] \in Int
      BY <1>2, <1>3
    <2> HIDE DEF e, mu
    <2>3. Addable(e, D)
      BY <2>2 DEF Addable
    <2>4. CountOver(bills, n, D) = Adds(e, D)
      BY <2>2, <2>3, CountIsSum
    <2> QED
      BY <2>1, <2>4 DEF e
  <1>5. ASSUME NEW i \in D PROVE F[i] = Adds(columns[i], names)
    <2> DEFINE u == bills[i].usage
               e == columns[i]
    <2>1. \A n \in names : e[n] = CountIn(u, n) /\ e[n] \in Int
      BY <1>2, <1>3
    <2>2. DOMAIN u \in SUBSET names
      OBVIOUS
    <2>3. IsFiniteSet(DOMAIN u) /\ \A n \in DOMAIN u : u[n] \in Int /\ \E P : n \in Seq(P)
      OBVIOUS
    <2>4. F[i] = UsageTotal(u, << >>)
      OBVIOUS
    <2> HIDE DEF e, u, names
    <2>5. Addable(u, DOMAIN u) /\ F[i] = Adds(u, DOMAIN u)
      BY <2>3, <2>4, WholeUsage
    <2>6. Addable(e, names)
      BY <1>1, <2>1 DEF Addable
    <2>7. \A n \in names : n \notin DOMAIN u => e[n] = 0
      BY <2>1 DEF CountIn
    <2>8. Addable(e, DOMAIN u) /\ Adds(e, names) = Adds(e, DOMAIN u)
      BY <2>2, <2>6, <2>7, AddsNonzero
    <2>9. \A n \in DOMAIN u : u[n] = e[n]
      BY <2>1, <2>2 DEF CountIn
    <2>10. Adds(u, DOMAIN u) = Adds(e, DOMAIN u)
      BY <2>5, <2>9, AddsSame
    <2> QED
      BY <2>5, <2>8, <2>10 DEF e
  <1>6. DOMAIN mu = names
    BY DEF MergedUsage
  <1>7. \A n \in names : \E P : n \in Seq(P)
    OBVIOUS
  <1>10. Crossed(names, D, f, lines, columns)
    <2>1. \A n \in names, i \in D :
             lines[n][i] = f[<<n, i>>] /\ columns[i][n] = f[<<n, i>>]
      OBVIOUS
    <2> HIDE DEF names, f, lines, columns
    <2> QED
      BY <1>3, <2>1 DEF Crossed
  <1> HIDE DEF names, f, mu, lines, columns
  <1>8. /\ Addable(mu, names) /\ Addable(F, D) /\ Adds(mu, names) = Adds(F, D)
    BY <1>1, <1>4, <1>5, <1>10, SumsSwap
  <1>9. UsageTotal(mu, << >>) = Adds(mu, DOMAIN mu)
    <2>1. \A n \in DOMAIN mu : mu[n] \in Int /\ \E P : n \in Seq(P)
      BY <1>6, <1>7, <1>8 DEF Addable
    <2> QED
      BY <1>1, <1>6, <2>1, WholeUsage
  <1> QED
    BY <1>6, <1>8, <1>9 DEF mu

\* merged() loses no token and no dollar of any number of rounds and counts none
\* twice, though its key is a name, a usage name and a rate and the rounds were
\* rated under facts of their own; and each line it shows still multiplies out.
LEMMA BillsAreMerged ==
    ASSUME NEW table, Rated(table), NEW n \in Nat, NEW bills, DOMAIN bills = 1..n,
           \A i \in 1..n : GoodRound(bills[i].of) /\ bills[i] = Billing(table, bills[i].of)
    PROVE  /\ Cost(MergedItems(bills)) = RoundCosts(bills)
           /\ UsageTotal(MergedUsage(bills), << >>) = RoundTotals(bills)
           /\ \A i \in MergedItems(bills) : i.cost = UnitCost(table, i) * i.qty
           /\ IsFiniteSet(MergedItems(bills)) /\ \A i \in MergedItems(bills) : i.cost \in Int
           /\ \A i \in MergedItems(bills) : \E k \in 1..n : \E x \in bills[k].items :
                 i.rule = x.rule /\ i.key = x.key
  <1> DEFINE D == DOMAIN bills
             costs == [i \in D |-> Cost(bills[i].items)]
             totals == [i \in D |-> UsageTotal(bills[i].usage, << >>)]
  <1>1. \A i \in D : /\ bills[i].usage = bills[i].of.usage
                     /\ GoodBill(table, bills[i].items)
    BY RoundsAreBilled
  <1>2. GoodBills(table, bills)
    BY <1>1 DEF GoodBills
  <1>3. IsFiniteSet(D)
    BY FS_Interval
  <1>5. \A i \in D : costs[i] = Cost(bills[i].items)
    OBVIOUS
  <1>6. \A i \in D : totals[i] = UsageTotal(bills[i].usage, << >>)
    OBVIOUS
  <1>7. \A i \in D : /\ IsFiniteSet(DOMAIN bills[i].usage)
                     /\ \A m \in DOMAIN bills[i].usage :
                           bills[i].usage[m] \in Int /\ \E P : m \in Seq(P)
    BY <1>1 DEF GoodRound
  <1>4. D = DOMAIN bills
    OBVIOUS
  <1> HIDE DEF costs, totals, D
  <1>8. Cost(MergedItems(bills)) = RoundCosts(bills)
    <2>1. Addable(costs, D) /\ Cost(MergedItems(bills)) = Adds(costs, D)
      BY <1>2, <1>4, <1>5, MergedCosts
    <2> QED
      BY <1>4, <1>5, <2>1, RoundCostsIsSum
  <1>9. UsageTotal(MergedUsage(bills), << >>) = RoundTotals(bills)
    <2>1. Addable(totals, D) /\ UsageTotal(MergedUsage(bills), << >>) = Adds(totals, D)
      BY <1>3, <1>4, <1>6, <1>7, MergedTotals
    <2> QED
      BY <1>4, <1>6, <2>1, RoundTotalsIsSum
  <1>10. \A i \in MergedItems(bills) : i.cost = UnitCost(table, i) * i.qty /\ i.cost \in Int
    BY <1>2, MergedItemsMultiply DEF GoodItem
  <1>11. IsFiniteSet(MergedItems(bills))
    BY <1>2, <1>4, <1>5, MergedCosts
  <1>12. ASSUME NEW m \in MergedItems(bills)
         PROVE  \E k \in 1..n : \E x \in bills[k].items : m.rule = x.rule /\ m.key = x.key
    <2>1. PICK a \in AllItems(bills) : MergedFrom(bills, m, a)
      BY <1>2, MergedItemIs
    <2>2. a.round \in 1..n /\ a.item \in bills[a.round].items
      BY <1>2, AllItemsAre
    <2>3. m.rule = a.item.rule /\ m.key = a.item.key
      BY <2>1 DEF MergedFrom, MergeKey
    <2> QED
      BY <2>2, <2>3
  <1> QED
    BY <1>8, <1>9, <1>10, <1>11, <1>12
----------------------------------------------------------------------------
\* What acc may hold: nothing, or what parse() makes of a reply.
Kept(a) ==
    \/ a = NoAcc
    \/ /\ model.api = "openai" /\ ReplyCounts(a.reply)
       /\ a.usage = OpenAIUsage(a.reply)
       /\ a.tier = a.reply.tier /\ a.charged = a.reply.charged
    \/ /\ model.api = "anthropic" /\ ReplyWrites(a.reply, model.asked)
       /\ a.usage = AnthropicUsage(a.reply, model.asked)
       /\ a.tier = "default" /\ a.charged = Missing

\* The call has a table of rules, and a TTL it can rate or none.
ModelInv ==
    /\ model.api \in {"openai", "anthropic"} /\ Rated(model.table)
    /\ model.asked \in {"off", "5m", "1h"}
    /\ stage # "refused" => CacheTtl(model.table, model.asked) = model.asked

\* Each bill is what billing() makes of what parse() kept.
BillsInv ==
    /\ Kept(acc)
    /\ \A i \in 1..Len(rounds) :
          Kept(rounds[i].of) /\ rounds[i] = Billing(model.table, rounds[i].of)

\* How many rounds are billed and stored, by stage; a round on its way into the
\* tree is the last that was billed.
CountInv ==
    /\ stage = "refused" => rounds = << >>
    /\ stage = "open" => Len(rounds) = index
    /\ stage \in {"storing", "stored", "settled"} =>
          Len(rounds) = index + 1 /\ rounds[index + 1] = Bill
    /\ stage \in {"storing", "stored"} => MayGoOn
    /\ stage \in {"open", "storing", "settled"} => Len(rows) = index
    /\ stage = "stored" => Len(rows) = index + 1
    /\ stage = "answered" => Len(rows) = Len(rounds)

\* The rows of a call that is going well are its bills, each with its cost.
RowsInv ==
    stage \in {"open", "storing", "stored", "settled", "answered"} =>
        \A i \in 1..Len(rows) : rows[i].billed /\ rows[i].bill = rounds[i]

LineInv == stage \in Shown => line = LineOf(rounds, line.partial)

IInv == TypeOK /\ ModelInv /\ BillsInv /\ CountInv /\ RowsInv /\ LineInv

\* A sequence with one more element.
Longer(s, x, t) ==
    /\ t \in Seq(ToSet(t)) /\ Len(s) \in Nat /\ Len(t) = Len(s) + 1
    /\ t[Len(t)] = x /\ \A i \in 1..Len(s) : t[i] = s[i]

LEMMA OneMore ==
    ASSUME NEW s, s \in Seq(ToSet(s)), NEW x, NEW t, t = Append(s, x)
    PROVE  Longer(s, x, t)
  <1> DEFINE S == ToSet(s) \cup {x}
  <1>1. s \in Seq(S) /\ x \in S
    OBVIOUS
  <1>2. t \in Seq(S) /\ Len(s) \in Nat /\ Len(t) = Len(s) + 1
    BY <1>1
  <1>3. t[Len(t)] = x /\ \A i \in 1..Len(s) : t[i] = s[i]
    BY <1>1, <1>2
  <1>4. ToSet(t) = {t[i] : i \in 1..Len(t)}
    BY <1>2 DEF ToSet
  <1>5. t \in Seq(ToSet(t))
    BY <1>2, <1>4
  <1> QED
    BY <1>2, <1>3, <1>5 DEF Longer

\* What parse() makes of a reply may be kept.
LEMMA RepliesAreKept ==
    ASSUME IInv, Reply
    PROVE  Kept(acc)'
  <1>1. CASE model.api = "openai"
    <2>1. PICK reply \in Replies["openai"] :
             acc' = [usage |-> OpenAIUsage(reply), tier |-> reply.tier,
                     charged |-> reply.charged, reply |-> reply]
      BY <1>1 DEF Reply
    <2>2. ReplyCounts(reply)
      BY BillsAssumption
    <2> QED
      BY <1>1, <2>1, <2>2 DEF Kept, Reply
  <1>2. CASE model.api = "anthropic"
    <2>1. PICK reply : /\ ReplyWrites(reply, model.asked)
                       /\ acc' = [NoAcc EXCEPT !.usage = AnthropicUsage(reply, model.asked),
                                               !.reply = reply]
      BY <1>2 DEF Reply
    <2>2. /\ acc'.reply = reply /\ acc'.usage = AnthropicUsage(reply, model.asked)
          /\ acc'.tier = "default" /\ acc'.charged = Missing
      BY <2>1 DEF NoAcc
    <2> QED
      BY <1>2, <2>1, <2>2 DEF Kept, Reply
  <1> QED
    BY <1>1, <1>2 DEF IInv, ModelInv

\* A round that is billed: its bill is the last, and what was kept of it stays.
LEMMA BilledOnce ==
    ASSUME IInv, rounds' = Append(rounds, Bill), UNCHANGED <<model, acc>>
    PROVE  /\ rounds' \in Seq(ToSet(rounds')) /\ Len(rounds) \in Nat
           /\ Len(rounds') = Len(rounds) + 1 /\ rounds'[Len(rounds')] = Bill
           /\ \A i \in 1..Len(rounds) : rounds'[i] = rounds[i]
           /\ BillsInv'
  <1>1. /\ rounds' \in Seq(ToSet(rounds')) /\ Len(rounds) \in Nat
        /\ Len(rounds') = Len(rounds) + 1 /\ rounds'[Len(rounds')] = Bill
        /\ \A i \in 1..Len(rounds) : rounds'[i] = rounds[i]
    <2>1. rounds \in Seq(ToSet(rounds))
      BY DEF IInv, TypeOK
    <2>2. Longer(rounds, Bill, rounds')
      BY <2>1, OneMore
    <2> QED
      BY <2>2 DEF Longer
  <1>2. Bill = Billing(model.table, acc) /\ Bill.of = acc
    BY DEF Bill, Billing
  <1>3. \A a : Kept(a)' <=> Kept(a)
    BY DEF Kept
  <1>4. Kept(acc) /\ Kept(acc)'
    BY DEF IInv, BillsInv, Kept
  <1>5. ASSUME NEW i \in 1..Len(rounds')
        PROVE  Kept(rounds'[i].of) /\ rounds'[i] = Billing(model.table, rounds'[i].of)
    <2>1. CASE i = Len(rounds')
      BY <1>1, <1>2, <1>4, <2>1
    <2>2. CASE i # Len(rounds')
      <3>1. i \in 1..Len(rounds)
        BY <1>1, <2>2
      <3> QED
        BY <1>1, <3>1 DEF IInv, BillsInv
    <2> QED
      BY <2>1, <2>2
  <1>6. BillsInv'
    BY <1>4, <1>5 DEF BillsInv, Kept
  <1> QED
    BY <1>1, <1>6

\* A call can only bill what came, once, and store what it billed.
LEMMA InitHolds == Init => IInv
  <1> SUFFICES ASSUME Init PROVE IInv
    OBVIOUS
  <1>1. PICK e \in Entries, asked \in {"off", "5m", "1h"} :
           model = [api |-> e.api, table |-> Table(e), asked |-> asked]
    BY DEF Init
  <1>2. /\ model.api \in {"openai", "anthropic"} /\ Rated(model.table)
        /\ model.asked \in {"off", "5m", "1h"}
    BY <1>1, BillsAssumption
  <1>3. stage # "refused" => CacheTtl(model.table, model.asked) = model.asked
    BY DEF Init, CacheTtl
  <1>4. /\ rounds = << >> /\ rows = << >> /\ index = 0 /\ acc = NoAcc
        /\ stage \in {"refused", "open"}
    BY DEF Init
  <1>5. << >> \in Seq(ToSet(<< >>)) /\ Len(<< >>) = 0
    OBVIOUS
  <1>6. MaxRounds \in Nat \ {0}
    BY BillsAssumption
  <1> QED
    BY <1>2, <1>3, <1>4, <1>5, <1>6
       DEF IInv, TypeOK, ModelInv, BillsInv, CountInv, RowsInv, LineInv, Kept, Shown

LEMMA NextHolds == IInv /\ [Next]_vars => IInv'
  <1> SUFFICES ASSUME IInv, [Next]_vars PROVE IInv'
    OBVIOUS
  <1>1. MaxRounds \in Nat \ {0}
    BY BillsAssumption
  <1>2. /\ index \in Nat /\ Len(rounds) \in Nat /\ Len(rows) \in Nat
        /\ rounds \in Seq(ToSet(rounds)) /\ rows \in Seq(ToSet(rows))
    BY <1>1 DEF IInv, TypeOK
  <1>3. CASE Reply
    <2>1. Kept(acc)' /\ UNCHANGED <<model, stage, index, rounds, rows, line>> /\ stage = "open"
      BY <1>3, RepliesAreKept DEF Reply, At
    <2>2. BillsInv'
      BY <2>1 DEF IInv, BillsInv, Kept
    <2> QED
      BY <2>1, <2>2 DEF IInv, TypeOK, ModelInv, CountInv, RowsInv, LineInv, LineOf, Shown
  <1>4. CASE Tools
    <2>1. /\ rounds' \in Seq(ToSet(rounds')) /\ Len(rounds') = Len(rounds) + 1
          /\ rounds'[Len(rounds')] = Bill /\ \A i \in 1..Len(rounds) : rounds'[i] = rounds[i]
          /\ BillsInv'
      BY <1>4, BilledOnce DEF Tools
    <2>2. /\ stage = "open" /\ stage' = "storing" /\ MayGoOn
          /\ UNCHANGED <<model, index, acc, rows, line>>
      BY <1>4 DEF Tools, At
    <2>3. Bill' = Bill /\ MayGoOn'
      BY <2>2 DEF Bill, MayGoOn
    <2>4. Len(rounds) = index /\ Len(rows) = index
      BY <2>2 DEF IInv, CountInv
    <2>5. TypeOK' /\ ModelInv' /\ LineInv'
      BY <1>2, <2>1, <2>2, <2>4 DEF IInv, TypeOK, ModelInv, LineInv, Shown
    <2>6. CountInv'
      BY <1>2, <2>1, <2>2, <2>3, <2>4 DEF CountInv
    <2>7. RowsInv'
      BY <1>2, <2>1, <2>2, <2>4 DEF IInv, RowsInv
    <2> QED
      BY <2>1, <2>5, <2>6, <2>7 DEF IInv
  <1>5. CASE Store
    <2>1. /\ stage = "storing" /\ stage' = "stored" /\ rows' = Append(rows, Row(Bill, TRUE))
          /\ UNCHANGED <<model, index, acc, rounds, line>>
      BY <1>5 DEF Store, At
    <2>2. /\ rows' \in Seq(ToSet(rows')) /\ Len(rows') = Len(rows) + 1
          /\ rows'[Len(rows')] = Row(Bill, TRUE) /\ \A i \in 1..Len(rows) : rows'[i] = rows[i]
      <3>1. Longer(rows, Row(Bill, TRUE), rows')
        BY <1>2, <2>1, OneMore
      <3> QED
        BY <3>1 DEF Longer
    <2>3. /\ Len(rounds) = index + 1 /\ rounds[index + 1] = Bill /\ MayGoOn
          /\ Len(rows) = index
      BY <2>1 DEF IInv, CountInv
    <2>4. Bill' = Bill /\ MayGoOn'
      BY <2>1, <2>3 DEF Bill, MayGoOn
    <2>5. TypeOK'
      <3>1. index' \in 0..(MaxRounds - 1) /\ Len(rows') \in index'..Len(rounds')
        BY <1>2, <2>1, <2>2, <2>3 DEF IInv, TypeOK
      <3>2. rounds' \in Seq(ToSet(rounds')) /\ Len(rounds') \in index'..(index' + 2)
        BY <2>1 DEF IInv, TypeOK
      <3> QED
        BY <2>1, <2>2, <3>1, <3>2 DEF TypeOK
    <2>8. ModelInv' /\ LineInv'
      BY <2>1 DEF IInv, ModelInv, LineInv, Shown
    <2>6. CountInv' /\ BillsInv'
      BY <1>2, <2>1, <2>2, <2>3, <2>4 DEF IInv, CountInv, BillsInv, Kept
    <2>7. RowsInv'
      <3>1. ASSUME NEW i \in 1..Len(rows') PROVE rows'[i].billed /\ rows'[i].bill = rounds'[i]
        <4>1. CASE i = index + 1
          BY <2>1, <2>2, <2>3, <4>1 DEF Row
        <4>2. CASE i # index + 1
          <5>1. i \in 1..Len(rows)
            BY <1>2, <2>2, <2>3, <4>2
          <5> QED
            BY <2>1, <2>2, <5>1 DEF IInv, RowsInv
        <4> QED
          BY <4>1, <4>2
      <3> QED
        BY <3>1 DEF RowsInv
    <2> QED
      BY <2>5, <2>6, <2>7, <2>8 DEF IInv
  <1>6. CASE NextRound
    <2>1. /\ stage = "stored" /\ stage' = "open" /\ index' = index + 1 /\ acc' = NoAcc
          /\ UNCHANGED <<model, rounds, rows, line>>
      BY <1>6 DEF NextRound, At
    <2>2. Len(rounds) = index + 1 /\ Len(rows) = index + 1 /\ MayGoOn
      BY <2>1 DEF IInv, CountInv
    <2>3. TypeOK' /\ ModelInv' /\ LineInv'
      BY <1>1, <1>2, <2>1, <2>2 DEF IInv, TypeOK, ModelInv, LineInv, Shown, MayGoOn
    <2>4. CountInv' /\ BillsInv' /\ RowsInv'
      BY <1>2, <2>1, <2>2 DEF IInv, CountInv, BillsInv, RowsInv, Kept
    <2> QED
      BY <2>3, <2>4 DEF IInv
  <1>12. CASE Settle
    <2>1. /\ rounds' \in Seq(ToSet(rounds')) /\ Len(rounds') = Len(rounds) + 1
          /\ rounds'[Len(rounds')] = Bill /\ \A i \in 1..Len(rounds) : rounds'[i] = rounds[i]
          /\ BillsInv'
      BY <1>12, BilledOnce DEF Settle
    <2>2. /\ stage = "open" /\ stage' = "settled"
          /\ UNCHANGED <<model, index, acc, rows, line>>
      BY <1>12 DEF Settle, At
    <2>3. Bill' = Bill
      BY <2>2 DEF Bill
    <2>4. Len(rounds) = index /\ Len(rows) = index
      BY <2>2 DEF IInv, CountInv
    <2>5. TypeOK' /\ ModelInv' /\ LineInv'
      BY <1>2, <2>1, <2>2, <2>4 DEF IInv, TypeOK, ModelInv, LineInv, Shown
    <2>6. CountInv'
      BY <1>2, <2>1, <2>2, <2>3, <2>4 DEF CountInv
    <2>7. RowsInv'
      BY <1>2, <2>1, <2>2, <2>4 DEF IInv, RowsInv
    <2> QED
      BY <2>1, <2>5, <2>6, <2>7 DEF IInv
  <1>7. ASSUME NEW ok \in BOOLEAN, Answer(ok) PROVE IInv'
    <2>2. /\ stage = "settled" /\ rows' = Append(rows, Row(Bill, ok))
          /\ line' = IF ok THEN LineOf(rounds, FALSE) ELSE line
          /\ stage' = IF ok THEN "answered" ELSE "failed"
          /\ UNCHANGED <<model, index, acc, rounds>>
      BY <1>7 DEF Answer, At
    <2>3. /\ rows' \in Seq(ToSet(rows')) /\ Len(rows') = Len(rows) + 1
          /\ rows'[Len(rows')] = Row(Bill, ok) /\ \A i \in 1..Len(rows) : rows'[i] = rows[i]
      <3>1. Longer(rows, Row(Bill, ok), rows')
        BY <1>2, <2>2, OneMore
      <3> QED
        BY <3>1 DEF Longer
    <2>4. Len(rounds) = index + 1 /\ rounds[index + 1] = Bill /\ Len(rows) = index
      BY <2>2 DEF IInv, CountInv
    <2>5. TypeOK'
      <3>1. index' \in 0..(MaxRounds - 1) /\ Len(rows') \in index'..Len(rounds')
        BY <1>2, <2>2, <2>3, <2>4 DEF IInv, TypeOK
      <3>2. rounds' \in Seq(ToSet(rounds')) /\ Len(rounds') \in index'..(index' + 2)
        BY <2>2 DEF IInv, TypeOK
      <3> QED
        BY <2>2, <2>3, <3>1, <3>2 DEF TypeOK, Shown
    <2>8. ModelInv' /\ BillsInv'
      BY <2>2 DEF IInv, ModelInv, BillsInv, Kept
    <2>6. CountInv' /\ LineInv'
      BY <1>2, <2>2, <2>3, <2>4 DEF CountInv, LineInv, Shown, LineOf
    <2>7. RowsInv'
      <3>1. ASSUME ok, NEW i \in 1..Len(rows') PROVE rows'[i].billed /\ rows'[i].bill = rounds'[i]
        <4>1. CASE i = index + 1
          BY <2>2, <2>3, <2>4, <3>1, <4>1 DEF Row
        <4>2. CASE i # index + 1
          <5>1. i \in 1..Len(rows)
            BY <1>2, <2>3, <2>4, <4>2
          <5> QED
            BY <2>2, <2>3, <5>1 DEF IInv, RowsInv
        <4> QED
          BY <4>1, <4>2
      <3> QED
        BY <2>2, <3>1 DEF RowsInv
    <2> QED
      BY <2>5, <2>6, <2>7, <2>8 DEF IInv
  <1>8. CASE Fail
    <2>1. /\ rounds' \in Seq(ToSet(rounds')) /\ Len(rounds') = Len(rounds) + 1
          /\ rounds'[Len(rounds')] = Bill /\ \A i \in 1..Len(rounds) : rounds'[i] = rounds[i]
          /\ BillsInv'
      BY <1>8, BilledOnce DEF Fail
    <2>2. /\ stage \in {"open"} /\ rows' = Append(rows, Row(Bill, FALSE))
          /\ line' = line /\ stage' = "failed"
          /\ UNCHANGED <<model, index, acc>>
      BY <1>8 DEF Fail, At
    <2>3. rows' \in Seq(ToSet(rows')) /\ Len(rows') = Len(rows) + 1
      <3>1. Longer(rows, Row(Bill, FALSE), rows')
        BY <1>2, <2>2, OneMore
      <3> QED
        BY <3>1 DEF Longer
    <2>4. Len(rounds) \in index..(index + 1) /\ Len(rows) \in index..Len(rounds)
      BY <1>2, <2>2 DEF IInv, CountInv
    <2>5. TypeOK'
      <3>1. index' \in 0..(MaxRounds - 1)
        BY <2>2 DEF IInv, TypeOK
      <3>2. Len(rounds') \in index'..(index' + 2) /\ Len(rows') \in index'..Len(rounds')
        BY <1>2, <2>1, <2>2, <2>3, <2>4
      <3> QED
        BY <2>1, <2>2, <2>3, <3>1, <3>2 DEF TypeOK, Shown
    <2>8. ModelInv'
      BY <2>2 DEF IInv, ModelInv
    <2>6. CountInv' /\ RowsInv' /\ LineInv'
      BY <2>2 DEF CountInv, RowsInv, LineInv, LineOf, Shown
    <2> QED
      BY <2>1, <2>5, <2>6, <2>8 DEF IInv
  <1>9. CASE Cancel
    <2>1. /\ rounds' \in Seq(ToSet(rounds')) /\ Len(rounds') = Len(rounds) + 1
          /\ rounds'[Len(rounds')] = Bill /\ \A i \in 1..Len(rounds) : rounds'[i] = rounds[i]
          /\ BillsInv'
      BY <1>9, BilledOnce DEF Cancel
    <2>2. /\ stage \in {"open", "storing", "stored", "settled"}
          /\ rows' = Append(rows, Row(Bill, FALSE))
          /\ line' = LineOf(rounds', TRUE) /\ stage' = "cancelled"
          /\ UNCHANGED <<model, index, acc>>
      BY <1>9 DEF Cancel, At
    <2>3. rows' \in Seq(ToSet(rows')) /\ Len(rows') = Len(rows) + 1
      <3>1. Longer(rows, Row(Bill, FALSE), rows')
        BY <1>2, <2>2, OneMore
      <3> QED
        BY <3>1 DEF Longer
    <2>4. Len(rounds) \in index..(index + 1) /\ Len(rows) \in index..Len(rounds)
      BY <1>2, <2>2 DEF IInv, CountInv
    <2>5. TypeOK'
      <3>1. index' \in 0..(MaxRounds - 1)
        BY <2>2 DEF IInv, TypeOK
      <3>2. Len(rounds') \in index'..(index' + 2) /\ Len(rows') \in index'..Len(rounds')
        BY <1>2, <2>1, <2>2, <2>3, <2>4
      <3> QED
        BY <2>1, <2>2, <2>3, <3>1, <3>2 DEF TypeOK, Shown
    <2>8. ModelInv'
      BY <2>2 DEF IInv, ModelInv
    <2>6. CountInv' /\ RowsInv' /\ LineInv'
      BY <2>2 DEF CountInv, RowsInv, LineInv, LineOf, Shown
    <2> QED
      BY <2>1, <2>5, <2>6, <2>8 DEF IInv
  <1>10. CASE Tie
    <2>1. /\ stage = "open" /\ stage' = "crashed"
          /\ UNCHANGED <<model, index, acc, rounds, rows, line>>
      BY <1>10 DEF Tie, At
    <2> QED
      BY <2>1 DEF IInv, TypeOK, ModelInv, BillsInv, CountInv, RowsInv, LineInv, Kept, Shown
  <1>11. CASE UNCHANGED vars
    BY <1>11 DEF vars, IInv, TypeOK, ModelInv, BillsInv, CountInv, RowsInv, LineInv, Kept,
                 Bill, MayGoOn, LineOf, Shown
  <1> QED
    BY <1>3, <1>4, <1>5, <1>6, <1>7, <1>8, <1>9, <1>10, <1>11, <1>12 DEF Next

\* What a call has billed, stored and shown (IInv) is an inductive invariant.
THEOREM BillsAreKept == Spec => []IInv
  BY InitHolds, NextHolds, PTL DEF Spec

\* TypeOK, for any number of rounds: the loop ends at MaxRounds, no row is
\* stored that was not billed, and at most one round is billed again.
THEOREM BillsTypeOK == Spec => []TypeOK
  <1>1. IInv => TypeOK
    BY DEF IInv
  <1> QED
    BY <1>1, BillsAreKept, PTL
----------------------------------------------------------------------------
\* What a bill of each protocol is made of.
LEMMA BillIs ==
    ASSUME IInv, NEW i \in DOMAIN rounds, rounds[i].of.reply # Nothing
    PROVE  /\ i \in 1..Len(rounds)
           /\ model.api = "openai" =>
                 /\ ReplyCounts(rounds[i].of.reply)
                 /\ rounds[i].of.usage = OpenAIUsage(rounds[i].of.reply)
           /\ model.api = "anthropic" =>
                 /\ ReplyWrites(rounds[i].of.reply, model.asked)
                 /\ rounds[i].of.usage = AnthropicUsage(rounds[i].of.reply, model.asked)
                 /\ rounds[i].of.tier = "default" /\ rounds[i].of.charged = Missing
           /\ rounds[i].of.charged = Missing =>
                 rounds[i].items = Rate(model.table, rounds[i].of.usage,
                                        Facts(rounds[i].of.usage, rounds[i].of.tier))
  <1>1. i \in 1..Len(rounds)
    BY DEF IInv, TypeOK
  <1>2. Kept(rounds[i].of) /\ rounds[i] = Billing(model.table, rounds[i].of)
    BY <1>1 DEF IInv, BillsInv
  <1>3. rounds[i].of # NoAcc
    BY DEF NoAcc
  <1>4. rounds[i].of.charged = Missing =>
           rounds[i].items = Rate(model.table, rounds[i].of.usage,
                                  Facts(rounds[i].of.usage, rounds[i].of.tier))
    BY <1>2 DEF Billing
  <1> QED
    BY <1>1, <1>2, <1>3, <1>4 DEF Kept

\* TokensBilledOnce for every table and every reply whose subsets are within its
\* totals, in any number of rounds: openai_usage() splits the totals into
\* disjoint names, and rate() bills each of them by exactly one rule.
THEOREM EveryTokenIsBilledOnce == Spec => []TokensBilledOnce
  <1>1. ASSUME IInv PROVE TokensBilledOnce
    <2> SUFFICES ASSUME model.api = "openai", NEW i \in DOMAIN rounds,
                        rounds[i].of.reply # Nothing, rounds[i].of.charged = Missing
                 PROVE  /\ Priced(model.table, In) =>
                             Counted({x \in rounds[i].items : Under(x.key, In)})
                                = rounds[i].of.reply.prompt
                        /\ Priced(model.table, Out) =>
                             Counted({x \in rounds[i].items : Under(x.key, Out)})
                                = rounds[i].of.reply.completion
      BY DEF TokensBilledOnce
    <2>1. Rated(model.table)
      BY <1>1 DEF IInv, ModelInv
    <2>2. /\ ReplyCounts(rounds[i].of.reply)
          /\ rounds[i].of.usage = OpenAIUsage(rounds[i].of.reply)
          /\ rounds[i].items = Rate(model.table, rounds[i].of.usage,
                                    Facts(rounds[i].of.usage, rounds[i].of.tier))
      BY <1>1, BillIs
    <2> DEFINE bill == rounds[i].items
               reply == rounds[i].of.reply
               tier == rounds[i].of.tier
    <2>3. bill = Rate(model.table, OpenAIUsage(reply), Facts(OpenAIUsage(reply), tier))
      BY <2>2
    <2>4. ReplyCounts(reply)
      BY <2>2
    <2> HIDE DEF bill, reply, tier
    <2>5. /\ Priced(model.table, In) =>
                Counted({x \in bill : Under(x.key, In)}) = reply.prompt
          /\ Priced(model.table, Out) =>
                Counted({x \in bill : Under(x.key, Out)}) = reply.completion
      BY <2>1, <2>3, <2>4, TokensAreBilled
    <2> QED
      BY <2>5 DEF bill, reply
  <1> QED
    BY <1>1, BillsAreKept, PTL

\* CacheWritesBilled for every table and every TTL that cache_ttl() accepts.
THEOREM EveryWriteIsBilled == Spec => []CacheWritesBilled
  <1>1. ASSUME IInv PROVE CacheWritesBilled
    <2> SUFFICES ASSUME model.api = "anthropic", model.asked # "off",
                        PlainFor(model.table, CacheWrite(model.asked)),
                        NEW i \in DOMAIN rounds, rounds[i].of.reply # Nothing
                 PROVE  Counted({x \in rounds[i].items : x.rule = CacheWrite(model.asked)})
                           = rounds[i].of.reply.written
      BY DEF CacheWritesBilled
    <2>1. Rated(model.table)
      BY <1>1 DEF IInv, ModelInv
    <2>2. /\ ReplyWrites(rounds[i].of.reply, model.asked)
          /\ rounds[i].of.usage = AnthropicUsage(rounds[i].of.reply, model.asked)
          /\ rounds[i].of.tier = "default"
          /\ rounds[i].items = Rate(model.table, rounds[i].of.usage,
                                    Facts(rounds[i].of.usage, rounds[i].of.tier))
      BY <1>1, BillIs
    <2>3. model.asked \in CacheTtls(model.table)
      <3>1. i \in 1..Len(rounds)
        BY <1>1, BillIs
      <3>2. stage # "refused"
        BY <1>1, <3>1 DEF IInv, CountInv
      <3> QED
        BY <1>1, <3>2 DEF IInv, ModelInv, CacheTtl
    <2> DEFINE bill == rounds[i].items
               reply == rounds[i].of.reply
    <2>4. bill = Rate(model.table, AnthropicUsage(reply, model.asked),
                      Facts(AnthropicUsage(reply, model.asked), "default"))
      BY <2>2
    <2>5. ReplyWrites(reply, model.asked)
      BY <2>2
    <2> HIDE DEF bill, reply
    <2>6. Counted({x \in bill : x.rule = CacheWrite(model.asked)}) = reply.written
      BY <2>1, <2>3, <2>4, <2>5, WritesAreBilled
    <2> QED
      BY <2>6 DEF bill, reply
  <1> QED
    BY <1>1, BillsAreKept, PTL

\* The usage that tokens() makes of finitely many distinct names is one that
\* can be added up.
LEMMA TokensAddUp ==
    ASSUME NEW counts, \A p, q \in counts : p[1] = q[1] => p = q,
           \A p \in counts : p[2] \in Int, NEW names, IsFiniteSet(names),
           \A p \in counts : p[1] \in names, NEW u, u = Tokens(counts)
    PROVE  /\ IsFiniteSet(DOMAIN u) /\ DOMAIN u \subseteq names
           /\ \A n \in DOMAIN u : u[n] \in Int
  <1>1. /\ DOMAIN u \subseteq {p[1] : p \in counts}
        /\ \A p \in counts : HasCount(u, p[1], p[2])
    BY TokensCount
  <1>2. IsFiniteSet(DOMAIN u) /\ DOMAIN u \subseteq names
    BY <1>1, FS_Subset
  <1> QED
    BY <1>1, <1>2 DEF HasCount

\* The names of usages, that each is of one direction, and how many there are.
Names == {In, CacheRead, Out, Reasoning} \cup {CacheWrite(t) : t \in {"off", "5m", "1h"}}

LEMMA NamesAre ==
    /\ IsFiniteSet(Names)
    /\ \A n \in Names : \E P : n \in Seq(P)
    /\ \A n \in Names : Under(n, In) <=> ~ Under(n, Out)
  <1>1. Names = {In, CacheRead, Out, Reasoning, CacheWrite("off"), CacheWrite("5m"), CacheWrite("1h")}
    BY DEF Names
  <1>2. Names = (((((({} \cup {In}) \cup {CacheRead}) \cup {Out}) \cup {Reasoning})
                  \cup {CacheWrite("off")}) \cup {CacheWrite("5m")}) \cup {CacheWrite("1h")}
    BY <1>1
  <1>3. IsFiniteSet(Names)
    BY <1>2, FS_EmptySet, FS_AddElement, Zenon
  <1>4. In \in Seq({"in"}) /\ Out \in Seq({"out"}) /\ Reasoning \in Seq({"out", "reasoning"})
        /\ CacheRead \in Seq({"in", "cache_read"})
    BY DEF In, Out, Reasoning, CacheRead
  <1>5. \A t : CacheWrite(t) \in Seq({"in", "cache_write", t})
    BY DEF CacheWrite
  <1>6. \A t : Under(CacheWrite(t), In) /\ ~ Under(CacheWrite(t), Out)
    BY DEF CacheWrite, Under, IsPrefix, In, Out
  <1>7. \A n \in Names : \E P : n \in Seq(P)
    <2>1. \A t : \E P : CacheWrite(t) \in Seq(P)
      BY <1>5, Zenon
    <2>2. \A n \in {In, CacheRead, Out, Reasoning} : \E P : n \in Seq(P)
      BY <1>4, Zenon
    <2> QED
      BY <2>1, <2>2, Zenon DEF Names
  <1>8. ~ Under(In, Out) /\ ~ Under(CacheRead, Out) /\ ~ Under(Out, In) /\ ~ Under(Reasoning, In)
        /\ Under(In, In) /\ Under(CacheRead, In) /\ Under(Out, Out) /\ Under(Reasoning, Out)
    BY NamesNest
  <1>9. \A n \in Names : Under(n, In) <=> ~ Under(n, Out)
    BY <1>6, <1>8 DEF Names
  <1> QED
    BY <1>3, <1>7, <1>9

\* Whatever is kept is a round that can be billed, of these names.
LEMMA KeptIsGood ==
    ASSUME IInv, NEW a, Kept(a)
    PROVE  GoodRound(a) /\ DOMAIN a.usage \subseteq Names
  <1>1. CASE a = NoAcc
    <2> DEFINE none == {}
    <2>1. a.usage = Tokens(none) /\ a.charged = Missing
      BY <1>1 DEF NoAcc
    <2>2. /\ \A p, q \in none : p[1] = q[1] => p = q
          /\ \A p \in none : p[2] \in Int /\ p[1] \in Names
      OBVIOUS
    <2> HIDE DEF none
    <2>3. /\ IsFiniteSet(DOMAIN a.usage) /\ DOMAIN a.usage \subseteq Names
          /\ \A n \in DOMAIN a.usage : a.usage[n] \in Int
      BY <2>1, <2>2, NamesAre, TokensAddUp
    <2> QED
      BY <2>1, <2>3, NamesAre DEF GoodRound, Missing
  <1>2. CASE model.api = "openai" /\ a # NoAcc
    <2> DEFINE r == a.reply
               left == r.prompt - Max({r.cached, 0})
               said == r.completion - Max({r.reasoning, 0})
               counts == {<<In, left>>, <<CacheRead, r.cached>>,
                          <<Out, said>>, <<Reasoning, r.reasoning>>}
    <2>1. a.usage = Tokens(counts) /\ ReplyCounts(r) /\ a.charged = r.charged
      BY <1>2 DEF Kept, OpenAIUsage
    <2>2. \A n \in Nat \cup {Missing} : Max({n, 0}) \in Int
      <3> SUFFICES ASSUME NEW n \in Nat \cup {Missing} PROVE Max({n, 0}) \in Int
        OBVIOUS
      <3>1. \E m \in {n, 0} : \A y \in {n, 0} : m >= y
        BY DEF Missing
      <3>2. Max({n, 0}) \in {n, 0}
        BY <3>1 DEF Max
      <3> QED
        BY <3>2 DEF Missing
    <2>3. left \in Int /\ said \in Int /\ r.cached \in Int /\ r.reasoning \in Int
      BY <2>1, <2>2 DEF ReplyCounts, Missing
    <2> HIDE DEF left, said, r
    <2>4. /\ \A p, q \in counts : p[1] = q[1] => p = q
          /\ \A p \in counts : p[2] \in Int /\ p[1] \in Names
      BY <2>3, NamesDiffer DEF Names
    <2> HIDE DEF counts
    <2>5. /\ IsFiniteSet(DOMAIN a.usage) /\ DOMAIN a.usage \subseteq Names
          /\ \A n \in DOMAIN a.usage : a.usage[n] \in Int
      BY <2>1, <2>4, NamesAre, TokensAddUp
    <2> QED
      BY <2>1, <2>5, NamesAre DEF GoodRound, Missing, ReplyCounts
  <1>3. CASE model.api = "anthropic" /\ a # NoAcc
    <2> DEFINE r == a.reply
               writes == WriteCounts(r, model.asked)
               counts == {<<In, r.input>>, <<CacheRead, r.read>>, <<Out, r.output>>} \cup writes
    <2>1. a.usage = Tokens(counts) /\ ReplyWrites(r, model.asked) /\ a.charged = Missing
      BY <1>3 DEF Kept, AnthropicUsage
    <2>2. /\ \A p \in writes : p[2] \in Int /\ p[1] \in Names /\ Len(p[1]) = 3
          /\ \A p, q \in writes : p[1] = q[1] => p = q
      <3>1. \A p \in writes : \E t \in {"off", "5m", "1h"} :
               p[1] = CacheWrite(t) /\ p[2] \in {r.five, r.hour, r.written}
        BY DEF WriteCounts, IInv, ModelInv
      <3>2. \A p, q \in writes : p[1] = q[1] => p = q
        BY WriteNames DEF WriteCounts
      <3> HIDE DEF writes
      <3> QED
        BY <2>1, <3>1, <3>2, WriteNames DEF Names, ReplyWrites
    <2>3. r.input \in Int /\ r.read \in Int /\ r.output \in Int
      BY <2>1 DEF ReplyWrites
    <2> HIDE DEF r, writes
    <2>4. /\ \A p, q \in counts : p[1] = q[1] => p = q
          /\ \A p \in counts : p[2] \in Int /\ p[1] \in Names
      <3> DEFINE others == {<<In, r.input>>, <<CacheRead, r.read>>, <<Out, r.output>>}
      <3>1. \A p, q \in others : p[1] = q[1] => p = q
        BY NamesDiffer
      <3>2. \A p \in others : Len(p[1]) # 3 /\ p[2] \in Int /\ p[1] \in Names
        BY <2>3, NamesDiffer DEF Names
      <3> HIDE DEF others
      <3> QED
        BY <2>2, <3>1, <3>2 DEF others
    <2> HIDE DEF counts
    <2>5. /\ IsFiniteSet(DOMAIN a.usage) /\ DOMAIN a.usage \subseteq Names
          /\ \A n \in DOMAIN a.usage : a.usage[n] \in Int
      BY <2>1, <2>4, NamesAre, TokensAddUp
    <2> QED
      BY <2>1, <2>5, NamesAre DEF GoodRound, Missing
  <1> QED
    BY <1>1, <1>2, <1>3 DEF IInv, ModelInv

\* What is shown is made of the bills, as BillsAreMerged has it.
LEMMA LineIsMerged ==
    ASSUME IInv, stage \in Shown
    PROVE  /\ Cost(line.items) = RoundCosts(rounds)
           /\ UsageTotal(line.usage, << >>) = RoundTotals(rounds)
           /\ \A i \in line.items : i.cost = UnitCost(model.table, i) * i.qty
           /\ IsFiniteSet(line.items) /\ \A i \in line.items : i.cost \in Int
           /\ \A i \in line.items : \E k \in 1..Len(rounds) : \E x \in rounds[k].items :
                 i.rule = x.rule /\ i.key = x.key
  <1>1. DOMAIN rounds = 1..Len(rounds) /\ Len(rounds) \in Nat
    BY DEF IInv, TypeOK
  <1>2. \A i \in 1..Len(rounds) :
           GoodRound(rounds[i].of) /\ rounds[i] = Billing(model.table, rounds[i].of)
    BY KeptIsGood DEF IInv, BillsInv
  <1>3. Rated(model.table)
    BY DEF IInv, ModelInv
  <1>4. line.items = MergedItems(rounds) /\ line.usage = MergedUsage(rounds)
    BY DEF IInv, LineInv, LineOf
  <1> QED
    BY <1>1, <1>2, <1>3, <1>4, BillsAreMerged

\* LineIsTheRows for every table and any number of rounds, rated under facts of
\* their own or billed by the provider: merging them loses and repeats nothing,
\* and of an answered call every bill is in a row of its own.
THEOREM RoundsReadAsOneCall == Spec => []LineIsTheRows
  <1>1. ASSUME IInv PROVE LineIsTheRows
    <2>1. ASSUME stage = "answered"
          PROVE  /\ \A i \in DOMAIN rows : rows[i].billed
                 /\ rounds = [i \in DOMAIN rows |-> rows[i].bill]
      <3>1. /\ DOMAIN rows = 1..Len(rows) /\ DOMAIN rounds = 1..Len(rounds)
            /\ rounds = [i \in 1..Len(rounds) |-> rounds[i]] /\ Len(rows) = Len(rounds)
        BY <1>1, <2>1 DEF IInv, TypeOK, CountInv
      <3>2. \A i \in 1..Len(rows) : rows[i].billed /\ rows[i].bill = rounds[i]
        BY <1>1, <2>1 DEF IInv, RowsInv
      <3> QED
        BY <3>1, <3>2
    <2> QED
      BY <1>1, <2>1, LineIsMerged DEF LineIsTheRows, At
  <1> QED
    BY <1>1, BillsAreKept, PTL

\* Two elements are a finite set.
LEMMA TwoOfThem ==
    ASSUME NEW x, NEW y
    PROVE  IsFiniteSet({x, y})
  <1>1. {x, y} = ({} \cup {x}) \cup {y}
    OBVIOUS
  <1> QED
    BY <1>1, FS_EmptySet, FS_AddElement, ZenonT(60)

\* The dollars of some items are those of a part of them and of the rest.
LEMMA CostSplits ==
    ASSUME NEW S, IsFiniteSet(S), \A x \in S : x.cost \in Int,
           NEW A \in SUBSET S, NEW B, B = S \ A
    PROVE  Cost(S) = Cost(A) + Cost(B)
  <1> DEFINE f == [x \in S |-> x.cost]
             h == [x \in S |-> IF x \in A THEN 1 ELSE 2]
             F == [k \in {1, 2} |-> IF k = 1 THEN Adds(f, A) ELSE Adds(f, B)]
  <1>1. Addable(f, S) /\ Addable(f, A) /\ Addable(f, B)
    BY FS_Subset DEF Addable
  <1>2. Class(S, h, 1) = A /\ Class(S, h, 2) = B
    BY DEF Class
  <1>3. IsFiniteSet({1, 2})
    BY TwoOfThem
  <1>4. /\ \A x \in S : h[x] \in {1, 2}
        /\ F[1] = Adds(f, A) /\ F[2] = Adds(f, B)
    OBVIOUS
  <1>5. \A x \in S : f[x] = x.cost
    OBVIOUS
  <1> HIDE DEF f, h, F
  <1>6. Addable(F, {1, 2}) /\ Adds(f, S) = Adds(F, {1, 2})
    <2>1. \A k \in {1, 2} : F[k] = Adds(f, Class(S, h, k))
      BY <1>2, <1>4
    <2> QED
      BY <1>1, <1>3, <1>4, <2>1, Regroup
  <1>7. Adds(F, {1, 2}) = F[1] + F[2]
    <2>1. Addable(F, {1, 2} \ {1}) /\ Adds(F, {1, 2}) = F[1] + Adds(F, {1, 2} \ {1})
      BY <1>6, AddsSplit
    <2>2. {1, 2} \ {1} = {2} /\ F[2] \in Int
      BY <1>6 DEF Addable
    <2>3. Adds(F, {2}) = F[2]
      BY <2>2, AddsOne
    <2> QED
      BY <2>1, <2>2, <2>3
  <1>8. Cost(S) = Adds(f, S) /\ Cost(A) = Adds(f, A) /\ Cost(B) = Adds(f, B)
    BY <1>1, <1>5, CostIsSum
  <1> QED
    BY <1>4, <1>6, <1>7, <1>8

\* No items cost nothing.
LEMMA CostOfNone == Cost({}) = 0
  <1> DEFINE none == {}
             f == [x \in none |-> x.cost]
  <1>1. Addable(f, none) /\ none = {}
    BY FS_EmptySet DEF Addable
  <1>2. \A x \in none : f[x] = x.cost
    OBVIOUS
  <1> HIDE DEF none, f
  <1>3. Cost(none) = Adds(f, none) /\ Adds(f, none) = 0
    BY <1>1, <1>2, CostIsSum, AddsSplit
  <1> QED
    BY <1>1, <1>3

\* LineAddsUp for every table and any number of rounds: every item has the name
\* of a count, and every such name is under `in' or under `out', not both.
THEOREM LinesAddUp == Spec => []LineAddsUp
  <1>1. ASSUME IInv PROVE LineAddsUp
    <2> DEFINE S(name) == {i \in line.items : Under(i.key, name)}
               Amount(name) == IF \E i \in line.items : Under(i.key, name)
                               THEN CostOf(line.items, name, line.partial) ELSE 0
    <2> SUFFICES ASSUME stage \in Shown, \A i \in line.items : i.rule # Provider
                 PROVE  Amount(<< >>) = Amount(In) + Amount(Out)
      BY DEF LineAddsUp
    <2>1. \A name : Amount(name) = Cost(S(name))
      <3> SUFFICES ASSUME NEW name PROVE Amount(name) = Cost(S(name))
        OBVIOUS
      <3> DEFINE T == {i \in line.items : Under(i.key, name)}
      <3>1. CostOf(line.items, name, line.partial)
               = IF T = {} /\ line.partial THEN Missing ELSE Cost(T)
        BY DEF CostOf
      <3>2. T = {} <=> ~ \E i \in line.items : Under(i.key, name)
        OBVIOUS
      <3> HIDE DEF T
      <3>3. Amount(name) = Cost(T)
        BY <3>1, <3>2, CostOfNone
      <3> QED
        BY <3>3 DEF T
    <2>2. \A i \in line.items : i.key \in Names
      <3> SUFFICES ASSUME NEW i \in line.items PROVE i.key \in Names
        OBVIOUS
      <3>1. PICK k \in 1..Len(rounds) : \E x \in rounds[k].items :
               i.rule = x.rule /\ i.key = x.key
        BY <1>1, LineIsMerged
      <3>2. PICK x \in rounds[k].items : i.rule = x.rule /\ i.key = x.key
        BY <3>1
      <3> DEFINE a == rounds[k].of
                 facts == Facts(a.usage, a.tier)
                 I == ItemFor(model.table, a.usage, facts)
      <3>3. Kept(a) /\ rounds[k] = Billing(model.table, a)
        BY <1>1 DEF IInv, BillsInv
      <3>4. x.rule # Provider
        BY <3>2
      <3>5. x \in Rate(model.table, a.usage, facts)
        <4>1. rounds[k].items = IF a.charged # Missing THEN Reported(a.charged)
                                ELSE Rate(model.table, a.usage, facts)
          BY <3>3 DEF Billing
        <4> HIDE DEF a, facts
        <4>2. \A y \in Reported(a.charged) : y.rule = Provider
          BY DEF Reported
        <4> QED
          BY <3>2, <3>4, <4>1, <4>2
      <3> HIDE DEF a, facts
      <3>6. x.key \in DOMAIN a.usage
        <4>1. /\ TheseItems(Rate(model.table, a.usage, facts), I, DOMAIN I)
              /\ DOMAIN I = PricedNames(model.table, a.usage, facts)
              /\ ItemsCount(I, DOMAIN I, a.usage)
          <5>1. I = ItemFor(model.table, a.usage, facts)
            OBVIOUS
          <5> HIDE DEF I
          <5> QED
            BY <5>1, RateIsItems
        <4> HIDE DEF I
        <4> QED
          BY <3>5, <4>1 DEF TheseItems, ItemsCount, PricedNames
      <3> QED
        BY <1>1, <3>2, <3>3, <3>6, KeptIsGood
    <2>3. IsFiniteSet(line.items) /\ \A i \in line.items : i.cost \in Int
      BY <1>1, LineIsMerged
    <2>4. S(<< >>) = line.items
      <3>1. \A i \in line.items : Under(i.key, << >>)
        <4> SUFFICES ASSUME NEW i \in line.items PROVE Under(i.key, << >>)
          OBVIOUS
        <4>1. PICK P : i.key \in Seq(P)
          BY <2>2, NamesAre
        <4> QED
          BY <4>1 DEF Under, IsPrefix
      <3> QED
        BY <3>1
    <2>5. S(Out) = line.items \ S(In) /\ S(In) \in SUBSET line.items
      BY <2>2, NamesAre
    <2> HIDE DEF S, Amount
    <2>6. Cost(line.items) = Cost(S(In)) + Cost(S(Out))
      BY <2>3, <2>5, CostSplits
    <2> QED
      BY <2>1, <2>4, <2>6
  <1> QED
    BY <1>1, BillsAreKept, PTL
===============================================================================
