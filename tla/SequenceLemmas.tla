--------------------------- MODULE SequenceLemmas ---------------------------
(***************************************************************************)
(* Facts about sequences and numbers that the proofs of this project need: *)
(* induction over the numbers, and what FlattenSeq of the community        *)
(* modules returns.                                                        *)
(***************************************************************************)
EXTENDS Naturals, Sequences, SequencesExt, WellFoundedInduction, TLAPS

\* A set of numbers has a least one: what the theorem of well-founded orders
\* says of the numbers, said without an operator for a parameter.
LEMMA LeastNumber ==
    ASSUME NEW T \in SUBSET Nat, T # {}
    PROVE  \E x \in T : \A y \in T : x <= y
  <1> DEFINE R == {ss \in Nat \X Nat : ss[1] < ss[2]}
  <1>1. IsWellFoundedOn(R, Nat)
    BY NatLessThanWellFounded DEF OpToRel
  <1>2. \E x \in T : \A y \in T : <<y, x>> \notin R
    <2> HIDE DEF R
    <2> QED BY <1>1, WFMin
  <1>3. \A x, y \in Nat : <<y, x>> \notin R => x <= y
    <2> TAKE x, y \in Nat
    <2>1. <<y, x>>[1] = y /\ <<y, x>>[2] = x
      OBVIOUS
    <2>2. y < x => <<y, x>> \in R
      BY <2>1
    <2> QED
      BY <2>2
  <1> HIDE DEF R
  <1> QED
    BY <1>2, <1>3

\* Induction over the numbers, for a set of them.
LEMMA Induction ==
    ASSUME NEW T \in SUBSET Nat, 0 \in T,
           \A n \in T : n + 1 \in T
    PROVE  T = Nat
  <1> SUFFICES ASSUME T # Nat PROVE FALSE
    OBVIOUS
  <1>1. PICK x \in Nat \ T : \A y \in Nat \ T : x <= y
    BY LeastNumber
  <1>2. x # 0 /\ x - 1 \in Nat /\ ~(x <= x - 1)
    OBVIOUS
  <1>3. x - 1 \in T
    BY <1>1, <1>2
  <1>4. x - 1 + 1 = x
    BY <1>2
  <1> QED
    BY <1>3, <1>4

----------------------------------------------------------------------------
\* The function FlattenSeq is made of.
Flat(seqs, n) ==
    LET flatten[i \in 1..n] ==
            IF i = 1 THEN seqs[i] ELSE flatten[i-1] \o seqs[i]
    IN flatten

\* A recursive definition over 1..n has a solution: n of them, one after another.
LEMMA FlatExists ==
    ASSUME NEW seqs, NEW n \in Nat
    PROVE  \E f : f = [i \in 1..n |-> IF i = 1 THEN seqs[i] ELSE f[i-1] \o seqs[i]]
  <1> DEFINE Step(f, i) == IF i = 1 THEN seqs[i] ELSE f[i-1] \o seqs[i]
             T == {m \in Nat : \E f : f = [i \in 1..m |-> Step(f, i)]}
  <1>1. 0 \in T
    <2>1. [j \in {} |-> 0] = [i \in 1..0 |-> Step([j \in {} |-> 0], i)]
      OBVIOUS
    <2> QED
      BY <2>1
  <1>2. ASSUME NEW m \in T
        PROVE  m + 1 \in T
    <2>1. PICK f : f = [i \in 1..m |-> Step(f, i)]
      OBVIOUS
    <2> DEFINE g == [i \in 1..(m+1) |-> IF i = m + 1 THEN Step(f, i) ELSE f[i]]
    <2>2. \A i \in 1..(m+1) : Step(g, i) = Step(f, i)
      OBVIOUS
    <2>3. \A i \in 1..m : f[i] = Step(f, i)
      BY <2>1
    <2>4. g = [i \in 1..(m+1) |-> Step(g, i)]
      <3> HIDE DEF Step
      <3> QED BY <2>2, <2>3
    <2>5. m + 1 \in Nat /\ \E f1 : f1 = [i \in 1..(m+1) |-> Step(f1, i)]
      <3> HIDE DEF Step, g
      <3> QED BY <2>4
    <2> QED
      BY <2>5
  <1>3. T = Nat
    <2>1. T \in SUBSET Nat
      OBVIOUS
    <2> HIDE DEF T
    <2> QED BY <1>1, <1>2, <2>1, Induction
  <1> QED
    BY <1>3

\* So the function FlattenSeq is made of is the solution of its equation.
LEMMA FlatDef ==
    ASSUME NEW seqs, NEW n \in Nat
    PROVE  Flat(seqs, n) =
             [i \in 1..n |-> IF i = 1 THEN seqs[i] ELSE Flat(seqs, n)[i-1] \o seqs[i]]
  BY FlatExists DEF Flat

----------------------------------------------------------------------------
\* The elements of the sequences of one and of none.
LEMMA OneElement ==
    ASSUME NEW S, NEW x
    PROVE  /\ ToSet(<<x>>) = {x} /\ (x \in S => <<x>> \in Seq(S))
           /\ ToSet(<< >>) = {} /\ << >> \in Seq(S)
  BY DEF ToSet

\* A concatenation has the elements of both, and no others.
LEMMA ConcatElements ==
    ASSUME NEW S, NEW s \in Seq(S), NEW t \in Seq(S)
    PROVE  /\ s \o t \in Seq(S)
           /\ ToSet(s \o t) = ToSet(s) \cup ToSet(t)
  <1>1. \A i \in DOMAIN s : i \in DOMAIN (s \o t) /\ (s \o t)[i] = s[i]
    OBVIOUS
  <1>2. \A i \in DOMAIN t : Len(s) + i \in DOMAIN (s \o t) /\ (s \o t)[Len(s) + i] = t[i]
    OBVIOUS
  <1>3. \A i \in DOMAIN (s \o t) : (s \o t)[i] \in ToSet(s) \cup ToSet(t)
    BY DEF ToSet
  <1>4. s \o t \in Seq(S)
    OBVIOUS
  <1>5. ASSUME NEW x \in ToSet(s) \cup ToSet(t)
        PROVE  x \in ToSet(s \o t)
    <2>1. CASE x \in ToSet(s)
      BY <1>1, <2>1 DEF ToSet
    <2>2. CASE x \in ToSet(t)
      BY <1>2, <2>2 DEF ToSet
    <2> QED
      BY <1>5, <2>1, <2>2
  <1>6. ToSet(s \o t) \subseteq ToSet(s) \cup ToSet(t)
    <2> DEFINE U == ToSet(s) \cup ToSet(t)
    <2>1. \A i \in DOMAIN (s \o t) : (s \o t)[i] \in U
      BY <1>3
    <2> HIDE DEF U
    <2>2. ToSet(s \o t) \subseteq U
      BY <2>1 DEF ToSet
    <2> QED
      BY <2>2 DEF U
  <1> QED
    BY <1>4, <1>5, <1>6

\* A sequence that is not empty has the elements of its head and its tail.
LEMMA FirstAndRest ==
    ASSUME NEW S, NEW s \in Seq(S), s # << >>
    PROVE  /\ Head(s) \in S /\ Head(s) \in ToSet(s) /\ Tail(s) \in Seq(S)
           /\ ToSet(s) = {Head(s)} \cup ToSet(Tail(s))
           /\ Len(Tail(s)) = Len(s) - 1 /\ Len(s) \in Nat \ {0}
  <1>1. Head(s) \in S /\ Tail(s) \in Seq(S) /\ s = <<Head(s)>> \o Tail(s)
    OBVIOUS
  <1>2. Len(s) \in Nat \ {0} /\ Len(Tail(s)) = Len(s) - 1
    OBVIOUS
  <1>3. <<Head(s)>> \in Seq(S) /\ ToSet(<<Head(s)>>) = {Head(s)}
    BY <1>1, OneElement
  <1>4. ToSet(s) = ToSet(<<Head(s)>>) \cup ToSet(Tail(s))
    BY <1>1, <1>3, ConcatElements, ZenonT(60)
  <1> QED
    BY <1>1, <1>2, <1>3, <1>4

\* FlattenSeq is the last value of that function.
LEMMA FlattenSeqIs ==
    ASSUME NEW seqs, Len(seqs) \in Nat, Len(seqs) # 0
    PROVE  FlattenSeq(seqs) = Flat(seqs, Len(seqs))[Len(seqs)]
  BY DEF FlattenSeq, Flat

\* FlattenSeq keeps the elements, all of them and no others.
LEMMA FlattenElements ==
    ASSUME NEW S, NEW seqs \in Seq(Seq(S))
    PROVE  /\ FlattenSeq(seqs) \in Seq(S)
           /\ ToSet(FlattenSeq(seqs)) = UNION {ToSet(seqs[i]) : i \in DOMAIN seqs}
  <1> DEFINE n == Len(seqs)
             F == Flat(seqs, n)
             All(m) == UNION {ToSet(seqs[i]) : i \in 1..m}
             T == {m \in Nat : m \in 1..n => F[m] \in Seq(S) /\ ToSet(F[m]) = All(m)}
  <1>0. n \in Nat /\ DOMAIN seqs = 1..n /\ \A i \in 1..n : seqs[i] \in Seq(S)
    OBVIOUS
  <1>a. F = [i \in 1..n |-> IF i = 1 THEN seqs[i] ELSE F[i-1] \o seqs[i]]
    <2>1. n \in Nat
      BY <1>0
    <2> HIDE DEF n
    <2> QED
      BY <2>1, FlatDef
  <1> HIDE DEF n, F
  <1>1. \A i \in 1..n : F[i] = IF i = 1 THEN seqs[i] ELSE F[i-1] \o seqs[i]
    BY <1>a
  <1>2. 0 \in T
    BY <1>0
  <1>3. ASSUME NEW m \in T
        PROVE  m + 1 \in T
    <2> SUFFICES ASSUME m + 1 \in 1..n
                 PROVE  F[m+1] \in Seq(S) /\ ToSet(F[m+1]) = All(m+1)
      OBVIOUS
    <2>0. m \in Nat /\ seqs[m+1] \in Seq(S)
      BY <1>0
    <2>1. CASE m = 0
      <3>1. F[m+1] = seqs[m+1]
        BY <1>1, <2>1
      <3>2. All(m+1) = ToSet(seqs[m+1])
        BY <2>1
      <3> QED
        BY <2>0, <3>1, <3>2
    <2>2. CASE m # 0
      <3>1. m \in 1..n /\ m + 1 # 1 /\ m + 1 - 1 = m
        BY <1>0, <2>0, <2>2
      <3>2. F[m] \in Seq(S) /\ ToSet(F[m]) = All(m)
        BY <3>1
      <3>3. F[m+1] = F[m] \o seqs[m+1]
        <4>1. F[m+1] = IF m + 1 = 1 THEN seqs[m+1] ELSE F[m+1-1] \o seqs[m+1]
          BY <1>1
        <4> QED
          BY <3>1, <4>1
      <3>4. F[m+1] \in Seq(S) /\ ToSet(F[m+1]) = ToSet(F[m]) \cup ToSet(seqs[m+1])
        BY <2>0, <3>2, <3>3, ConcatElements
      <3>5. 1..(m+1) = (1..m) \cup {m+1}
        BY <2>0
      <3>6. All(m+1) = All(m) \cup ToSet(seqs[m+1])
        BY <3>5, Zenon
      <3> QED
        BY <3>2, <3>4, <3>6
    <2> QED
      BY <2>1, <2>2
  <1>4. T = Nat
    <2>1. T \in SUBSET Nat
      OBVIOUS
    <2> HIDE DEF T
    <2> QED BY <1>2, <1>3, <2>1, Induction
  <1>5. CASE n = 0
    <2>1. seqs = << >>
      BY <1>5 DEF n
    <2>2. FlattenSeq(seqs) = << >>
      BY <2>1 DEF FlattenSeq
    <2>3. << >> \in Seq(S) /\ ToSet(<< >>) = {}
      BY DEF ToSet
    <2>4. DOMAIN seqs = {}
      BY <2>1
    <2> QED
      BY <2>2, <2>3, <2>4
  <1>6. CASE n # 0
    <2>1. n \in 1..n
      BY <1>0, <1>6
    <2>2. F[n] \in Seq(S) /\ ToSet(F[n]) = All(n)
      BY <1>0, <1>4, <2>1
    <2>3. FlattenSeq(seqs) = F[n]
      BY <1>0, <1>6, FlattenSeqIs DEF n, F
    <2> QED
      BY <1>0, <2>2, <2>3
  <1> QED
    BY <1>5, <1>6

\* FlattenSeq takes the sequences in their order: the last one comes last.
LEMMA FlattenAppend ==
    ASSUME NEW S, NEW seqs \in Seq(Seq(S)), NEW s \in Seq(S)
    PROVE  FlattenSeq(Append(seqs, s)) = FlattenSeq(seqs) \o s
  <1> DEFINE n == Len(seqs)
             more == Append(seqs, s)
             F == Flat(seqs, n)
             G == Flat(more, n + 1)
             T == {m \in Nat : m \in 1..n => G[m] = F[m]}
  <1>1. /\ n \in Nat /\ n + 1 \in Nat \ {0} /\ Len(more) = n + 1
        /\ \A i \in 1..n : more[i] = seqs[i]
        /\ more[n+1] = s
    OBVIOUS
  <1> HIDE DEF n, more
  <1>2. /\ F = [i \in 1..n |-> IF i = 1 THEN seqs[i] ELSE F[i-1] \o seqs[i]]
        /\ G = [i \in 1..(n+1) |-> IF i = 1 THEN more[i] ELSE G[i-1] \o more[i]]
    BY <1>1, FlatDef
  <1> HIDE DEF F, G
  <1>3. /\ \A i \in 1..n : F[i] = IF i = 1 THEN seqs[i] ELSE F[i-1] \o seqs[i]
        /\ \A i \in 1..(n+1) : G[i] = IF i = 1 THEN more[i] ELSE G[i-1] \o more[i]
    BY <1>2
  <1>4. T = Nat
    <2>1. T \in SUBSET Nat /\ 0 \in T
      BY <1>1
    <2>2. ASSUME NEW m \in T
          PROVE  m + 1 \in T
      <3> SUFFICES ASSUME m + 1 \in 1..n
                   PROVE  G[m+1] = F[m+1]
        OBVIOUS
      <3>1. m \in Nat /\ m + 1 \in 1..(n+1) /\ more[m+1] = seqs[m+1] /\ m + 1 - 1 = m
        BY <1>1
      <3>2. m # 0 => m \in 1..n /\ m + 1 # 1
        BY <1>1, <3>1
      <3>3. m # 0 => G[m] = F[m]
        BY <3>2
      <3>4. F[m+1] = IF m + 1 = 1 THEN seqs[m+1] ELSE F[m+1-1] \o seqs[m+1]
        BY <1>3
      <3>5. G[m+1] = IF m + 1 = 1 THEN more[m+1] ELSE G[m+1-1] \o more[m+1]
        BY <1>3, <3>1
      <3> QED
        BY <3>1, <3>2, <3>3, <3>4, <3>5
    <2> HIDE DEF T
    <2> QED BY <2>1, <2>2, Induction
  <1>5. FlattenSeq(more) = G[n+1]
    BY <1>1, FlattenSeqIs DEF G
  <1>6. CASE n = 0
    <2>1. seqs = << >>
      BY <1>6 DEF n
    <2>2. FlattenSeq(seqs) = << >>
      BY <2>1 DEF FlattenSeq
    <2>3. G[n+1] = s
      BY <1>1, <1>3, <1>6
    <2> QED
      BY <1>5, <2>2, <2>3 DEF more
  <1>7. CASE n # 0
    <2>1. n \in 1..n /\ n + 1 \in 1..(n+1) /\ n + 1 # 1 /\ n + 1 - 1 = n
      BY <1>1, <1>7
    <2>2. G[n] = F[n]
      BY <1>4, <2>1
    <2>3. G[n+1] = G[n] \o s
      <3>1. PICK i : i = n + 1
        OBVIOUS
      <3>2. i \in 1..(n+1) /\ i # 1 /\ i - 1 = n
        BY <1>1, <2>1, <3>1
      <3>3. G[i] = G[i-1] \o more[i]
        BY <1>3, <3>2
      <3> QED
        BY <1>1, <3>1, <3>2, <3>3
    <2>4. FlattenSeq(seqs) = F[n]
      BY <1>1, <1>7, FlattenSeqIs DEF n, F
    <2> QED
      BY <1>5, <2>2, <2>3, <2>4 DEF more
  <1> QED
    BY <1>6, <1>7

----------------------------------------------------------------------------
\* Every element of s is in the relation R with every later one.
Ranked(s, R) == \A k, l \in DOMAIN s : k < l => <<s[k], s[l]>> \in R

\* A concatenation is ranked if both are, and each element of the one before each
\* of the other.
LEMMA ConcatRanked ==
    ASSUME NEW S, NEW R, NEW s \in Seq(S), NEW t \in Seq(S), Ranked(s, R), Ranked(t, R),
           \A x \in ToSet(s), y \in ToSet(t) : <<x, y>> \in R
    PROVE  Ranked(s \o t, R)
  <1> SUFFICES ASSUME NEW k \in DOMAIN (s \o t), NEW l \in DOMAIN (s \o t), k < l
               PROVE  <<(s \o t)[k], (s \o t)[l]>> \in R
    BY DEF Ranked
  <1>1. /\ DOMAIN s = 1..Len(s) /\ DOMAIN t = 1..Len(t) /\ Len(s) \in Nat /\ Len(t) \in Nat
        /\ DOMAIN (s \o t) = 1..(Len(s) + Len(t))
        /\ \A i \in 1..Len(s) : (s \o t)[i] = s[i]
        /\ \A i \in 1..(Len(s) + Len(t)) :
              i > Len(s) => i - Len(s) \in 1..Len(t) /\ (s \o t)[i] = t[i - Len(s)]
    OBVIOUS
  <1>2. CASE l <= Len(s)
    <2>1. k \in DOMAIN s /\ l \in DOMAIN s
      BY <1>1, <1>2
    <2> QED
      BY <1>1, <2>1 DEF Ranked
  <1>3. CASE k > Len(s)
    <2>1. /\ k - Len(s) \in DOMAIN t /\ l - Len(s) \in DOMAIN t /\ k - Len(s) < l - Len(s)
      BY <1>1, <1>3
    <2>2. (s \o t)[k] = t[k - Len(s)] /\ (s \o t)[l] = t[l - Len(s)]
      BY <1>1, <1>3
    <2> QED
      BY <2>1, <2>2 DEF Ranked
  <1>4. CASE k <= Len(s) /\ l > Len(s)
    <2>1. k \in DOMAIN s /\ (s \o t)[k] = s[k]
      BY <1>1, <1>4
    <2>2. l - Len(s) \in DOMAIN t /\ (s \o t)[l] = t[l - Len(s)]
      BY <1>1, <1>4
    <2>3. (s \o t)[k] \in ToSet(s) /\ (s \o t)[l] \in ToSet(t)
      BY <2>1, <2>2 DEF ToSet
    <2> QED
      BY <2>3
  <1>5. k \in Nat /\ l \in Nat /\ Len(s) \in Nat
    BY <1>1
  <1>6. l <= Len(s) \/ k > Len(s) \/ (k <= Len(s) /\ l > Len(s))
    BY <1>5
  <1> QED
    BY <1>2, <1>3, <1>4, <1>6

\* What is ranked stays so without its head, which is before all the others.
LEMMA TailRanked ==
    ASSUME NEW S, NEW R, NEW s \in Seq(S), s # << >>, Ranked(s, R)
    PROVE  /\ Ranked(Tail(s), R)
           /\ \A x \in ToSet(Tail(s)) : <<Head(s), x>> \in R
  <1>1. /\ Len(s) \in Nat \ {0} /\ DOMAIN s = 1..Len(s) /\ Tail(s) \in Seq(S)
        /\ DOMAIN Tail(s) = 1..(Len(s) - 1) /\ Head(s) = s[1]
        /\ \A k \in 1..(Len(s) - 1) : Tail(s)[k] = s[k + 1]
    OBVIOUS
  <1>2. \A k \in DOMAIN Tail(s) : k + 1 \in DOMAIN s /\ 1 \in DOMAIN s /\ 1 < k + 1
    BY <1>1
  <1>3. \A k \in DOMAIN Tail(s) : <<Head(s), Tail(s)[k]>> \in R
    <2> TAKE k \in DOMAIN Tail(s)
    <2>1. <<s[1], s[k + 1]>> \in R
      BY <1>2 DEF Ranked
    <2> QED
      BY <1>1, <2>1
  <1>4. Ranked(Tail(s), R)
    <2> SUFFICES ASSUME NEW k \in DOMAIN Tail(s), NEW l \in DOMAIN Tail(s), k < l
                 PROVE  <<Tail(s)[k], Tail(s)[l]>> \in R
      BY DEF Ranked
    <2>1. k + 1 \in DOMAIN s /\ l + 1 \in DOMAIN s /\ k + 1 < l + 1
      BY <1>1
    <2>2. <<s[k + 1], s[l + 1]>> \in R
      BY <2>1 DEF Ranked
    <2> QED
      BY <1>1, <2>2
  <1> QED
    BY <1>3, <1>4 DEF ToSet

\* FlattenSeq is ranked if each of the sequences is, and each before the later ones.
LEMMA FlattenRanked ==
    ASSUME NEW S, NEW R, NEW seqs \in Seq(Seq(S)),
           \A i \in DOMAIN seqs : Ranked(seqs[i], R),
           \A i, j \in DOMAIN seqs : i < j =>
              \A x \in ToSet(seqs[i]), y \in ToSet(seqs[j]) : <<x, y>> \in R
    PROVE  Ranked(FlattenSeq(seqs), R)
  <1> DEFINE n == Len(seqs)
             F == Flat(seqs, n)
             Good(m) == /\ F[m] \in Seq(S) /\ Ranked(F[m], R)
                        /\ \A x \in ToSet(F[m]) : \E i \in 1..m : x \in ToSet(seqs[i])
             T == {m \in Nat : m \in 1..n => Good(m)}
  <1>0. n \in Nat /\ DOMAIN seqs = 1..n /\ \A i \in 1..n : seqs[i] \in Seq(S)
    OBVIOUS
  <1>1. F = [i \in 1..n |-> IF i = 1 THEN seqs[i] ELSE F[i-1] \o seqs[i]]
    <2>1. n \in Nat
      BY <1>0
    <2> HIDE DEF n
    <2> QED
      BY <2>1, FlatDef
  <1> HIDE DEF n, F
  <1>2. \A i \in 1..n : F[i] = IF i = 1 THEN seqs[i] ELSE F[i-1] \o seqs[i]
    BY <1>1
  <1>3. 0 \in T
    BY <1>0
  <1>4. ASSUME NEW m \in T
        PROVE  m + 1 \in T
    <2> SUFFICES ASSUME m + 1 \in 1..n PROVE Good(m + 1)
      OBVIOUS
    <2>1. m \in Nat /\ seqs[m+1] \in Seq(S) /\ Ranked(seqs[m+1], R) /\ m + 1 \in 1..(m + 1)
      <3>1. m \in Nat /\ m + 1 \in DOMAIN seqs
        BY <1>0
      <3>2. Ranked(seqs[m+1], R) /\ seqs[m+1] \in Seq(S)
        BY <1>0, <3>1
      <3>3. m + 1 \in 1..(m + 1)
        BY <3>1
      <3> QED
        BY <3>1, <3>2, <3>3
    <2>2. CASE m = 0
      <3>1. F[m+1] = seqs[m+1]
        BY <1>2, <2>2
      <3> QED
        BY <2>1, <3>1
    <2>3. CASE m # 0
      <3>1. m \in 1..n /\ m + 1 # 1 /\ m + 1 - 1 = m
        BY <1>0, <2>1, <2>3
      <3>2. Good(m)
        BY <3>1
      <3>3. F[m+1] = F[m] \o seqs[m+1]
        <4>1. F[m+1] = IF m + 1 = 1 THEN seqs[m+1] ELSE F[m+1-1] \o seqs[m+1]
          BY <1>2
        <4> QED
          BY <3>1, <4>1
      <3>4. \A x \in ToSet(F[m]), y \in ToSet(seqs[m+1]) : <<x, y>> \in R
        <4> TAKE x \in ToSet(F[m]), y \in ToSet(seqs[m+1])
        <4>1. PICK i \in 1..m : x \in ToSet(seqs[i])
          BY <3>2
        <4>2. i \in DOMAIN seqs /\ m + 1 \in DOMAIN seqs /\ i < m + 1
          BY <1>0, <2>1
        <4> QED
          BY <4>1, <4>2
      <3>5. F[m+1] \in Seq(S) /\ ToSet(F[m+1]) = ToSet(F[m]) \cup ToSet(seqs[m+1])
        BY <2>1, <3>2, <3>3, ConcatElements
      <3>6. Ranked(F[m+1], R)
        BY <2>1, <3>2, <3>3, <3>4, ConcatRanked
      <3>7. 1..m \subseteq 1..(m + 1)
        BY <2>1
      <3>8. \A x \in ToSet(F[m+1]) : \E i \in 1..(m + 1) : x \in ToSet(seqs[i])
        BY <2>1, <3>2, <3>5, <3>7
      <3> QED
        BY <3>5, <3>6, <3>8
    <2> QED
      BY <2>2, <2>3
  <1>5. T = Nat
    <2>1. T \in SUBSET Nat
      OBVIOUS
    <2> HIDE DEF T
    <2> QED
      BY <1>3, <1>4, <2>1, Induction
  <1>6. CASE n = 0
    <2>1. seqs = << >>
      BY <1>6 DEF n
    <2>2. FlattenSeq(seqs) = << >>
      BY <2>1 DEF FlattenSeq
    <2> QED
      BY <2>2 DEF Ranked
  <1>7. CASE n # 0
    <2>1. Good(n)
      <3>0. n \in Nat /\ n \in 1..n
        BY <1>0, <1>7
      <3>1. n \in T /\ n \in 1..n
        <4> HIDE DEF T
        <4> QED
          BY <1>5, <3>0
      <3> HIDE DEF Good
      <3> QED
        BY <3>1
    <2>2. FlattenSeq(seqs) = F[n]
      BY <1>0, <1>7, FlattenSeqIs DEF n, F
    <2> QED
      BY <2>1, <2>2
  <1> QED
    BY <1>6, <1>7
===============================================================================
