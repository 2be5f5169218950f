---------------------------- MODULE WoxSumProofs ----------------------------
(***************************************************************************)
(* Facts about sums.  A fold is a recursive function on the subsets of a   *)
(* set: that there is one is shown first, and from it that a sum loses     *)
(* what is taken out of its set.  The facts about sequences follow.        *)
(***************************************************************************)
EXTENDS WoxSums, Sequences, FiniteSets, TLAPS, FiniteSetTheorems, SequenceTheorems,
        WellFoundedInduction

\* Induction over the subsets of a finite set: G, the good ones, are all of them.
LEMMA SubsetInduction ==
  ASSUME NEW S, IsFiniteSet(S), NEW G,
         \A U \in SUBSET S : (\A T \in (SUBSET U) \ {U} : T \in G) => U \in G
  PROVE  S \in G
<1> SUFFICES ASSUME S \notin G
             PROVE  FALSE
  OBVIOUS
<1> DEFINE Bad == {n \in Nat : \E U \in SUBSET S : U \notin G /\ n = Cardinality(U)}
<1>1. Bad # {} /\ Bad \subseteq Nat
  BY FS_CardinalityType
<1>2. PICK m \in Bad : \A n \in Bad : ~ (n < m)
  <2> DEFINE Less == {ss \in Nat \X Nat : ss[1] < ss[2]}
  <2>1. IsWellFoundedOn(Less, Nat)
    BY NatLessThanWellFounded DEF OpToRel
  <2> HIDE DEF Bad, Less
  <2>2. PICK m \in Bad : \A n \in Bad : ~ (<<n, m>> \in Less)
    BY <1>1, <2>1, WFMin
  <2> QED
    BY <1>1, <2>2 DEF Less
<1>3. PICK U \in SUBSET S : U \notin G /\ m = Cardinality(U)
  OBVIOUS
<1>4. PICK T \in (SUBSET U) \ {U} : T \notin G
  BY <1>3
<1>5. IsFiniteSet(U)
  BY FS_Subset
<1>6. Cardinality(T) < Cardinality(U) /\ Cardinality(T) \in Nat /\ Cardinality(U) \in Nat
  <2>1. T \subseteq U /\ T # U
    BY <1>4
  <2> QED
    BY <1>5, <2>1, FS_Subset, FS_CardinalityType
<1>7. Cardinality(T) \in Bad
  BY <1>4, <1>6
<1> QED
  BY <1>2, <1>3, <1>6, <1>7

\* What the fold computes for every subset of S.
Sums(f, S, g) ==
  g = [s \in SUBSET S |-> IF s = {} THEN 0
                          ELSE f[CHOOSE x \in s : TRUE] + g[s \ {CHOOSE x \in s : TRUE}]]

\* The sum is what one such function says of the whole set.
LEMMA SumOnDef ==
  ASSUME NEW f, NEW S
  PROVE  SumOn(f, S) = (CHOOSE g : Sums(f, S, g))[S]
BY DEF SumOn, FoldFunctionOnSet, MapThenFoldSet, Sums

\* Two such functions agree where both are defined.
LEMMA SumsUnique ==
  ASSUME NEW f, NEW S, NEW T, NEW g, NEW h, NEW U,
         Sums(f, S, g), Sums(f, T, h), U \subseteq S, U \subseteq T, IsFiniteSet(U)
  PROVE  g[U] = h[U]
<1> DEFINE G == {V \in SUBSET U : g[V] = h[V]}
<1>1. ASSUME NEW V \in SUBSET U, \A W \in (SUBSET V) \ {V} : W \in G
      PROVE  V \in G
  <2>1. CASE V = {}
    BY <2>1 DEF Sums
  <2>2. CASE V # {}
    <3> DEFINE c == CHOOSE x \in V : TRUE
    <3>1. c \in V
      BY <2>2
    <3>2. V \ {c} \in (SUBSET V) \ {V} /\ V \in SUBSET S /\ V \in SUBSET T
      BY <3>1
    <3>3. g[V \ {c}] = h[V \ {c}]
      BY <1>1, <3>2
    <3>4. g[V] = f[c] + g[V \ {c}] /\ h[V] = f[c] + h[V \ {c}]
      BY <2>2, <3>2 DEF Sums
    <3> QED
      BY <3>3, <3>4
  <2> QED
    BY <2>1, <2>2
<1> HIDE DEF G
<1>2. U \in G
  BY <1>1, SubsetInduction
<1> QED
  BY <1>2 DEF G

\* There is such a function for every finite set.
LEMMA SumsExists ==
  ASSUME NEW f, NEW S, IsFiniteSet(S)
  PROVE  \E g : Sums(f, S, g)
<1> DEFINE G == {U \in SUBSET S : \E g : Sums(f, U, g)}
           Val(T) == (CHOOSE g : Sums(f, T, g))[T]
<1>1. ASSUME NEW U \in SUBSET S, \A T \in (SUBSET U) \ {U} : T \in G
      PROVE  U \in G
  <2> DEFINE ch(s) == CHOOSE x \in s : TRUE
             g == [s \in SUBSET U |-> IF s = U THEN IF U = {} THEN 0 ELSE f[ch(U)] + Val(U \ {ch(U)})
                                      ELSE Val(s)]
  <2>1. ASSUME NEW T \in (SUBSET U) \ {U}
        PROVE  Val(T) = IF T = {} THEN 0 ELSE f[ch(T)] + Val(T \ {ch(T)})
    <3>1. Sums(f, T, CHOOSE h : Sums(f, T, h))
      BY <1>1, <2>1
    <3>2. CASE T = {}
      BY <3>1, <3>2 DEF Sums
    <3>3. CASE T # {}
      <4> DEFINE R == T \ {ch(T)}
      <4>1. ch(T) \in T /\ R \in (SUBSET U) \ {U} /\ R \subseteq T
        BY <3>3
      <4>2. Sums(f, R, CHOOSE h : Sums(f, R, h))
        BY <1>1, <4>1
      <4>3. IsFiniteSet(R)
        BY <4>1, FS_Subset
      <4>4. (CHOOSE h : Sums(f, T, h))[R] = (CHOOSE h : Sums(f, R, h))[R]
        BY <3>1, <4>1, <4>2, <4>3, SumsUnique
      <4>5. (CHOOSE h : Sums(f, T, h))[T] = f[ch(T)] + (CHOOSE h : Sums(f, T, h))[R]
        BY <3>1, <3>3 DEF Sums
      <4> QED
        BY <3>3, <4>4, <4>5
    <3> QED
      BY <3>2, <3>3
  <2>2. ASSUME NEW s \in SUBSET U
        PROVE  g[s] = IF s = {} THEN 0 ELSE f[ch(s)] + g[s \ {ch(s)}]
    <3>1. CASE s = {}
      BY <2>1, <3>1
    <3>2. CASE s # {}
      <4>1. ch(s) \in s /\ s \ {ch(s)} \in (SUBSET U) \ {U}
        BY <3>2
      <4>2. g[s \ {ch(s)}] = Val(s \ {ch(s)})
        BY <4>1
      <4>3. g[s] = f[ch(s)] + Val(s \ {ch(s)})
        <5> HIDE DEF Val
        <5>1. CASE s = U
          BY <3>2, <5>1
        <5>2. CASE s # U
          <6>1. Val(s) = f[ch(s)] + Val(s \ {ch(s)})
            BY <2>1, <3>2, <5>2
          <6> QED
            BY <5>2, <6>1
        <5> QED
          BY <5>1, <5>2
      <4> QED
        BY <3>2, <4>2, <4>3
    <3> QED
      BY <3>1, <3>2
  <2>3. Sums(f, U, g)
    <3> HIDE DEF Val
    <3>1. g = [s \in SUBSET U |-> g[s]]
      OBVIOUS
    <3> HIDE DEF g
    <3> QED
      BY <2>2, <3>1 DEF Sums
  <2> QED
    BY <2>3
<1> HIDE DEF G
<1>2. S \in G
  BY <1>1, SubsetInduction
<1> QED
  BY <1>2 DEF G

-----------------------------------------------------------------------------
\* The sum over a set is the value the fold takes plus the sum over the rest.
LEMMA SumPick ==
  ASSUME NEW f, NEW S, IsFiniteSet(S)
  PROVE  SumOn(f, S) = IF S = {} THEN 0
                       ELSE f[CHOOSE x \in S : TRUE] + SumOn(f, S \ {CHOOSE x \in S : TRUE})
<1> DEFINE G(T) == CHOOSE g : Sums(f, T, g)
<1>1. Sums(f, S, G(S)) /\ SumOn(f, S) = G(S)[S]
  BY SumsExists, SumOnDef
<1>2. CASE S = {}
  BY <1>1, <1>2 DEF Sums
<1>3. CASE S # {}
  <2> DEFINE R == S \ {CHOOSE x \in S : TRUE}
  <2>1. R \subseteq S /\ IsFiniteSet(R)
    BY FS_Subset
  <2>2. Sums(f, R, G(R)) /\ SumOn(f, R) = G(R)[R]
    BY <2>1, SumsExists, SumOnDef
  <2>3. G(S)[R] = G(R)[R]
    <3> HIDE DEF G, R
    <3> QED
      BY <1>1, <2>1, <2>2, SumsUnique
  <2>4. G(S)[S] = f[CHOOSE x \in S : TRUE] + G(S)[R]
    BY <1>1, <1>3 DEF Sums
  <2> QED
    BY <1>1, <1>3, <2>2, <2>3, <2>4
<1> QED
  BY <1>2, <1>3

\* A sum stays in a set that adding the values does not leave.
LEMMA SumIn ==
  ASSUME NEW f, NEW S, IsFiniteSet(S), NEW M, 0 \in M, \A x \in S, m \in M : f[x] + m \in M
  PROVE  SumOn(f, S) \in M
<1> DEFINE G == {U \in SUBSET S : SumOn(f, U) \in M}
<1>1. ASSUME NEW U \in SUBSET S, \A T \in (SUBSET U) \ {U} : T \in G
      PROVE  U \in G
  <2>1. IsFiniteSet(U)
    BY FS_Subset
  <2>2. CASE U = {}
    <3>1. SumOn(f, U) = 0
      BY <2>1, <2>2, SumPick
    <3> QED
      BY <3>1
  <2>3. CASE U # {}
    <3> DEFINE c == CHOOSE x \in U : TRUE
    <3>1. c \in U
      BY <2>3
    <3>2. SumOn(f, U \ {c}) \in M
      BY <1>1, <3>1
    <3>3. SumOn(f, U) = f[c] + SumOn(f, U \ {c})
      BY <2>1, <2>3, SumPick
    <3> HIDE DEF c
    <3> QED
      BY <3>1, <3>2, <3>3
  <2> QED
    BY <2>2, <2>3
<1> HIDE DEF G
<1>2. S \in G
  BY <1>1, SubsetInduction
<1> QED
  BY <1>2 DEF G

\* The sum of numbers is a number.
LEMMA SumType ==
  ASSUME NEW f, NEW S, IsFiniteSet(S), \A x \in S : f[x] \in Nat
  PROVE  SumOn(f, S) \in Nat
<1>1. \A x \in S, m \in Nat : f[x] + m \in Nat
  OBVIOUS
<1> QED
  BY <1>1, SumIn

\* A sum of zeros is zero.
LEMMA SumZero ==
  ASSUME NEW f, NEW S, IsFiniteSet(S), \A x \in S : f[x] = 0
  PROVE  SumOn(f, S) = 0
<1>1. \A x \in S, m \in {0} : f[x] + m \in {0}
  OBVIOUS
<1>2. SumOn(f, S) \in {0}
  BY <1>1, SumIn
<1> QED
  BY <1>2

\* The sum depends on the values alone.
LEMMA SumSame ==
  ASSUME NEW f, NEW g, NEW S, IsFiniteSet(S), \A x \in S : f[x] = g[x]
  PROVE  SumOn(f, S) = SumOn(g, S)
<1> DEFINE G == {U \in SUBSET S : SumOn(f, U) = SumOn(g, U)}
<1>1. ASSUME NEW U \in SUBSET S, \A T \in (SUBSET U) \ {U} : T \in G
      PROVE  U \in G
  <2>1. IsFiniteSet(U)
    BY FS_Subset
  <2>2. CASE U = {}
    BY <2>1, <2>2, SumPick
  <2>3. CASE U # {}
    <3> DEFINE c == CHOOSE x \in U : TRUE
    <3>1. c \in U
      BY <2>3
    <3>2. SumOn(f, U \ {c}) = SumOn(g, U \ {c})
      BY <1>1, <3>1
    <3>3. SumOn(f, U) = f[c] + SumOn(f, U \ {c}) /\ SumOn(g, U) = g[c] + SumOn(g, U \ {c})
      BY <2>1, <2>3, SumPick
    <3> HIDE DEF c
    <3> QED
      BY <3>1, <3>2, <3>3
  <2> QED
    BY <2>2, <2>3
<1> HIDE DEF G
<1>2. S \in G
  BY <1>1, SubsetInduction
<1> QED
  BY <1>2 DEF G

\* Any value can be taken out of a sum, not only the one the fold takes.
LEMMA SumRemove ==
  ASSUME NEW f, NEW S, IsFiniteSet(S), \A x \in S : f[x] \in Nat, NEW a \in S
  PROVE  SumOn(f, S) = f[a] + SumOn(f, S \ {a})
<1> DEFINE G == {U \in SUBSET S : \A x \in U : SumOn(f, U) = f[x] + SumOn(f, U \ {x})}
<1>1. ASSUME NEW U \in SUBSET S, \A T \in (SUBSET U) \ {U} : T \in G
      PROVE  U \in G
  <2> SUFFICES ASSUME NEW x \in U
               PROVE  SumOn(f, U) = f[x] + SumOn(f, U \ {x})
    OBVIOUS
  <2> DEFINE c == CHOOSE y \in U : TRUE
  <2>1. c \in U
    OBVIOUS
  <2>2. IsFiniteSet(U) /\ IsFiniteSet((U \ {c}) \ {x})
    BY FS_Subset
  <2>3. SumOn(f, U) = f[c] + SumOn(f, U \ {c})
    BY <2>2, SumPick
  <2> HIDE DEF c
  <2>4. CASE c = x
    BY <2>3, <2>4
  <2>5. CASE c # x
    <3>1. U \ {c} \in G /\ U \ {x} \in G
      BY <1>1, <2>1
    <3>2. SumOn(f, U \ {c}) = f[x] + SumOn(f, (U \ {c}) \ {x})
      BY <3>1, <2>5
    <3>3. SumOn(f, U \ {x}) = f[c] + SumOn(f, (U \ {x}) \ {c})
      BY <3>1, <2>1, <2>5
    <3>4. (U \ {x}) \ {c} = (U \ {c}) \ {x}
      OBVIOUS
    <3>5. SumOn(f, (U \ {c}) \ {x}) \in Nat
      BY <2>2, SumType
    <3>6. f[c] \in Nat /\ f[x] \in Nat
      BY <2>1
    <3> HIDE DEF G
    <3> QED
      BY <2>3, <3>2, <3>3, <3>4, <3>5, <3>6
  <2> QED
    BY <2>4, <2>5
<1> HIDE DEF G
<1>2. S \in G
  BY <1>1, SubsetInduction
<1> QED
  BY <1>2 DEF G

-----------------------------------------------------------------------------
\* The sum of a sequence of numbers is a number, and that of the empty one zero.
LEMMA SumSeqType ==
  ASSUME NEW s \in Seq(Nat)
  PROVE  SumOf(s) \in Nat /\ (s = << >> => SumOf(s) = 0)
<1>1. IsFiniteSet(1..Len(s)) /\ DOMAIN s = 1..Len(s)
  BY FS_Interval
<1>2. \A i \in 1..Len(s) : s[i] \in Nat
  OBVIOUS
<1> QED
  BY <1>1, <1>2, SumType, SumZero DEF SumOf

\* One element more adds its value.
LEMMA SumAppend ==
  ASSUME NEW s \in Seq(Nat), NEW n \in Nat
  PROVE  SumOf(Append(s, n)) = SumOf(s) + n
<1> DEFINE t == Append(s, n)
           l == Len(s) + 1
<1>1. Len(s) \in Nat /\ DOMAIN s = 1..Len(s) /\ DOMAIN t = 1..l
  OBVIOUS
<1>2. t[l] = n /\ \A i \in 1..Len(s) : t[i] = s[i]
  OBVIOUS
<1>3. \A i \in 1..l : t[i] \in Nat
  BY <1>1, <1>2
<1>4. (1..l) \ {l} = 1..Len(s) /\ l \in 1..l
  BY <1>1
<1>5. IsFiniteSet(1..l) /\ IsFiniteSet(1..Len(s))
  BY <1>1, FS_Interval
<1> HIDE DEF t, l
<1>6. SumOn(t, 1..l) = t[l] + SumOn(t, (1..l) \ {l})
  BY <1>3, <1>4, <1>5, SumRemove
<1>7. SumOn(t, 1..Len(s)) = SumOn(s, 1..Len(s))
  BY <1>2, <1>5, SumSame
<1>8. SumOf(t) = n + SumOf(s)
  BY <1>1, <1>2, <1>4, <1>6, <1>7 DEF SumOf
<1> QED
  BY <1>8, SumSeqType DEF t

\* Numbers concatenated are numbers, and as many.
LEMMA ConcatNumbers ==
  ASSUME NEW s \in Seq(Nat), NEW t \in Seq(Nat)
  PROVE  s \o t \in Seq(Nat) /\ Len(s \o t) = Len(s) + Len(t)
BY ConcatProperties

\* Appending to a concatenation is appending to its second part.
LEMMA ConcatAppend ==
  ASSUME NEW s \in Seq(Nat), NEW u \in Seq(Nat), NEW n \in Nat
  PROVE  s \o u \in Seq(Nat) /\ s \o Append(u, n) = Append(s \o u, n)
OBVIOUS

\* The sum of a concatenation is that of its parts.
LEMMA SumConcat ==
  ASSUME NEW s \in Seq(Nat), NEW t \in Seq(Nat)
  PROVE  SumOf(s \o t) = SumOf(s) + SumOf(t)
<1> DEFINE Good(n) == SumOf(s \o SubSeq(t, 1, n)) = SumOf(s) + SumOf(SubSeq(t, 1, n))
           N == 1..Len(t)
           G == {U \in SUBSET N : \A n \in 0..Len(t) : U = 1..n => Good(n)}
<1>1. Good(0)
  <2> DEFINE e == SubSeq(t, 1, 0)
  <2>1. e = << >> /\ e \in Seq(Nat)
    OBVIOUS
  <2>2. s \o e = s
    BY <2>1, ConcatEmptySeq
  <2>3. SumOf(e) = 0 /\ SumOf(s) \in Nat
    BY <2>1, SumSeqType
  <2> HIDE DEF e
  <2>4. SumOf(s \o e) = SumOf(s) + SumOf(e)
    BY <2>2, <2>3
  <2> QED
    BY <2>4 DEF e
<1>2. ASSUME NEW n \in N, Good(n - 1)
      PROVE  Good(n)
  <2> DEFINE u == SubSeq(t, 1, n - 1)
  <2>1. u \in Seq(Nat) /\ t[n] \in Nat /\ SubSeq(t, 1, n) = Append(u, t[n])
    OBVIOUS
  <2> HIDE DEF u
  <2>2. s \o u \in Seq(Nat) /\ s \o Append(u, t[n]) = Append(s \o u, t[n])
    BY <2>1, ConcatAppend
  <2>3. SumOf(s \o Append(u, t[n])) = SumOf(s \o u) + t[n] /\ SumOf(Append(u, t[n])) = SumOf(u) + t[n]
    BY <2>1, <2>2, SumAppend
  <2>4. SumOf(s) \in Nat /\ SumOf(u) \in Nat
    BY <2>1, SumSeqType
  <2>5. SumOf(s \o u) = SumOf(s) + SumOf(u)
    BY <1>2 DEF u
  <2>6. SumOf(s \o Append(u, t[n])) = SumOf(s) + SumOf(Append(u, t[n]))
    BY <2>1, <2>3, <2>4, <2>5
  <2> QED
    BY <2>1, <2>6
<1> HIDE DEF Good
<1>3. ASSUME NEW U \in SUBSET N, \A T \in (SUBSET U) \ {U} : T \in G
      PROVE  U \in G
  <2> SUFFICES ASSUME NEW n \in 0..Len(t), U = 1..n
               PROVE  Good(n)
    OBVIOUS
  <2>1. CASE n # 0
    <3>1. n \in N /\ n - 1 \in 0..Len(t) /\ 1..(n - 1) \in (SUBSET U) \ {U}
      BY <2>1
    <3>2. Good(n - 1)
      BY <1>3, <3>1
    <3> QED
      BY <1>2, <3>1, <3>2
  <2> QED
    BY <1>1, <2>1
<1>4. IsFiniteSet(N)
  BY FS_Interval
<1> HIDE DEF G, N
<1>5. N \in G
  BY <1>3, <1>4, SubsetInduction
<1>6. Len(t) \in 0..Len(t) /\ SubSeq(t, 1, Len(t)) = t
  OBVIOUS
<1> QED
  BY <1>5, <1>6 DEF G, N, Good

\* The first of a sequence of numbers and the others make up its sum.
LEMMA SumHead ==
  ASSUME NEW s \in Seq(Nat), s # << >>
  PROVE  /\ Head(s) \in Nat /\ Tail(s) \in Seq(Nat) /\ SumOf(Tail(s)) \in Nat
         /\ SumOf(s) = Head(s) + SumOf(Tail(s))
<1> DEFINE h == Head(s)
           t == Tail(s)
           e == Append(<< >>, h)
<1>1. h \in Nat /\ t \in Seq(Nat) /\ s = e \o t
  OBVIOUS
<1>2. << >> \in Seq(Nat) /\ e \in Seq(Nat)
  BY <1>1
<1> HIDE DEF h, t
<1>3. SumOf(e) = SumOf(<< >>) + h /\ SumOf(<< >>) = 0
  BY <1>1, <1>2, SumAppend, SumSeqType
<1> HIDE DEF e
<1>4. SumOf(s) = SumOf(e) + SumOf(t) /\ SumOf(t) \in Nat
  BY <1>1, <1>2, SumConcat, SumSeqType
<1> QED
  BY <1>1, <1>3, <1>4 DEF h, t
=============================================================================
