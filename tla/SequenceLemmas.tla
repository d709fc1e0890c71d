--------------------------- MODULE SequenceLemmas ---------------------------
(***************************************************************************)
(* What the proofs need to know of sequences that are used as lists: how   *)
(* their members change when one is added or taken out.                    *)
(***************************************************************************)
EXTENDS Naturals, Sequences, SequencesExt, ListFilter, SequenceTheorems,
        WellFoundedInduction, TLAPS

\* Taking one entry out of a sequence.
LEMMA RemoveAtProperties ==
    ASSUME NEW S, NEW s \in Seq(S), NEW i \in 1 .. Len(s)
    PROVE  RemoveAt(s, i) \in Seq(S) /\ Len(RemoveAt(s, i)) = Len(s) - 1
<1> DEFINE before == SubSeq(s, 1, i - 1)
           after  == SubSeq(s, i + 1, Len(s))
<1>1. before \in Seq(S) /\ Len(before) = i - 1
  BY SubSeqProperties, SMT
<1>2. after \in Seq(S) /\ Len(after) = Len(s) - i
  BY SubSeqProperties, SMT
<1>3. RemoveAt(s, i) = before \o after
  BY DEF RemoveAt
<1> HIDE DEF before, after
<1>4. before \o after \in Seq(S) /\ Len(before \o after) = Len(before) + Len(after)
  BY <1>1, <1>2, ConcatProperties
<1>5. QED
  BY <1>1, <1>2, <1>3, <1>4, LenProperties

\* Contains and ToSet say the same of a sequence.
LEMMA ContainsMember ==
    ASSUME NEW S, NEW s \in Seq(S), NEW e
    PROVE  Contains(s, e) <=> e \in ToSet(s)
<1>1. DOMAIN s = 1 .. Len(s)
  BY LenProperties
<1>2. QED
  BY <1>1 DEF Contains, ToSet

\* What a sequence contains after an append, and when it stays free of
\* duplicates.
LEMMA AppendMembers ==
    ASSUME NEW S, NEW s \in Seq(S), NEW e \in S
    PROVE  /\ Append(s, e) \in Seq(S)
           /\ ToSet(Append(s, e)) = ToSet(s) \cup {e}
           /\ IsInjective(s) /\ e \notin ToSet(s) => IsInjective(Append(s, e))
<1> DEFINE t == Append(s, e)
<1>1. /\ t \in Seq(S) /\ Len(t) = Len(s) + 1
      /\ \A i \in 1 .. Len(s) : t[i] = s[i]
      /\ t[Len(s) + 1] = e
  BY AppendProperties
<1>2. /\ DOMAIN s = 1 .. Len(s) /\ Len(s) \in Nat
      /\ DOMAIN t = 1 .. (Len(s) + 1)
  BY <1>1, LenProperties
<1> HIDE DEF t
<1>3. DOMAIN t = DOMAIN s \cup {Len(s) + 1} /\ (Len(s) + 1) \notin DOMAIN s
  BY <1>2
<1>4. ToSet(t) = ToSet(s) \cup {e}
  BY <1>1, <1>2, <1>3 DEF ToSet
<1>5. ASSUME IsInjective(s), e \notin ToSet(s)
      PROVE  IsInjective(t)
  BY <1>1, <1>2, <1>3, <1>5 DEF IsInjective, ToSet
<1>6. QED
  BY <1>1, <1>4, <1>5 DEF t


\* Where the entries of a sequence are after one is taken out.
LEMMA RemoveAtEntries ==
    ASSUME NEW S, NEW s \in Seq(S), NEW i \in 1 .. Len(s)
    PROVE  \A j \in 1 .. (Len(s) - 1) :
              RemoveAt(s, i)[j] = IF j < i THEN s[j] ELSE s[j + 1]
<1> DEFINE before == SubSeq(s, 1, i - 1)
           after  == SubSeq(s, i + 1, Len(s))
<1>1. /\ before \in Seq(S) /\ Len(before) = i - 1
      /\ \A j \in 1 .. (i - 1) : before[j] = s[j]
  BY SubSeqProperties, SMT
<1>2. /\ after \in Seq(S) /\ Len(after) = Len(s) - i
      /\ \A j \in 1 .. (Len(s) - i) : after[j] = s[i + j]
  BY SubSeqProperties, SMT
<1>3. RemoveAt(s, i) = before \o after
  BY DEF RemoveAt
<1> HIDE DEF before, after
<1>4. \A j \in 1 .. (Len(before) + Len(after)) :
         (before \o after)[j] = IF j <= Len(before) THEN before[j] ELSE after[j - Len(before)]
  BY <1>1, <1>2, ConcatProperties
<1>5. TAKE j \in 1 .. (Len(s) - 1)
<1>6. CASE j < i
  BY <1>1, <1>2, <1>3, <1>4, <1>6, LenProperties
<1>7. CASE ~(j < i)
  <2>1. (before \o after)[j] = after[j - (i - 1)]
    BY <1>1, <1>2, <1>4, <1>7, LenProperties
  <2>2. j - (i - 1) \in 1 .. (Len(s) - i) /\ i + (j - (i - 1)) = j + 1
    BY <1>7, LenProperties
  <2>3. QED
    BY <1>2, <1>3, <1>7, <2>1, <2>2
<1>8. QED
  BY <1>6, <1>7

\* What a sequence without duplicates loses by taking out one entry.
LEMMA RemoveAtMembers ==
    ASSUME NEW S, NEW s \in Seq(S), NEW i \in 1 .. Len(s), IsInjective(s)
    PROVE  /\ RemoveAt(s, i) \in Seq(S)
           /\ ToSet(RemoveAt(s, i)) = ToSet(s) \ {s[i]}
           /\ IsInjective(RemoveAt(s, i))
<1> DEFINE t == RemoveAt(s, i)
<1>1. /\ t \in Seq(S) /\ Len(t) = Len(s) - 1
      /\ \A j \in 1 .. (Len(s) - 1) : t[j] = IF j < i THEN s[j] ELSE s[j + 1]
  BY RemoveAtProperties, RemoveAtEntries
<1>2. /\ DOMAIN s = 1 .. Len(s) /\ Len(s) \in Nat
      /\ DOMAIN t = 1 .. (Len(s) - 1)
  BY <1>1, LenProperties
<1> HIDE DEF t
<1>3. \A j, k \in 1 .. Len(s) : s[j] = s[k] => j = k
  BY <1>2 DEF IsInjective
<1>4. IsInjective(t)
  BY <1>1, <1>2, <1>3 DEF IsInjective
<1>5. ASSUME NEW e \in ToSet(t) PROVE e \in ToSet(s) \ {s[i]}
  <2>1. PICK j \in 1 .. (Len(s) - 1) : e = t[j]
    BY <1>2 DEF ToSet
  <2>2. PICK k \in 1 .. Len(s) : e = s[k] /\ k # i
    BY <1>1, <1>2, <2>1
  <2>3. QED
    BY <1>2, <1>3, <2>2 DEF ToSet
<1>6. ASSUME NEW e \in ToSet(s) \ {s[i]} PROVE e \in ToSet(t)
  <2>1. PICK k \in 1 .. Len(s) : e = s[k] /\ k # i
    BY <1>2 DEF ToSet
  <2>2. CASE k < i
    <3>1. k \in 1 .. (Len(s) - 1) /\ t[k] = e
      BY <1>1, <1>2, <2>1, <2>2
    <3>2. QED
      BY <1>2, <3>1 DEF ToSet
  <2>3. CASE k > i
    <3>1. (k - 1) \in 1 .. (Len(s) - 1) /\ t[k - 1] = e
      BY <1>1, <1>2, <2>1, <2>3
    <3>2. QED
      BY <1>2, <3>1 DEF ToSet
  <2>4. QED
    BY <1>2, <2>1, <2>2, <2>3
<1>7. QED
  BY <1>1, <1>4, <1>5, <1>6 DEF t

-----------------------------------------------------------------------------
(***************************************************************************)
(* Induction. The theorems of the library take an operator, which the      *)
(* provers cannot instantiate; stated for a set of numbers, the principle  *)
(* follows from the fact that < is well-founded (WFMin).                   *)
(***************************************************************************)

\* Every set of natural numbers that is not empty has a least member.
LEMMA LeastNumber ==
    ASSUME NEW T, T \subseteq Nat, T # {}
    PROVE  \E m \in T : \A k \in T : m <= k
<1> DEFINE R == {ss \in Nat \X Nat : ss[1] < ss[2]}
<1>1. IsWellFoundedOn(R, Nat)
  BY NatLessThanWellFounded, Zenon DEF OpToRel
<1> HIDE DEF R
<1>2. PICK m \in T : \A k \in T : ~(<<k,m>> \in R)
  BY <1>1, WFMin
<1>3. ASSUME NEW k \in T PROVE m <= k
  <2>1. k \in Nat /\ m \in Nat
    OBVIOUS
  <2>2. ~(k < m)
    BY <1>2, <2>1 DEF R
  <2>3. QED
    BY <2>1, <2>2
<1>4. QED
  BY <1>3

\* Induction over the numbers up to n, for a set of them.
LEMMA UpToInduction ==
    ASSUME NEW n \in Nat, NEW T, 0 \in T,
           \A i \in 1 .. n : i - 1 \in T => i \in T
    PROVE  0 .. n \subseteq T
<1> DEFINE rest == (0 .. n) \ T
<1>1. SUFFICES ASSUME rest # {} PROVE FALSE
  OBVIOUS
<1>2. rest \subseteq Nat
  OBVIOUS
<1> HIDE DEF rest
<1>3. PICK m \in rest : \A k \in rest : m <= k
  BY <1>1, <1>2, LeastNumber
<1>4. m \in 1 .. n /\ m \notin T
  BY <1>3 DEF rest
<1>5. m - 1 \notin rest
  BY <1>2, <1>3
<1>6. m - 1 \in T
  BY <1>4, <1>5 DEF rest
<1>7. QED
  BY <1>4, <1>6

\* What Filter does with one entry after the other.
NextPrefix(s, K, i, before) == IF s[i] \in K THEN Append(before, s[i]) ELSE before
IsUpTo(g, s, K, n) ==
    g = [i \in 0 .. n |-> IF i = 0 THEN <<>> ELSE NextPrefix(s, K, i, g[i - 1])]

\* The recursive function in Filter exists: by induction on its domain.
LEMMA UpToExists ==
    ASSUME NEW s, NEW K, NEW n \in Nat
    PROVE  \E g : IsUpTo(g, s, K, n)
<1> DEFINE T == {k \in 0 .. n : \E g : IsUpTo(g, s, K, k)}
<1>1. 0 \in T
  <2>1. IsUpTo([i \in 0 .. 0 |-> <<>>], s, K, 0)
    BY DEF IsUpTo
  <2>2. QED BY <2>1
<1>2. ASSUME NEW i \in 1 .. n, i - 1 \in T PROVE i \in T
  <2>1. PICK g : IsUpTo(g, s, K, i - 1)
    BY <1>2
  <2> DEFINE v == NextPrefix(s, K, i, g[i - 1])
             h == [j \in 0 .. i |-> IF j = i THEN v ELSE g[j]]
  <2>2. h[i] = v /\ \A j \in 0 .. (i - 1) : h[j] = g[j]
    OBVIOUS
  <2>3. \A j \in 0 .. (i - 1) :
           g[j] = IF j = 0 THEN <<>> ELSE NextPrefix(s, K, j, g[j - 1])
    BY <2>1, Zenon DEF IsUpTo
  <2>3a. DOMAIN h = 0 .. i /\ h = [j \in 0 .. i |-> h[j]]
    OBVIOUS
  <2> HIDE DEF h
  <2>4. h[0] = <<>> /\ g[i - 1] = h[i - 1]
    BY <2>2, <2>3
  <2>5. ASSUME NEW j \in 1 .. i PROVE h[j] = NextPrefix(s, K, j, h[j - 1])
    <3>1. CASE j = i
      BY <2>2, <2>4, <3>1
    <3>2. CASE j # i
      <4>1. j \in 0 .. (i - 1) /\ j - 1 \in 0 .. (i - 1) /\ j # 0
        BY <3>2
      <4>2. QED
        BY <2>2, <2>3, <4>1
    <3>3. QED BY <3>1, <3>2
  <2> DEFINE r == [j \in 0 .. i |-> IF j = 0 THEN <<>> ELSE NextPrefix(s, K, j, h[j - 1])]
  <2>6. \A j \in 0 .. i : h[j] = r[j]
    BY <2>4, <2>5
  <2>7. h = r
    BY <2>3a, <2>6
  <2>8. IsUpTo(h, s, K, i)
    BY <2>7, Zenon DEF IsUpTo
  <2>9. QED BY <2>8
<1> HIDE DEF T
<1>3. n \in T
  BY <1>1, <1>2, UpToInduction
<1>4. QED
  BY <1>3 DEF T

\* Filter is the last value of that function.
LEMMA FilterRecursion ==
    ASSUME NEW s, NEW K, Len(s) \in Nat
    PROVE  \E g : IsUpTo(g, s, K, Len(s)) /\ Filter(s, K) = g[Len(s)]
<1> DEFINE g == CHOOSE g : g = [i \in 0 .. Len(s) |->
          IF i = 0 THEN <<>>
          ELSE IF s[i] \in K THEN Append(g[i - 1], s[i])
          ELSE g[i - 1]]
<1>1. \E f : f = [i \in 0 .. Len(s) |->
          IF i = 0 THEN <<>>
          ELSE IF s[i] \in K THEN Append(f[i - 1], s[i])
          ELSE f[i - 1]]
  <2>1. PICK f : IsUpTo(f, s, K, Len(s))
    BY UpToExists
  <2>2. QED
    BY <2>1, Zenon DEF IsUpTo, NextPrefix
<1>2. g = [i \in 0 .. Len(s) |->
          IF i = 0 THEN <<>>
          ELSE IF s[i] \in K THEN Append(g[i - 1], s[i])
          ELSE g[i - 1]]
  BY <1>1, Zenon
<1>3. Filter(s, K) = g[Len(s)]
  BY Zenon DEF Filter
<1>4. IsUpTo(g, s, K, Len(s))
  BY <1>2, Zenon DEF IsUpTo, NextPrefix
<1>5. QED BY <1>3, <1>4

\* t is what is picked from the first i entries of s: every entry of t comes from
\* one of s that is in K, in the order of s, and none of those is missing.
IsPicked(t, s, K, i) ==
    /\ Len(t) <= i
    /\ \E from \in [1 .. Len(t) -> 1 .. i] :
          /\ \A k \in 1 .. Len(t) : t[k] = s[from[k]] /\ t[k] \in K
          /\ \A j, k \in 1 .. Len(t) : j < k => from[j] < from[k]
    /\ \A j \in 1 .. i : s[j] \in K => \E k \in 1 .. Len(t) : t[k] = s[j]

\* The induction: nothing is picked from no entries, ...
LEMMA PickNothing ==
    ASSUME NEW s, NEW K, NEW t, Len(t) = 0
    PROVE  IsPicked(t, s, K, 0)
<1> DEFINE from == [k \in 1 .. 0 |-> 0]
<1>1. /\ from \in [1 .. Len(t) -> 1 .. 0]
      /\ ~\E k \in 1 .. Len(t) : TRUE
      /\ ~\E j \in 1 .. 0 : TRUE
  OBVIOUS
<1> HIDE DEF from
<1>2. /\ \A k \in 1 .. Len(t) : t[k] = s[from[k]] /\ t[k] \in K
      /\ \A j, k \in 1 .. Len(t) : j < k => from[j] < from[k]
      /\ \A j \in 1 .. 0 : s[j] \in K => \E k \in 1 .. Len(t) : t[k] = s[j]
      /\ Len(t) <= 0
  BY <1>1
<1>3. QED
  BY <1>1, <1>2, Zenon DEF IsPicked

\* ... and one entry after the other.
LEMMA PickNext ==
    ASSUME NEW S, NEW s \in Seq(S), NEW K, NEW i \in 1 .. Len(s),
           NEW b \in Seq(S), IsPicked(b, s, K, i - 1)
    PROVE  /\ NextPrefix(s, K, i, b) \in Seq(S)
           /\ IsPicked(NextPrefix(s, K, i, b), s, K, i)
<1> DEFINE t == NextPrefix(s, K, i, b)
<1>1. s[i] \in S /\ Len(b) \in Nat /\ Len(s) \in Nat
  BY ElementOfSeq, LenProperties
<1>2. PICK from \in [1 .. Len(b) -> 1 .. (i - 1)] :
         /\ \A k \in 1 .. Len(b) : b[k] = s[from[k]] /\ b[k] \in K
         /\ \A j, k \in 1 .. Len(b) : j < k => from[j] < from[k]
  BY DEF IsPicked
<1>3. CASE s[i] \notin K
  <2>1. t = b
    BY <1>3 DEF NextPrefix
  <2>2. from \in [1 .. Len(b) -> 1 .. i]
    BY <1>1, <1>2
  <2>3. Len(b) <= i
    BY <1>1 DEF IsPicked
  <2>4. \A j \in 1 .. i : s[j] \in K => \E k \in 1 .. Len(b) : b[k] = s[j]
    BY <1>1, <1>3 DEF IsPicked
  <2>5. IsPicked(b, s, K, i)
    BY <1>2, <2>2, <2>3, <2>4 DEF IsPicked
  <2>6. QED
    BY <2>1, <2>5
<1>4. CASE s[i] \in K
  <2> DEFINE m == Len(b) + 1
             into == [k \in 1 .. m |-> IF k = m THEN i ELSE from[k]]
  <2>1. t = Append(b, s[i])
    BY <1>4 DEF NextPrefix
  <2> HIDE DEF t
  <2>2. /\ t \in Seq(S) /\ Len(t) = m
        /\ \A k \in 1 .. Len(b) : t[k] = b[k]
        /\ t[m] = s[i]
    BY <1>1, <2>1, AppendProperties
  <2>3. into \in [1 .. m -> 1 .. i]
    BY <1>1, <1>2
  <2>4. /\ \A k \in 1 .. Len(b) : k \in 1 .. m /\ k # m /\ into[k] = from[k]
        /\ m \in 1 .. m /\ into[m] = i
    BY <1>1
  <2> HIDE DEF into
  <2>5. ASSUME NEW k \in 1 .. m PROVE t[k] = s[into[k]] /\ t[k] \in K
    <3>1. CASE k = m
      BY <1>4, <2>2, <2>4, <3>1
    <3>2. CASE k # m
      <4>1. k \in 1 .. Len(b)
        BY <1>1, <3>2
      <4>2. QED
        BY <1>2, <2>2, <2>4, <4>1
    <3>3. QED
      BY <3>1, <3>2
  <2>6. ASSUME NEW j \in 1 .. m, NEW k \in 1 .. m, j < k PROVE into[j] < into[k]
    <3>1. j \in 1 .. Len(b) /\ into[j] = from[j] /\ from[j] \in 1 .. (i - 1)
      BY <1>1, <1>2, <2>4, <2>6
    <3>2. CASE k = m
      BY <2>4, <3>1, <3>2
    <3>3. CASE k # m
      <4>1. k \in 1 .. Len(b)
        BY <1>1, <3>3
      <4>2. QED
        BY <1>2, <2>4, <2>6, <3>1, <4>1
    <3>4. QED
      BY <3>2, <3>3
  <2>7. ASSUME NEW j \in 1 .. i, s[j] \in K PROVE \E k \in 1 .. m : t[k] = s[j]
    <3>1. CASE j = i
      BY <2>2, <2>4, <3>1
    <3>2. CASE j # i
      <4>1. j \in 1 .. (i - 1)
        BY <3>2
      <4>2. PICK k \in 1 .. Len(b) : b[k] = s[j]
        BY <2>7, <4>1 DEF IsPicked
      <4>3. QED
        BY <2>2, <2>4, <4>2
    <3>3. QED
      BY <3>1, <3>2
  <2>8. Len(t) <= i
    BY <1>1, <2>2 DEF IsPicked
  <2> HIDE DEF m
  <2>9. IsPicked(t, s, K, i)
    BY <2>2, <2>3, <2>5, <2>6, <2>7, <2>8 DEF IsPicked
  <2>10. QED
    BY <2>2, <2>9 DEF t
<1>5. QED
  BY <1>3, <1>4

\* By induction, Filter picks them from the whole list.
LEMMA FilterPicks ==
    ASSUME NEW S, NEW s \in Seq(S), NEW K
    PROVE  Filter(s, K) \in Seq(S) /\ IsPicked(Filter(s, K), s, K, Len(s))
<1>1. Len(s) \in Nat
  BY LenProperties
<1>2. PICK g : IsUpTo(g, s, K, Len(s)) /\ Filter(s, K) = g[Len(s)]
  BY <1>1, FilterRecursion
<1> DEFINE T == {i \in 0 .. Len(s) : g[i] \in Seq(S) /\ IsPicked(g[i], s, K, i)}
<1>3. g[0] = <<>> /\ \A i \in 1 .. Len(s) : g[i] = NextPrefix(s, K, i, g[i - 1])
  BY <1>1, <1>2 DEF IsUpTo
<1>4. 0 \in T
  <2>1. g[0] \in Seq(S) /\ Len(g[0]) = 0
    BY <1>3, EmptySeq
  <2>2. IsPicked(g[0], s, K, 0)
    BY <2>1, PickNothing
  <2>3. QED
    BY <1>1, <2>1, <2>2
<1>5. ASSUME NEW i \in 1 .. Len(s), i - 1 \in T
      PROVE  i \in T
  <2>1. g[i] \in Seq(S) /\ IsPicked(g[i], s, K, i)
    BY <1>3, <1>5, PickNext
  <2>2. QED
    BY <2>1
<1> HIDE DEF T
<1>6. Len(s) \in T
  <2>1. 0 .. Len(s) \subseteq T
    BY <1>1, <1>4, <1>5, UpToInduction, Zenon
  <2>2. QED
    BY <1>1, <2>1
<1>7. QED
  BY <1>2, <1>6 DEF T

\* What the proofs that use Filter need of it.
LEMMA FilterProperties ==
    ASSUME NEW S, NEW s \in Seq(S), NEW K
    PROVE  /\ Filter(s, K) \in Seq(S)
           /\ Len(Filter(s, K)) <= Len(s)
           /\ ToSet(Filter(s, K)) = ToSet(s) \cap K
           /\ IsInjective(s) => IsInjective(Filter(s, K))
<1> DEFINE t == Filter(s, K)
<1>1. t \in Seq(S) /\ IsPicked(t, s, K, Len(s))
  BY FilterPicks
<1> HIDE DEF t
<1>2. /\ DOMAIN s = 1 .. Len(s) /\ Len(s) \in Nat
      /\ DOMAIN t = 1 .. Len(t) /\ Len(t) \in Nat
  BY <1>1, LenProperties
<1>3. PICK from \in [1 .. Len(t) -> 1 .. Len(s)] :
         /\ \A k \in 1 .. Len(t) : t[k] = s[from[k]] /\ t[k] \in K
         /\ \A j, k \in 1 .. Len(t) : j < k => from[j] < from[k]
  BY <1>1 DEF IsPicked
<1>4. ToSet(t) \subseteq ToSet(s) \cap K
  BY <1>2, <1>3 DEF ToSet
<1>5. ToSet(s) \cap K \subseteq ToSet(t)
  BY <1>1, <1>2 DEF ToSet, IsPicked
<1>6. ASSUME IsInjective(s) PROVE IsInjective(t)
  <2>1. ASSUME NEW j \in 1 .. Len(t), NEW k \in 1 .. Len(t), t[j] = t[k], j # k
        PROVE  FALSE
    <3>1. from[j] \in 1 .. Len(s) /\ from[k] \in 1 .. Len(s) /\ s[from[j]] = s[from[k]]
      BY <1>3, <2>1
    <3>2. from[j] = from[k]
      BY <1>2, <1>6, <3>1 DEF IsInjective
    <3>3. j < k \/ k < j
      BY <1>2, <2>1
    <3>4. QED
      BY <1>3, <3>1, <3>2, <3>3
  <2>2. QED
    BY <1>2, <2>1 DEF IsInjective
<1>7. Len(t) <= Len(s)
  BY <1>1 DEF IsPicked
<1>8. QED
  BY <1>1, <1>4, <1>5, <1>6, <1>7 DEF t

-----------------------------------------------------------------------------
\* t is s without some of its entries: what is left moves towards the head, and
\* no entry is there twice that was not before.
Thins(t, s) ==
    \E from \in [1 .. Len(t) -> 1 .. Len(s)] :
       /\ \A k \in 1 .. Len(t) : t[k] = s[from[k]] /\ k <= from[k]
       /\ \A j, k \in 1 .. Len(t) : from[j] = from[k] => j = k

LEMMA RemoveAtThins ==
    ASSUME NEW S, NEW s \in Seq(S), NEW i \in 1 .. Len(s)
    PROVE  Thins(RemoveAt(s, i), s)
<1> DEFINE t == RemoveAt(s, i)
           from == [k \in 1 .. Len(t) |-> IF k < i THEN k ELSE k + 1]
<1>1. /\ Len(s) \in Nat /\ Len(t) = Len(s) - 1
      /\ \A k \in 1 .. (Len(s) - 1) : t[k] = IF k < i THEN s[k] ELSE s[k + 1]
  BY RemoveAtProperties, RemoveAtEntries, LenProperties
<1> HIDE DEF t
<1>2. from \in [1 .. Len(t) -> 1 .. Len(s)]
  BY <1>1
<1>3. \A k \in 1 .. Len(t) : from[k] = IF k < i THEN k ELSE k + 1
  OBVIOUS
<1> HIDE DEF from
<1>4. \A k \in 1 .. Len(t) : t[k] = s[from[k]] /\ k <= from[k]
  BY <1>1, <1>3
<1>5. \A j, k \in 1 .. Len(t) : from[j] = from[k] => j = k
  BY <1>1, <1>3
<1>6. QED
  BY <1>2, <1>4, <1>5 DEF Thins, t

LEMMA FilterThins ==
    ASSUME NEW S, NEW s \in Seq(S), NEW K
    PROVE  Thins(Filter(s, K), s)
<1> DEFINE t == Filter(s, K)
<1>1. t \in Seq(S) /\ IsPicked(t, s, K, Len(s))
  BY FilterPicks
<1> HIDE DEF t
<1>2. Len(s) \in Nat /\ Len(t) \in Nat
  BY <1>1, LenProperties
<1>3. PICK from \in [1 .. Len(t) -> 1 .. Len(s)] :
         /\ \A j \in 1 .. Len(t) : t[j] = s[from[j]] /\ t[j] \in K
         /\ \A i, j \in 1 .. Len(t) : i < j => from[i] < from[j]
  BY <1>1 DEF IsPicked
<1> DEFINE T == {j \in 0 .. Len(t) : j > 0 => j <= from[j]}
<1>4. ASSUME NEW j \in 1 .. Len(t), j - 1 \in T PROVE j \in T
  <2>1. CASE j = 1
    BY <1>3, <2>1
  <2>2. CASE j # 1
    <3>1. j - 1 \in 1 .. Len(t) /\ j - 1 < j /\ j - 1 <= from[j - 1]
      BY <1>2, <1>4, <2>2
    <3>2. from[j - 1] < from[j] /\ from[j - 1] \in Int /\ from[j] \in Int
      BY <1>3, <3>1
    <3>3. QED
      BY <1>2, <3>1, <3>2
  <2>3. QED
    BY <2>1, <2>2
<1>5. 0 \in T
  BY <1>2
<1> HIDE DEF T
<1>6. 0 .. Len(t) \subseteq T
  BY <1>2, <1>4, <1>5, UpToInduction
<1>7. \A k \in 1 .. Len(t) : t[k] = s[from[k]] /\ k <= from[k]
  BY <1>2, <1>3, <1>6 DEF T
<1>8. ASSUME NEW j \in 1 .. Len(t), NEW k \in 1 .. Len(t), from[j] = from[k]
      PROVE  j = k
  BY <1>2, <1>3, <1>8
<1>9. QED
  BY <1>7, <1>8 DEF Thins, t

LEMMA ThinsMembers ==
    ASSUME NEW S, NEW s \in Seq(S), NEW t \in Seq(S), Thins(t, s)
    PROVE  ToSet(t) \subseteq ToSet(s)
<1>1. DOMAIN s = 1 .. Len(s) /\ DOMAIN t = 1 .. Len(t)
  BY LenProperties
<1>2. QED
  BY <1>1 DEF Thins, ToSet

-----------------------------------------------------------------------------
LEMMA PairMembers ==
    ASSUME NEW S, NEW a \in S, NEW b \in S
    PROVE  <<a, b>> \in Seq(S) /\ ToSet(<<a, b>>) = {a, b}
<1> DEFINE p == <<a, b>>
<1>1. p \in Seq(S) /\ Len(p) = 2 /\ p[1] = a /\ p[2] = b
  OBVIOUS
<1> HIDE DEF p
<1>2. DOMAIN p = {1, 2}
  BY <1>1, LenProperties
<1>3. ToSet(p) = {a, b}
  BY <1>1, <1>2 DEF ToSet
<1>4. QED
  BY <1>1, <1>3 DEF p

\* What a list contains that is put in front of another, and one whose head is
\* taken.
LEMMA ConcatMembers ==
    ASSUME NEW S, NEW s \in Seq(S), NEW t \in Seq(S)
    PROVE  s \o t \in Seq(S) /\ ToSet(s \o t) = ToSet(s) \cup ToSet(t)
<1> DEFINE m == s \o t
<1>1. /\ m \in Seq(S) /\ Len(m) = Len(s) + Len(t)
      /\ \A i \in 1 .. (Len(s) + Len(t)) : m[i] = IF i <= Len(s) THEN s[i] ELSE t[i - Len(s)]
  BY ConcatProperties
<1>2. /\ DOMAIN s = 1 .. Len(s) /\ Len(s) \in Nat
      /\ DOMAIN t = 1 .. Len(t) /\ Len(t) \in Nat
      /\ DOMAIN m = 1 .. Len(m)
  BY <1>1, LenProperties
<1> HIDE DEF m
<1>3. ASSUME NEW i \in DOMAIN m PROVE m[i] \in ToSet(s) \cup ToSet(t)
  <2>1. CASE i <= Len(s)
    BY <1>1, <1>2, <2>1 DEF ToSet
  <2>2. CASE ~(i <= Len(s))
    <3>1. i - Len(s) \in DOMAIN t /\ m[i] = t[i - Len(s)]
      BY <1>1, <1>2, <2>2
    <3>2. QED
      BY <3>1 DEF ToSet
  <2>3. QED
    BY <2>1, <2>2
<1>4. ASSUME NEW i \in DOMAIN s PROVE s[i] \in ToSet(m)
  <2>1. i \in DOMAIN m /\ m[i] = s[i]
    BY <1>1, <1>2
  <2>2. QED
    BY <2>1 DEF ToSet
<1>5. ASSUME NEW i \in DOMAIN t PROVE t[i] \in ToSet(m)
  <2>1. Len(s) + i \in DOMAIN m /\ m[Len(s) + i] = t[i]
    BY <1>1, <1>2
  <2>2. QED
    BY <2>1 DEF ToSet
<1>6. ToSet(m) = ToSet(s) \cup ToSet(t)
  BY <1>3, <1>4, <1>5 DEF ToSet
<1>7. QED
  BY <1>1, <1>6 DEF m

LEMMA TailMembers ==
    ASSUME NEW S, NEW s \in Seq(S), s # <<>>
    PROVE  /\ Head(s) \in S /\ Tail(s) \in Seq(S)
           /\ ToSet(s) = {Head(s)} \cup ToSet(Tail(s))
<1> DEFINE t == Tail(s)
<1>1. /\ Head(s) \in S /\ t \in Seq(S) /\ Len(t) = Len(s) - 1
      /\ \A i \in 1 .. Len(t) : t[i] = s[i + 1]
  BY HeadTailProperties
<1>2. /\ DOMAIN s = 1 .. Len(s) /\ Len(s) \in Nat /\ Len(s) # 0
      /\ DOMAIN t = 1 .. Len(t) /\ Head(s) = s[1]
  BY <1>1, LenProperties, EmptySeq
<1> HIDE DEF t
<1>3. ASSUME NEW i \in DOMAIN s PROVE s[i] \in {Head(s)} \cup ToSet(t)
  <2>1. CASE i = 1
    BY <1>2, <2>1
  <2>2. CASE i # 1
    <3>1. i - 1 \in DOMAIN t /\ t[i - 1] = s[i]
      BY <1>1, <1>2, <2>2
    <3>2. QED
      BY <3>1 DEF ToSet
  <2>3. QED
    BY <2>1, <2>2
<1>4. 1 \in DOMAIN s /\ \A i \in DOMAIN t : i + 1 \in DOMAIN s /\ t[i] = s[i + 1]
  BY <1>1, <1>2
<1>5. ToSet(s) = {Head(s)} \cup ToSet(t)
  BY <1>2, <1>3, <1>4 DEF ToSet
<1>6. QED
  BY <1>1, <1>5 DEF t
=============================================================================
