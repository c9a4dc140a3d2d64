---------------------- MODULE SequenceFilterTheorems ----------------------
(***************************************************************************)
(* What Kept yields, for sequences of any length.  Induction on lengths is *)
(* had from well-foundedness: a set of naturals that misses some number    *)
(* misses a least one.                                                     *)
(***************************************************************************)
EXTENDS SequenceFilter, NaturalsInduction, WellFoundedInduction, SequenceTheorems, TLAPS

\* Induction on natural numbers, for a set of them.
LEMMA NatSetInduction ==
  ASSUME NEW N, N \subseteq Nat, 0 \in N, \A n \in N : n + 1 \in N
  PROVE  N = Nat
<1> DEFINE R == OpToRel(<, Nat)
<1> SUFFICES ASSUME Nat \ N # {} PROVE FALSE
  OBVIOUS
<1>1. PICK x \in Nat \ N : \A y \in Nat \ N : <<y, x>> \notin R
  BY NatLessThanWellFounded, WFMin
<1>2. x - 1 \in Nat /\ <<x - 1, x>> \in R
  BY DEF OpToRel
<1> HIDE DEF R
<1>3. x - 1 \in N
  BY <1>1, <1>2
<1>4. QED
  BY <1>2, <1>3

\* Induction on sequences, for a set of them.
LEMMA SeqSetInduction ==
  ASSUME NEW X, NEW G, <<>> \in G, \A s \in Seq(X) : \A x \in X : s \in G => Append(s, x) \in G
  PROVE  Seq(X) \subseteq G
<1> DEFINE N == {n \in Nat : \A s \in Seq(X) : Len(s) = n => s \in G}
<1>1. 0 \in N
  BY EmptySeq
<1>2. ASSUME NEW n \in N PROVE n + 1 \in N
  <2> SUFFICES ASSUME NEW s \in Seq(X), Len(s) = n + 1 PROVE s \in G
    OBVIOUS
  <2> DEFINE t == SubSeq(s, 1, n)
  <2>1. t \in Seq(X) /\ Len(t) = n /\ s[n + 1] \in X /\ s = Append(t, s[n + 1])
    OBVIOUS
  <2>2. QED
    BY <2>1
<1>3. N = Nat
  <2> HIDE DEF N
  <2>1. N \subseteq Nat
    BY DEF N
  <2>2. QED BY <1>1, <1>2, <2>1, NatSetInduction
<1>4. QED
  BY <1>3, LenProperties
  
Body(f, s, S, i) ==
  IF i = 0 THEN <<>> ELSE IF s[i] \in S THEN Append(f[i - 1], s[i]) ELSE f[i - 1]
  
IsKept(f, s, S, n) == f = [i \in 0 .. n |-> Body(f, s, S, i)]

LEMMA KeptExists ==
  ASSUME NEW s, NEW S, NEW n \in Nat
  PROVE  \E f : IsKept(f, s, S, n)
<1> DEFINE N == {k \in Nat : \E f : IsKept(f, s, S, k)}
<1>1. 0 \in N
  <2>1. IsKept([i \in 0 .. 0 |-> <<>>], s, S, 0)
     BY DEF IsKept, Body
  <2> QED BY <2>1
<1>2. ASSUME NEW k \in N PROVE k + 1 \in N
  <2>1. PICK f : IsKept(f, s, S, k)
    OBVIOUS
  <2> DEFINE g == [i \in 0 .. k + 1 |-> IF i = k + 1 THEN Body(f, s, S, k + 1) ELSE f[i]]
  <2>a. k \in Nat OBVIOUS
  <2>2. ASSUME NEW i \in 0 .. k + 1 PROVE g[i] = Body(g, s, S, i)
    <3>1. CASE i = k + 1
      BY <3>1 DEF Body
    <3>2. CASE i \in 0 .. k
      <4>1. f[i] = Body(f, s, S, i)
        BY <2>1, <3>2 DEF IsKept
      <4>2. g[i] = f[i] /\ (i # 0 => g[i - 1] = f[i - 1])
        BY <3>2, <2>a
      <4> HIDE DEF g
      <4> QED BY <4>1, <4>2 DEF Body
    <3> QED BY <3>1, <3>2, <2>a
  <2>3. g = [i \in 0 .. k + 1 |-> g[i]]
    OBVIOUS
  <2>4. IsKept(g, s, S, k + 1)
    <3> HIDE DEF g
    <3> QED BY <2>2, <2>3 DEF IsKept
  <2> QED BY <2>4, <2>a
<1> HIDE DEF N
<1>3. N = Nat
  <2>1. N \subseteq Nat
    BY DEF N
  <2>2. QED BY <1>1, <1>2, <2>1, NatSetInduction
<1> QED BY <1>3 DEF N

LEMMA KeptUnique ==
  ASSUME NEW s, NEW t, NEW S, NEW n \in Nat, NEW f, NEW g,
         IsKept(f, s, S, n), IsKept(g, t, S, n + 1), \A i \in 1 .. n : s[i] = t[i]
  PROVE  \A i \in 0 .. n : f[i] = g[i]
<1> DEFINE N == {k \in Nat : k <= n => f[k] = g[k]}
<1>1. 0 \in N
  BY DEF IsKept, Body
<1>2. ASSUME NEW k \in N PROVE k + 1 \in N
  <2> SUFFICES ASSUME k + 1 <= n PROVE f[k + 1] = g[k + 1]
    OBVIOUS
  <2>a. k \in Nat /\ k + 1 \in 0 .. n /\ k + 1 \in 0 .. n + 1
    OBVIOUS
  <2>1. f[k + 1] = Body(f, s, S, k + 1) /\ g[k + 1] = Body(g, t, S, k + 1)
    BY <2>a DEF IsKept
  <2>2. f[k] = g[k] /\ s[k + 1] = t[k + 1] /\ k + 1 # 0 /\ (k + 1) - 1 = k
    BY <2>a
  <2> QED BY <2>1, <2>2 DEF Body
<1> HIDE DEF N
<1>3. N = Nat
  <2>1. N \subseteq Nat
    BY DEF N
  <2>2. QED BY <1>1, <1>2, <2>1, NatSetInduction
<1> QED BY <1>3 DEF N

LEMMA KeptIs ==
  ASSUME NEW s, NEW S, Len(s) \in Nat
  PROVE  \E f : IsKept(f, s, S, Len(s)) /\ Kept(s, S) = f[Len(s)]
<1> DEFINE f == CHOOSE g : IsKept(g, s, S, Len(s))
<1>1. Kept(s, S) = f[Len(s)]
  BY DEF Kept, IsKept, Body
<1>2. IsKept(f, s, S, Len(s))
  BY KeptExists
<1> QED BY <1>1, <1>2

LEMMA KeptEmpty == ASSUME NEW S PROVE Kept(<<>>, S) = <<>>
<1>1. PICK f : IsKept(f, <<>>, S, 0) /\ Kept(<<>>, S) = f[0]
  BY KeptIs
<1> QED BY <1>1 DEF IsKept, Body

LEMMA KeptAppend ==
  ASSUME NEW X, NEW s \in Seq(X), NEW x \in X, NEW S
  PROVE  Kept(Append(s, x), S) = IF x \in S THEN Append(Kept(s, S), x) ELSE Kept(s, S)
<1> DEFINE n == Len(s) 
           t == Append(s, x)
<1>1. n \in Nat /\ t \in Seq(X) /\ Len(t) = n + 1 /\ t[n + 1] = x /\ \A i \in 1 .. n : t[i] = s[i]
  OBVIOUS
<1>2. PICK f : IsKept(f, s, S, n) /\ Kept(s, S) = f[n]
  BY <1>1, KeptIs
<1> HIDE DEF n, t
<1>3. PICK g : IsKept(g, t, S, n + 1) /\ Kept(t, S) = g[n + 1]
  BY <1>1, KeptIs
<1>4. f[n] = g[n]
  <2>1. n \in Nat /\ n \in 0 .. n /\ \A i \in 1 .. n : s[i] = t[i]
    BY <1>1
  <2>2. \A i \in 0 .. n : f[i] = g[i]
    BY <1>2, <1>3, <2>1, KeptUnique
  <2>3. QED
    BY <2>1, <2>2
<1>5. g[n + 1] = Body(g, t, S, n + 1)
  <2>1. n + 1 \in 0 .. n + 1
    BY <1>1
  <2>2. QED
    BY <1>3, <2>1 DEF IsKept
<1> QED BY <1>1, <1>2, <1>3, <1>4, <1>5 DEF Body, n, t

-----------------------------------------------------------------------------
\* The elements of Kept(s, S) are those of s that are in S.
LEMMA KeptType ==
  ASSUME NEW X, NEW S, NEW s \in Seq(X)
  PROVE  Kept(s, S) \in Seq(X \cap S) /\ Kept(s, S) \in Seq(X) /\ Len(Kept(s, S)) <= Len(s)
<1> DEFINE G == {t \in Seq(X) : Kept(t, S) \in Seq(X \cap S) /\ Len(Kept(t, S)) <= Len(t)}
<1>1. <<>> \in G
  <2>1. <<>> \in Seq(X) /\ <<>> \in Seq(X \cap S) /\ Len(<<>>) <= Len(<<>>)
    OBVIOUS
  <2> QED BY <2>1, KeptEmpty
<1>2. ASSUME NEW t \in Seq(X), NEW x \in X, t \in G PROVE Append(t, x) \in G
  <2> DEFINE k == Kept(t, S)
  <2>1. k \in Seq(X \cap S) /\ Len(k) <= Len(t)
    BY <1>2
  <2>2. Kept(Append(t, x), S) = IF x \in S THEN Append(k, x) ELSE k
    BY KeptAppend
  <2>3. Append(t, x) \in Seq(X) /\ Len(Append(t, x)) = Len(t) + 1 /\ Len(t) \in Nat
    OBVIOUS
  <2> HIDE DEF k
  <2>4. x \in S => Append(k, x) \in Seq(X \cap S) /\ Len(Append(k, x)) = Len(k) + 1
    BY <2>1
  <2>5. Len(k) \in Nat
    BY <2>1
  <2>6. Kept(Append(t, x), S) \in Seq(X \cap S) /\ Len(Kept(Append(t, x), S)) <= Len(t) + 1
    BY <2>1, <2>2, <2>3, <2>4, <2>5
  <2> QED BY <2>3, <2>6
<1> HIDE DEF G
<1>3. Seq(X) \subseteq G
  BY <1>1, <1>2, SeqSetInduction
<1>4. s \in G
  BY <1>3
<1> QED BY <1>4 DEF G

Has(s, e) == \E i \in 1 .. Len(s) : s[i] = e

LEMMA HasAppend ==
  ASSUME NEW Y, NEW t \in Seq(Y), NEW y, NEW e
  PROVE  Has(Append(t, y), e) <=> Has(t, e) \/ y = e
<1>1. /\ Len(t) \in Nat /\ Len(Append(t, y)) = Len(t) + 1 /\ Append(t, y)[Len(t) + 1] = y
      /\ \A i \in 1 .. Len(t) : Append(t, y)[i] = t[i]
  OBVIOUS
<1>2. ASSUME Has(Append(t, y), e), y # e PROVE Has(t, e)
  <2>1. PICK i \in 1 .. Len(t) + 1 : Append(t, y)[i] = e
    BY <1>1, <1>2 DEF Has
  <2> QED BY <1>1, <1>2, <2>1 DEF Has
<1>3. ASSUME Has(t, e) PROVE Has(Append(t, y), e)
  <2>1. PICK i \in 1 .. Len(t) : t[i] = e
    BY <1>3 DEF Has
  <2>2. i \in 1 .. Len(t) + 1
    BY <1>1
  <2> QED BY <1>1, <2>1, <2>2 DEF Has
<1>4. ASSUME y = e PROVE Has(Append(t, y), e)
  <2>1. Len(t) + 1 \in 1 .. Len(t) + 1
    BY <1>1
  <2> QED BY <1>1, <1>4, <2>1 DEF Has
<1> QED BY <1>2, <1>3, <1>4

LEMMA KeptElements ==
  ASSUME NEW X, NEW S, NEW s \in Seq(X), NEW e
  PROVE  Has(Kept(s, S), e) <=> e \in S /\ Has(s, e)
<1> DEFINE G == {t \in Seq(X) : Has(Kept(t, S), e) <=> e \in S /\ Has(t, e)}
<1>1. <<>> \in G
  BY KeptEmpty DEF Has
<1>2. ASSUME NEW t \in Seq(X), NEW x \in X, t \in G PROVE Append(t, x) \in G
  <2> DEFINE k == Kept(t, S)
  <2>1. k \in Seq(X) /\ (Has(k, e) <=> e \in S /\ Has(t, e))
    BY <1>2, KeptType
  <2>2. Kept(Append(t, x), S) = IF x \in S THEN Append(k, x) ELSE k
    BY KeptAppend
  <2> HIDE DEF k
  <2>3. (Has(Append(k, x), e) <=> Has(k, e) \/ x = e) /\ (Has(Append(t, x), e) <=> Has(t, e) \/ x = e)
    <3>1. Has(Append(k, x), e) <=> Has(k, e) \/ x = e
      BY HasAppend, <2>1
    <3>2. Has(Append(t, x), e) <=> Has(t, e) \/ x = e
      BY HasAppend
    <3> QED BY <3>1, <3>2
  <2>4. Append(t, x) \in Seq(X)
    OBVIOUS
  <2>5. Has(Kept(Append(t, x), S), e) <=> e \in S /\ Has(Append(t, x), e)
    BY <2>1, <2>2, <2>3
  <2> QED BY <2>4, <2>5
<1> HIDE DEF G
<1>3. Seq(X) \subseteq G
  BY <1>1, <1>2, SeqSetInduction
<1>4. s \in G
  BY <1>3
<1> QED BY <1>4 DEF G

\* No element comes twice.
Distinct(s) == \A i, j \in 1 .. Len(s) : s[i] = s[j] => i = j

LEMMA DistinctAppend ==
  ASSUME NEW X, NEW s \in Seq(X), NEW x
  PROVE  Distinct(Append(s, x)) <=> Distinct(s) /\ ~Has(s, x)
<1>1. /\ Len(s) \in Nat /\ Len(Append(s, x)) = Len(s) + 1 /\ Append(s, x)[Len(s) + 1] = x
      /\ \A i \in 1 .. Len(s) : Append(s, x)[i] = s[i] /\ i \in 1 .. Len(s) + 1
      /\ Len(s) + 1 \in 1 .. Len(s) + 1
      /\ \A i \in 1 .. Len(s) + 1 : i \in 1 .. Len(s) \/ i = Len(s) + 1
      /\ \A i \in 1 .. Len(s) : i # Len(s) + 1
  OBVIOUS
<1>2. ASSUME Distinct(Append(s, x)) PROVE Distinct(s)
  BY <1>1, <1>2 DEF Distinct
<1>3. ASSUME Distinct(Append(s, x)) PROVE ~Has(s, x)
  BY <1>1, <1>3 DEF Distinct, Has
<1>4. ASSUME Distinct(s), ~Has(s, x) PROVE Distinct(Append(s, x))
  <2> SUFFICES ASSUME NEW i \in 1 .. Len(s) + 1, NEW j \in 1 .. Len(s) + 1,
                      Append(s, x)[i] = Append(s, x)[j]
               PROVE  i = j
    BY <1>1 DEF Distinct
  <2> QED BY <1>1, <1>4 DEF Distinct, Has
<1> QED BY <1>2, <1>3, <1>4

LEMMA KeptDistinct ==
  ASSUME NEW X, NEW S, NEW s \in Seq(X), Distinct(s)
  PROVE  Distinct(Kept(s, S))
<1> DEFINE G == {t \in Seq(X) : Distinct(t) => Distinct(Kept(t, S))}
<1>1. <<>> \in G
  BY KeptEmpty
<1>2. ASSUME NEW t \in Seq(X), NEW x \in X, t \in G PROVE Append(t, x) \in G
  <2> DEFINE k == Kept(t, S)
  <2>1. k \in Seq(X) /\ (Distinct(t) => Distinct(k))
    BY <1>2, KeptType
  <2>2. Kept(Append(t, x), S) = IF x \in S THEN Append(k, x) ELSE k
    BY KeptAppend
  <2>3. Has(k, x) <=> x \in S /\ Has(t, x)
    BY KeptElements
  <2> HIDE DEF k
  <2>4. ASSUME Distinct(Append(t, x)) PROVE Distinct(k) /\ Distinct(Append(k, x))
    BY <2>1, <2>3, <2>4, DistinctAppend
  <2>5. Append(t, x) \in Seq(X)
    OBVIOUS
  <2> QED BY <2>2, <2>4, <2>5
<1> HIDE DEF G
<1>3. Seq(X) \subseteq G
  BY <1>1, <1>2, SeqSetInduction
<1>4. s \in G
  BY <1>3
<1> QED BY <1>4 DEF G

\* Sets that agree on the elements of s keep the same.
LEMMA KeptSame ==
  ASSUME NEW X, NEW S, NEW T, NEW s \in Seq(X),
         \A i \in 1 .. Len(s) : s[i] \in S <=> s[i] \in T
  PROVE  Kept(s, S) = Kept(s, T)
<1> DEFINE Agree(t) == \A i \in 1 .. Len(t) : t[i] \in S <=> t[i] \in T
           G == {t \in Seq(X) : Agree(t) => Kept(t, S) = Kept(t, T)}
<1>1. <<>> \in G
  BY KeptEmpty
<1>2. ASSUME NEW t \in Seq(X), NEW x \in X, t \in G PROVE Append(t, x) \in G
  <2>1. /\ Len(Append(t, x)) = Len(t) + 1 /\ Len(t) \in Nat /\ Append(t, x)[Len(t) + 1] = x
        /\ \A i \in 1 .. Len(t) : Append(t, x)[i] = t[i]
        /\ Append(t, x) \in Seq(X)
    OBVIOUS
  <2>2. ASSUME Agree(Append(t, x)) PROVE Agree(t) /\ (x \in S <=> x \in T)
    <3>1. /\ Len(t) + 1 \in 1 .. Len(t) + 1
          /\ \A i \in 1 .. Len(t) : i \in 1 .. Len(t) + 1
      BY <2>1
    <3> QED BY <2>1, <2>2, <3>1
  <2> HIDE DEF Agree
  <2>3. ASSUME Agree(Append(t, x)) PROVE Kept(Append(t, x), S) = Kept(Append(t, x), T)
    <3>1. Kept(t, S) = Kept(t, T)
      BY <1>2, <2>2, <2>3
    <3>2. /\ Kept(Append(t, x), S) = IF x \in S THEN Append(Kept(t, S), x) ELSE Kept(t, S)
          /\ Kept(Append(t, x), T) = IF x \in T THEN Append(Kept(t, T), x) ELSE Kept(t, T)
      BY KeptAppend
    <3> QED BY <2>2, <2>3, <3>1, <3>2
  <2> QED BY <2>1, <2>3
<1> HIDE DEF G
<1>3. Seq(X) \subseteq G
  BY <1>1, <1>2, SeqSetInduction
<1>4. s \in G
  BY <1>3
<1> QED BY <1>4 DEF G

LEMMA KeptAll ==
  ASSUME NEW X, NEW s \in Seq(X) PROVE Kept(s, X) = s
<1> DEFINE G == {t \in Seq(X) : Kept(t, X) = t}
<1>1. <<>> \in G
  BY KeptEmpty
<1>2. ASSUME NEW t \in Seq(X), NEW x \in X, t \in G PROVE Append(t, x) \in G
  BY <1>2, KeptAppend
<1> HIDE DEF G
<1>3. Seq(X) \subseteq G
  BY <1>1, <1>2, SeqSetInduction
<1>4. s \in G
  BY <1>3
<1> QED BY <1>4 DEF G

LEMMA KeptConcat ==
  ASSUME NEW X, NEW S, NEW r \in Seq(X), NEW s \in Seq(X)
  PROVE  Kept(r \o s, S) = Kept(r, S) \o Kept(s, S)
<1> DEFINE G == {t \in Seq(X) : Kept(r \o t, S) = Kept(r, S) \o Kept(t, S)}
<1>0. Kept(r, S) \in Seq(X)
  BY KeptType
<1>1. <<>> \in G
  BY <1>0, KeptEmpty
<1>2. ASSUME NEW t \in Seq(X), NEW x \in X, t \in G PROVE Append(t, x) \in G
  <2> DEFINE k == Kept(t, S)
             q == Kept(r, S)
  <2>1. k \in Seq(X) /\ q \in Seq(X) /\ Kept(r \o t, S) = q \o k
    BY <1>0, <1>2, KeptType
  <2>2. Kept(Append(t, x), S) = IF x \in S THEN Append(k, x) ELSE k
    BY KeptAppend
  <2>3. r \o t \in Seq(X) /\ r \o Append(t, x) = Append(r \o t, x) /\ Append(t, x) \in Seq(X)
    OBVIOUS
  <2>4. Kept(r \o Append(t, x), S) = IF x \in S THEN Append(Kept(r \o t, S), x) ELSE Kept(r \o t, S)
    BY <2>3, KeptAppend
  <2>5. q \o Append(k, x) = Append(q \o k, x)
    <3> HIDE DEF k, q
    <3> QED BY <2>1
  <2> QED BY <2>1, <2>2, <2>3, <2>4, <2>5
<1> HIDE DEF G
<1>3. Seq(X) \subseteq G
  BY <1>1, <1>2, SeqSetInduction
<1>4. s \in G
  BY <1>3
<1> QED BY <1>4 DEF G
=============================================================================
