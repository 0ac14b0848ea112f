-------------------------- MODULE SendActionProofs --------------------------
(***************************************************************************)
(* Theorems about SendAction, for every size of the limits, every          *)
(* environment and every workload.                                         *)
(*                                                                         *)
(* From the first invariant: the body limit never gets in the way of files *)
(* within the cap, the gateway key decides, and the endpoint guard knows   *)
(* every non-public address.  From the second, with lemmas about sums,     *)
(* subsequences and the operators of Outgoing and Endpoints: the cap is    *)
(* exact, names are safe, everybody is served and nobody blind named, what *)
(* is told is what is sent, and the best server is picked.                 *)
(***************************************************************************)
EXTENDS SendAction, FiniteSetTheorems, WellFoundedInduction, TLAPS

-----------------------------------------------------------------------------
(* Numbers, sums and subsequences *)

\* The least number: the induction of the lemmas below.
LEMMA Minimal ==
  ASSUME NEW T, T \subseteq Nat, T # {}
  PROVE \E m \in T : \A n \in T : m <= n
<1> DEFINE R == {p \in Nat \X Nat : p[1] < p[2]}
<1>0. R = OpToRel(<, Nat)  BY DEF OpToRel
<1>1. IsWellFoundedOn(R, Nat) BY <1>0, NatLessThanWellFounded
<1>2. \E x \in T : \A y \in T : ~ (<<y, x>> \in R)  
  <2> HIDE DEF R
  <2> QED BY <1>1, WFMin
<1>3. PICK x \in T : \A y \in T : ~ (<<y, x>> \in R)   BY <1>2
<1>4. ASSUME NEW y \in T PROVE x <= y
  <2>1. x \in Nat /\ y \in Nat OBVIOUS
  <2>2. <<y, x>> \notin R BY <1>3
  <2>3. ~(y < x) BY <2>1, <2>2
  <2> QED BY <2>1, <2>3
<1> QED BY <1>4

\* Induction, with the property as a set of numbers.
LEMMA Induction ==
  ASSUME NEW T, 0 \in T, \A n \in Nat : n \in T => n + 1 \in T
  PROVE  \A n \in Nat : n \in T
<1> SUFFICES ASSUME Nat \ T # {} PROVE FALSE
  OBVIOUS
<1>1. PICK m \in Nat \ T : \A n \in Nat \ T : m <= n
  BY Minimal
<1>2. m # 0 /\ m \in Nat
  OBVIOUS
<1>3. m - 1 \in Nat /\ m - 1 \in T
  BY <1>1, <1>2
<1> QED  BY <1>2, <1>3

\* A function may be defined by recursion on the numbers up to N.
LEMMA Recursion ==
    ASSUME NEW Rule \in [Nat \X Nat -> Nat], NEW N \in Nat
    PROVE  \E g \in [0 .. N -> Nat] : g[0] = 0 /\ \A n \in 1 .. N : g[n] = Rule[<<g[n - 1], n>>]
<1> DEFINE Good(m, g) == /\ g \in [0 .. m -> Nat] /\ g[0] = 0 
                         /\ \A n \in 1 .. m : g[n] = Rule[<<g[n - 1], n>>]
           T == {m \in Nat : \E g : Good(m, g)}
<1>1. 0 \in T
  <2>1. Good(0, [n \in 0 .. 0 |-> 0])
    OBVIOUS
  <2> QED  BY <2>1
<1>2. ASSUME NEW m \in Nat, m \in T PROVE m + 1 \in T
  <2>1. PICK g : Good(m, g)
    BY <1>2
  <2> DEFINE h == [n \in 0 .. m + 1 |-> IF n <= m THEN g[n] ELSE Rule[<<g[m], m + 1>>]]
  <2>2. g[m] \in Nat
    BY <2>1
  <2>3. h \in [0 .. m + 1 -> Nat]
    BY <2>1, <2>2
  <2>4. h[0] = 0
    BY <2>1
  <2>5. ASSUME NEW n \in 1 .. m + 1 PROVE h[n] = Rule[<<h[n - 1], n>>]
    <3>1. CASE n <= m
      BY <2>1, <3>1
    <3>2. CASE n = m + 1
      <4>1. h[n] = Rule[<<g[m], m + 1>>] /\ h[n - 1] = g[m]
        BY <3>2
      <4> QED  BY <3>2, <4>1
    <3> QED  BY <3>1, <3>2
  <2>6. Good(m + 1, h)
    BY <2>3, <2>4, <2>5
  <2> HIDE DEF h, Good
  <2>7. \E g0 : Good(m + 1, g0)
    BY <2>6
  <2> QED  BY <2>7
<1> HIDE DEF T
<1>3. N \in T
  BY <1>1, <1>2, Induction
<1> QED  BY <1>3 DEF T

\* SumOf is a sum: its partial sums are what its recursion says.
LEMMA PartialSums ==
    ASSUME NEW s \in Seq(Nat)
    PROVE  \E g \in [0 .. Len(s) -> Nat] :
               g[0] = 0 /\ (\A n \in 1 .. Len(s) : g[n] = g[n - 1] + s[n]) /\ SumOf(s) = g[Len(s)]
<1>1. PICK sum : sum = CHOOSE g : g = [n \in 0 .. Len(s) |-> IF n = 0 THEN 0 ELSE g[n - 1] + s[n]]
  OBVIOUS
<1>2. SumOf(s) = sum[Len(s)]
  BY <1>1 DEF SumOf
<1>3. PICK g \in [0 .. Len(s) -> Nat] : g[0] = 0 /\ \A n \in 1 .. Len(s) : g[n] = g[n - 1] + s[n]
  <2> DEFINE Rule == [p \in Nat \X Nat |-> p[1] + IF p[2] \in 1 .. Len(s) THEN s[p[2]] ELSE 0]
  <2>1. Rule \in [Nat \X Nat -> Nat]
    OBVIOUS
  <2>2. \A a \in Nat, n \in 1 .. Len(s) : Rule[<<a, n>>] = a + s[n]
    OBVIOUS
  <2> HIDE DEF Rule
  <2>3. Len(s) \in Nat /\ 0 \in Nat
    OBVIOUS
  <2>4. PICK g \in [0 .. Len(s) -> Nat] : g[0] = 0 /\ \A n \in 1 .. Len(s) : g[n] = Rule[<<g[n - 1], n>>]
    BY <2>1, <2>3, Recursion
  <2>5. \A n \in 1 .. Len(s) : g[n] = g[n - 1] + s[n]
    <3>1. \A n \in 1 .. Len(s) : n - 1 \in 0 .. Len(s)
      BY <2>3
    <3> QED  BY <2>2, <2>4, <3>1
  <2> QED  BY <2>4, <2>5
<1>4. g = [n \in 0 .. Len(s) |-> IF n = 0 THEN 0 ELSE g[n - 1] + s[n]]
  BY <1>3
<1>5. sum = [n \in 0 .. Len(s) |-> IF n = 0 THEN 0 ELSE sum[n - 1] + s[n]]
  BY <1>1, <1>4
<1>6. sum[0] = 0 /\ \A n \in 1 .. Len(s) : sum[n] = sum[n - 1] + s[n]
  <2>1. \A n \in 0 .. Len(s) : sum[n] = IF n = 0 THEN 0 ELSE sum[n - 1] + s[n]
    BY <1>5, Zenon
  <2>2. 0 \in 0 .. Len(s) /\ \A n \in 1 .. Len(s) : n \in 0 .. Len(s) /\ n # 0
    OBVIOUS
  <2> QED  BY <2>1, <2>2
<1>7. \A n \in 0..Len(s) : sum[n] \in Nat
  <2> DEFINE T == {n \in Nat : n <= Len(s) => sum[n] \in Nat}
  <2>1. 0 \in T
    BY <1>6
  <2>2. ASSUME NEW n \in Nat, n \in T PROVE n + 1 \in T
    <3> SUFFICES ASSUME n + 1 <= Len(s) PROVE sum[n + 1] \in Nat
      OBVIOUS
    <3>1. sum[n + 1] = sum[n] + s[n + 1] /\ s[n+1] \in Nat
      BY <1>6
    <3>2. sum[n] \in Nat
      BY <2>2
    <3> QED  BY <3>1, <3>2
  <2> HIDE DEF T
  <2>3. \A n \in Nat : n \in T
    BY <2>1, <2>2, Induction
  <2> QED  BY <2>3 DEF T
<1>8. DOMAIN sum = 0 .. Len(s)
  BY <1>5
<1>9. sum \in [0 .. Len(s) -> Nat]
  BY <1>5, <1>7, <1>8
<1> QED  BY <1>2, <1>6, <1>9

LEMMA EmptySum == SumOf(<<>>) = 0
<1>1. <<>> \in Seq(Nat) /\ Len(<<>>) = 0
  OBVIOUS
<1> QED  BY <1>1, PartialSums

LEMMA SumAppend ==
    ASSUME NEW s \in Seq(Nat), NEW n \in Nat
    PROVE  SumOf(s) \in Nat /\ SumOf(Append(s, n)) = SumOf(s) + n
<1>1. PICK g \in [0 .. Len(s) -> Nat] :
          g[0] = 0 /\ (\A k \in 1 .. Len(s) : g[k] = g[k - 1] + s[k]) /\ SumOf(s) = g[Len(s)]
  BY PartialSums
<1> DEFINE a == Append(s, n)
<1>2. a \in Seq(Nat) /\ Len(a) = Len(s) + 1 /\ Len(s) \in Nat /\ a[Len(s) + 1] = n
      /\ \A k \in 1 .. Len(s) : a[k] = s[k]
  OBVIOUS
<1> HIDE DEF a
<1>3. PICK h \in [0 .. Len(a) -> Nat] :
          h[0] = 0 /\ (\A k \in 1 .. Len(a) : h[k] = h[k - 1] + a[k]) /\ SumOf(a) = h[Len(a)]
  BY <1>2, PartialSums
<1> DEFINE T == {k \in Nat : k <= Len(s) => h[k] = g[k]}
<1>4. 0 \in T
  BY <1>1, <1>3
<1>5. ASSUME NEW k \in Nat, k \in T PROVE k + 1 \in T
  <2> SUFFICES ASSUME k + 1 <= Len(s) PROVE h[k + 1] = g[k + 1]
    OBVIOUS
  <2>1. h[k + 1] = h[k] + a[k + 1] /\ g[k + 1] = g[k] + s[k + 1]
    BY <1>1, <1>2, <1>3
  <2> QED  BY <1>2, <1>5, <2>1
<1> HIDE DEF T
<1>6. \A k \in Nat : k \in T
  BY <1>4, <1>5, Induction
<1>7. h[Len(s)] = g[Len(s)]
  BY <1>2, <1>6 DEF T
<1>8. h[Len(s) + 1] = h[Len(s)] + n
  BY <1>2, <1>3
<1> QED  BY <1>1, <1>2, <1>3, <1>7, <1>8 DEF a

\* The places, in order.
LEMMA Ranks ==
    ASSUME NEW N \in Nat, NEW I, I \subseteq 1 .. N
    PROVE  /\ Cardinality(I) \in Nat /\ Cardinality(I) <= N
           /\ \E f \in [1 .. Cardinality(I) -> I] :
                /\ \A j, k \in 1 .. Cardinality(I) : j < k => f[j] < f[k]
                /\ \A i \in I : \E k \in 1 .. Cardinality(I) : f[k] = i
                /\ \A k \in 1 .. Cardinality(I) :
                     f[k] = CHOOSE i \in I : Cardinality({j \in I : j <= i}) = k
<1> DEFINE Upto(i) == {j \in I : j <= i}
           rank == [i \in I |-> Cardinality(Upto(i))]
           c == Cardinality(I)
<1>0. \A i \in I : i \in Nat
  OBVIOUS
<1>1. IsFiniteSet(I) /\ c \in Nat /\ c <= N
  <2>1. IsFiniteSet(1 .. N) /\ Cardinality(1 .. N) = IF 1 > N THEN 0 ELSE N - 1 + 1
    BY FS_Interval
  <2>2. Cardinality(1 .. N) = N
    BY <2>1
  <2>3. IsFiniteSet(I) /\ Cardinality(I) <= Cardinality(1 .. N)
    BY <2>1, FS_Subset
  <2>4. Cardinality(I) \in Nat
    BY <2>3, FS_CardinalityType
  <2> QED  BY <2>2, <2>3, <2>4
<1>2. ASSUME NEW i \in I
      PROVE  IsFiniteSet(Upto(i)) /\ Cardinality(Upto(i)) \in 1 .. c
  <2>1. IsFiniteSet(Upto(i)) /\ Cardinality(Upto(i)) <= c
    BY <1>1, FS_Subset
  <2>2. Cardinality(Upto(i)) \in Nat
    BY <2>1, FS_CardinalityType
  <2>3. i \in Upto(i)
    OBVIOUS
  <2>4. Cardinality(Upto(i)) # 0
    BY <2>1, <2>3, FS_EmptySet
  <2> QED  BY <1>1, <2>1, <2>2, <2>4
<1>3. ASSUME NEW i \in I, NEW j \in I, i < j
      PROVE  Cardinality(Upto(i)) < Cardinality(Upto(j))
  <2>1. Upto(i) \subseteq Upto(j) /\ j \in Upto(j) /\ j \notin Upto(i)
    <3>1. i \in Nat /\ j \in Nat /\ ~(j <= i) /\ j <= j
      BY <1>0, <1>3
    <3>2. \A n \in I : n <= i => n <= j
      BY <1>0, <1>3, <3>1
    <3> QED  BY <3>1, <3>2
  <2>2. Upto(i) # Upto(j)
    BY <2>1
  <2>3. /\ Cardinality(Upto(i)) <= Cardinality(Upto(j))
        /\ Cardinality(Upto(i)) = Cardinality(Upto(j)) => Upto(i) = Upto(j)
    BY <1>2, <2>1, FS_Subset
  <2> HIDE DEF Upto
  <2> QED  BY <1>2, <2>2, <2>3
<1> HIDE DEF Upto
<1>4. rank \in [I -> 1 .. c]
  BY <1>2
<1>5. \A i, j \in I : i < j => rank[i] < rank[j]
  BY <1>3
<1>r. \A i \in I : rank[i] = Cardinality(Upto(i))
  OBVIOUS
<1> HIDE DEF rank, c
<1>i. \A i, j \in I : rank[i] = rank[j] => i = j
  BY <1>4, <1>5
<1>6. rank \in Injection(I, 1 .. c)
  BY <1>4, <1>i DEF Injection, IsInjective
<1>7. Cardinality(1 .. c) = c /\ IsFiniteSet(1 .. c)
  <2>1. IsFiniteSet(1 .. c) /\ Cardinality(1 .. c) = IF 1 > c THEN 0 ELSE c - 1 + 1
    BY <1>1, FS_Interval
  <2> QED  BY <1>1, <2>1
<1>8. rank \in Surjection(I, 1 .. c)
  BY <1>6, <1>7, FS_Injection DEF c
<1>9. \A k \in 1 .. c : \E i \in I : rank[i] = k
  BY <1>8 DEF Surjection
<1> DEFINE f == [k \in 1 .. c |-> CHOOSE i \in I : Cardinality(Upto(i)) = k]
<1>10. \A k \in 1 .. c : f[k] \in I /\ rank[f[k]] = k
  BY <1>9, <1>r
<1>f. \A k \in 1 .. c : f[k] = CHOOSE i \in I : Cardinality(Upto(i)) = k
  OBVIOUS
<1>d. DOMAIN f = 1 .. c /\ f = [k \in 1 .. c |-> f[k]]
  OBVIOUS
<1> HIDE DEF f
<1>11. f \in [1 .. c -> I]
  BY <1>10, <1>d
<1>12. ASSUME NEW j \in 1 .. c, NEW k \in 1 .. c, j < k PROVE f[j] < f[k]
  <2>1. f[j] \in I /\ f[k] \in I /\ rank[f[j]] = j /\ rank[f[k]] = k
    BY <1>10
  <2>2. f[j] \in Nat /\ f[k] \in Nat
    BY <1>0, <2>1
  <2>3. j \in Nat /\ k \in Nat
    BY <1>1
  <2>4. CASE f[k] < f[j]
    <3>1. k < j
      BY <1>5, <2>1, <2>4
    <3> QED  BY <1>12, <2>3, <3>1
  <2>5. CASE f[k] = f[j]
    BY <1>12, <2>1, <2>3, <2>5
  <2> QED  BY <2>2, <2>4, <2>5
<1>13. ASSUME NEW i \in I PROVE \E k \in 1 .. c : f[k] = i
  <2>1. rank[i] \in 1 .. c /\ f[rank[i]] \in I /\ rank[f[rank[i]]] = rank[i]
    BY <1>4, <1>10
  <2> QED  BY <1>i, <2>1
<1> QED  BY <1>1, <1>11, <1>12, <1>13, <1>f DEF c, Upto

\* f says from where each element of r was taken: from the places I of s, from
\* each one, in order.
Enumerates(f, r, s, I) ==
    /\ f \in [DOMAIN r -> I]
    /\ \A k \in DOMAIN r : r[k] = s[f[k]]
    /\ \A j, k \in DOMAIN r : j < k => f[j] < f[k]
    /\ \A i \in I : \E k \in DOMAIN r : f[k] = i

\* Keep picks the places in order, leaves none out and adds none.
LEMMA Kept ==
    ASSUME NEW S, NEW s \in Seq(S), NEW I, I \subseteq DOMAIN s
    PROVE  /\ Keep(s, I) \in Seq(S) /\ Len(Keep(s, I)) <= Len(s)
           /\ DOMAIN Keep(s, I) = 1 .. Len(Keep(s, I)) /\ Len(Keep(s, I)) \in Nat
           /\ Len(Keep(s, I)) = Cardinality(I)
           /\ \E f : Enumerates(f, Keep(s, I), s, I)
<1> DEFINE c == Cardinality(I)
           r == Keep(s, I)
<1>1. Len(s) \in Nat /\ I \subseteq 1 .. Len(s) /\ \A i \in I : s[i] \in S
  OBVIOUS
<1>2. PICK f \in [1 .. c -> I] :
        /\ \A j, k \in 1 .. c : j < k => f[j] < f[k]
        /\ \A i \in I : \E k \in 1 .. c : f[k] = i
        /\ \A k \in 1 .. c : f[k] = CHOOSE i \in I : Cardinality({j \in I : j <= i}) = k
  BY <1>1, Ranks
<1>3. c \in Nat /\ c <= Len(s)
  BY <1>1, Ranks
<1>4. r = [k \in 1 .. c |-> s[f[k]]]
  <2>1. \A k \in 1 .. c : s[CHOOSE i \in I : Cardinality({j \in I : j <= i}) = k] = s[f[k]]
    BY <1>2
  <2> HIDE DEF c
  <2>2. r = [k \in 1 .. c |-> s[CHOOSE i \in I : Cardinality({j \in I : j <= i}) = k]]
    BY DEF Keep, c
  <2> QED  BY <2>1, <2>2
<1> HIDE DEF c, r
<1>5. r \in Seq(S) /\ Len(r) = c /\ DOMAIN r = 1 .. c
  BY <1>1, <1>2, <1>3, <1>4
<1>6. /\ \A k \in 1 .. c : r[k] = s[f[k]]
      /\ \A j, k \in 1 .. c : j < k => f[j] < f[k]
      /\ \A i \in I : \E k \in 1 .. c : f[k] = i
  BY <1>2, <1>4
<1>7. Enumerates(f, r, s, I)
  BY <1>5, <1>6 DEF Enumerates
<1> QED  BY <1>3, <1>5, <1>7 DEF r, c

\* What is kept, by its elements, its first one and its last one.
Spans(r, s, I) ==
    /\ \A k \in DOMAIN r : \E i \in I : r[k] = s[i]
    /\ \A i \in I : \E k \in DOMAIN r : r[k] = s[i]
    /\ Len(r) = 0 <=> I = {}
    /\ I # {} => /\ \E i \in I : r[1] = s[i] /\ \A j \in I : i <= j
                 /\ \E i \in I : r[Len(r)] = s[i] /\ \A j \in I : j <= i

LEMMA KeptEnds ==
    ASSUME NEW S, NEW s \in Seq(S), NEW I, I \subseteq DOMAIN s
    PROVE  Spans(Keep(s, I), s, I)
<1> DEFINE r == Keep(s, I)
<1>1. DOMAIN r = 1 .. Len(r) /\ Len(r) \in Nat /\ \A i \in I : i \in Nat
  BY Kept
<1>0. PICK f : Enumerates(f, r, s, I)
  BY Kept
<1>2. /\ f \in [DOMAIN r -> I]
      /\ \A k \in DOMAIN r : r[k] = s[f[k]]
      /\ \A j, k \in DOMAIN r : j < k => f[j] < f[k]
      /\ \A i \in I : \E k \in DOMAIN r : f[k] = i
  BY <1>0 DEF Enumerates
<1> HIDE DEF r
<1>3. /\ \A k \in DOMAIN r : \E i \in I : r[k] = s[i]
      /\ \A i \in I : \E k \in DOMAIN r : r[k] = s[i]
  <2>1. \A k \in DOMAIN r : f[k] \in I /\ r[k] = s[f[k]]
    BY <1>2
  <2>2. \A i \in I : \E k \in DOMAIN r : r[k] = s[i]
    BY <1>2
  <2> QED  BY <2>1, <2>2
<1>4. Len(r) = 0 <=> I = {}
  <2>1. ASSUME Len(r) = 0, NEW i \in I PROVE FALSE
    <3>1. PICK k \in DOMAIN r : f[k] = i
      BY <1>2
    <3> QED  BY <1>1, <2>1, <3>1
  <2>2. ASSUME Len(r) # 0 PROVE I # {}
    <3>1. 1 \in DOMAIN r
      BY <1>1, <2>2
    <3>2. f[1] \in I
      BY <1>2, <3>1
    <3> QED  BY <3>2
  <2> QED  BY <2>1, <2>2
<1>5. ASSUME I # {} PROVE \E i \in I : r[1] = s[i] /\ \A j \in I : i <= j
  <2>1. 1 \in DOMAIN r
    BY <1>1, <1>4, <1>5
  <2>2. ASSUME NEW j \in I PROVE f[1] <= j
    <3>1. PICK k \in DOMAIN r : f[k] = j
      BY <1>2
    <3>2. k = 1 \/ 1 < k
      BY <1>1
    <3>3. f[1] \in Nat /\ j \in Nat
      BY <1>1, <1>2, <2>1
    <3> QED  BY <1>2, <2>1, <3>1, <3>2, <3>3
  <2> QED  BY <1>2, <2>1, <2>2
<1>6. ASSUME I # {} PROVE \E i \in I : r[Len(r)] = s[i] /\ \A j \in I : j <= i
  <2>1. Len(r) \in DOMAIN r
    BY <1>1, <1>4, <1>6
  <2>2. ASSUME NEW j \in I PROVE j <= f[Len(r)]
    <3>1. PICK k \in DOMAIN r : f[k] = j
      BY <1>2
    <3>2. k = Len(r) \/ k < Len(r)
      BY <1>1
    <3>3. f[Len(r)] \in Nat /\ j \in Nat
      BY <1>1, <1>2, <2>1
    <3> QED  BY <1>2, <2>1, <3>1, <3>2, <3>3
  <2> QED  BY <1>2, <2>1, <2>2
<1>7. Spans(r, s, I)
  BY <1>3, <1>4, <1>5, <1>6 DEF Spans
<1> QED  BY <1>7 DEF r

-----------------------------------------------------------------------------
(* Sizes *)

\* What decoded_len measures is a length, and base64 takes at most 4/3 of it and
\* the padding.
LEMMA Measured ==
    ASSUME NEW c \in Content, DecodedLen(c) # None
    PROVE  DecodedLen(c) \in Nat /\ 3 * c.chars <= 4 * DecodedLen(c) + 8
<1>1. c.chars \in Nat /\ c.padding \in Nat /\ c.padding <= c.chars  BY DEF Content
<1>2. c.chars % 4 = 0 /\ c.padding <= 2  BY <1>1 DEF DecodedLen
<1>3. DecodedLen(c) = (c.chars \div 4) * 3 - c.padding  BY <1>1, <1>2 DEF DecodedLen
<1>4. c.chars = 4 * (c.chars \div 4) /\ c.chars \div 4 \in Nat  BY <1>1, <1>2
<1> QED  BY <1>1, <1>2, <1>3, <1>4

\* base64_len is no less than 4/3, unless it saturates.
LEMMA Encoded ==
    ASSUME NEW n \in Nat
    PROVE  Base64Len(n) = MaxUsize \/ (Base64Len(n) \in Nat /\ 3 * Base64Len(n) >= 4 * n)
<1> DEFINE thirds == (n + 2) \div 3
<1>1. thirds \in Nat /\ 3 * thirds >= n  OBVIOUS
<1>2. Base64Len(n) = Saturate(thirds * 4)  BY DEF Base64Len
<1> HIDE DEF thirds
<1>3. Saturate(thirds * 4) = MaxUsize \/ Saturate(thirds * 4) = thirds * 4  BY DEF Saturate
<1> QED  BY <1>1, <1>2, <1>3

LEMMA OverheadIsNat == SendBodyOverhead \in Nat
<1>1. Base64Len(DefaultCap) \in Nat  BY Encoded, LimitAssumption
<1> QED  BY <1>1, LimitAssumption DEF SendBodyOverhead

\* A body over the limit is longer than the base64 of the cap and the overhead.
LEMMA OverLimit ==
    ASSUME NEW cap \in Nat, NEW length \in 0 .. MaxUsize, length > SendBodyLimit(cap)
    PROVE  3 * length > 4 * cap + 3 * SendBodyOverhead
<1>1. PICK b : b = Base64Len(cap)  OBVIOUS
<1>2. PICK o \in Nat : o = SendBodyOverhead  BY OverheadIsNat
<1>3. SendBodyLimit(cap) = Saturate(b + o)  BY <1>1, <1>2 DEF SendBodyLimit
<1>4. b = MaxUsize \/ (b \in Nat /\ 3 * b >= 4 * cap)  BY <1>1, Encoded
<1>5. b \in Nat  BY <1>4, LimitAssumption
<1>6. Saturate(b + o) = IF b + o > MaxUsize THEN MaxUsize ELSE b + o  BY DEF Saturate
<1>7. b + o <= MaxUsize /\ length > b + o  BY <1>3, <1>5, <1>6, LimitAssumption
<1>8. b < MaxUsize  BY <1>5, <1>7, LimitAssumption
<1> QED  BY <1>2, <1>4, <1>5, <1>7, <1>8

-----------------------------------------------------------------------------
(* The inductive invariant *)

RequestOK ==
    request \in [files : Seq(Attachment), rest : Nat, length : 0 .. MaxUsize, size : Nat \cup {None},
                wrapped : BOOLEAN, bearer : KeyText \cup {None}]

\* Without line breaks a body is the rest and at most 4/3 of what is measured,
\* with 8/3 bytes per file for the padding.
LengthBounded ==
    request.size # None /\ ~request.wrapped =>
        3 * request.length <= 3 * request.rest + 4 * request.size + 8 * Len(request.files)

\* from_env gives a cap, and a key where one is required.
ConfigOK ==
    process = "serving" =>
        /\ config.cap \in Nat
        /\ config.requireKey => config.apiKey \in KeyText \ {None, [core |-> "", padded |-> FALSE]}

\* An answer belongs to the last request, and 413 to a body that was too long.
AnswerOK ==
    /\ process # "serving" => pc = "idle" /\ answer = None
    /\ pc # "idle" => answer = None
    /\ answer # None /\ answer.code = "payload_too_large" =>
           request.length > SendBodyLimit(config.cap)

IInv == load \in DOMAIN Workloads /\ RequestOK /\ LengthBounded /\ ConfigOK /\ AnswerOK

LEMMA Initially == Init => IInv
<1> SUFFICES ASSUME Init PROVE IInv  OBVIOUS
<1>1. PICK w \in DOMAIN Workloads : load = w  BY DEF Init
<1>2. request = [files |-> <<>>, rest |-> 0, length |-> 0, size |-> 0, wrapped |-> FALSE, bearer |-> None]
  BY DEF Init, Blank
<1>3. RequestOK /\ LengthBounded  BY <1>2, LimitAssumption DEF RequestOK, LengthBounded
<1>4. ConfigOK /\ AnswerOK  BY DEF Init, ConfigOK, AnswerOK
<1> QED  BY <1>1, <1>3, <1>4 DEF IInv

\* A step of the handler that goes on, or that refuses the request for another
\* reason than the length of its body, keeps the invariant.
LEMMA HandlerStep ==
    ASSUME IInv, pc # "idle", UNCHANGED <<process, load, config, request>>,
           \/ answer' = answer
           \/ pc' = "idle" /\ answer'.code # "payload_too_large"
    PROVE  IInv'
<1>1. RequestOK' /\ LengthBounded'  BY DEF IInv, RequestOK, LengthBounded
<1>2. ConfigOK'  BY DEF IInv, ConfigOK
<1>3. answer = None  BY DEF IInv, AnswerOK
<1>4. AnswerOK'  BY <1>3 DEF IInv, AnswerOK
<1> QED  BY <1>1, <1>2, <1>4 DEF IInv

LEMMA Refusal ==
    ASSUME NEW code, NEW why, IInv, pc # "idle", code # "payload_too_large", Refuse(code, why)
    PROVE  IInv'
<1>1. /\ UNCHANGED <<process, load, config, request>>
      /\ pc' = "idle" /\ answer' = [code |-> code, why |-> why]
  BY DEF Refuse, Answer
<1>2. answer'.code # "payload_too_large"  BY <1>1
<1> QED  BY <1>1, <1>2, HandlerStep

LEMMA Progress ==
    ASSUME NEW step, IInv, pc # "idle", Proceed(step), UNCHANGED request
    PROVE  IInv'
<1>1. UNCHANGED <<process, load, config, answer>>  BY DEF Proceed
<1> QED  BY <1>1, HandlerStep

\* Config::from_env
LEMMA Loading ==
    ASSUME NEW env \in Environment, Loads(env)
    PROVE  /\ Config(env).cap \in Nat
           /\ Config(env).requireKey =>
                  Config(env).apiKey \in KeyText \ {None, [core |-> "", padded |-> FALSE]}
<1>1. env.cap = None \/ env.cap \in NumberText  BY DEF Environment
<1>2. Config(env).cap = IF env.cap = None THEN DefaultCap ELSE env.cap.value  BY DEF Config
<1>3. Config(env).cap \in Nat  BY <1>1, <1>2, LimitAssumption DEF NumberText
<1>4. Config(env).requireKey = ParseBool(env.requireKey, FALSE) /\ Config(env).apiKey = ApiKey(env)
  BY DEF Config
<1>5. env.key \in KeyText \cup {None}  BY DEF Environment
<1>6. ASSUME Config(env).requireKey
      PROVE  Config(env).apiKey \in KeyText \ {None, [core |-> "", padded |-> FALSE]}
  <2>1. ApiKey(env) # None  BY <1>4, <1>6 DEF Loads
  <2>2. ApiKey(env) = env.key /\ env.key # [core |-> "", padded |-> FALSE]  BY <2>1 DEF ApiKey
  <2> QED  BY <1>4, <1>5, <2>1, <2>2
<1> QED  BY <1>3, <1>6

LEMMA WorkOK ==
    ASSUME load \in DOMAIN Workloads
    PROVE  /\ work.env \in Environment
           /\ work.rests \subseteq 0 .. MaxUsize
           /\ work.files \in Seq(SUBSET Attachment)
BY SendAssumption DEF work

LEMMA StartKeeps == IInv /\ Start => IInv'
<1> SUFFICES ASSUME IInv, Start PROVE IInv'  OBVIOUS
<1>1. /\ process # "serving"
      /\ UNCHANGED <<load, pc, request, answer>>
      /\ \/ Loads(work.env) /\ process' = "serving" /\ config' = Config(work.env)
         \/ process' = "exited" /\ config' = None
  BY DEF Start
<1>2. pc = "idle" /\ answer = None  BY <1>1 DEF IInv, AnswerOK
<1>3. PICK env \in Environment : env = work.env  BY WorkOK DEF IInv
<1>4. PICK served : served = Config(env)  OBVIOUS
<1>5. ConfigOK'
  <2>1. CASE Loads(env) /\ config' = served  BY <2>1, <1>4, Loading DEF ConfigOK
  <2>2. CASE process' = "exited"  BY <2>2 DEF ConfigOK
  <2> QED  BY <1>1, <1>3, <1>4, <2>1, <2>2
<1>6. RequestOK' /\ LengthBounded'  BY <1>1 DEF IInv, RequestOK, LengthBounded
<1>7. AnswerOK'  BY <1>1, <1>2 DEF AnswerOK
<1> QED  BY <1>1, <1>5, <1>6, <1>7 DEF IInv

\* The caller starts a request, and puts files into it.
LEMMA BeginKeeps == IInv /\ Begin => IInv'
<1> SUFFICES ASSUME IInv, Begin PROVE IInv'  OBVIOUS
<1>1. PICK rest \in work.rests : request' = Blank(rest)  BY DEF Begin
<1>2. rest \in 0 .. MaxUsize  BY <1>1, WorkOK DEF IInv
<1>3. request' = [files |-> <<>>, rest |-> rest, length |-> rest, size |-> 0, wrapped |-> FALSE,
                  bearer |-> None]
  BY <1>1 DEF Blank
<1>4. RequestOK' /\ LengthBounded'  BY <1>2, <1>3, LimitAssumption DEF RequestOK, LengthBounded
<1>5. ConfigOK' /\ AnswerOK'  BY DEF Begin, IInv, ConfigOK, AnswerOK
<1> QED  BY <1>4, <1>5 DEF IInv, Begin

LEMMA AttachKeeps == IInv /\ Attach => IInv'
<1> SUFFICES ASSUME IInv, Attach PROVE IInv'  OBVIOUS
<1>1. PICK f \in work.files[Len(request.files) + 1] :
          request' = [files   |-> Append(request.files, f), rest |-> request.rest, bearer |-> None,
                      length  |-> request.length + f.content.chars + 2 * f.content.breaks,
                      size    |-> IF None \in {request.size, DecodedLen(f.content)} THEN None
                                  ELSE request.size + DecodedLen(f.content),
                      wrapped |-> request.wrapped \/ f.content.breaks # 0]
  BY DEF Attach
<1>2. pc = "compose" /\ request'.length <= MaxUsize /\ UNCHANGED <<process, load, config, pc, answer>>
  BY DEF Attach
<1>3. RequestOK  BY DEF IInv
<1>4. f \in Attachment
  <2>1. work.files \in Seq(SUBSET Attachment)  BY WorkOK DEF IInv
  <2>2. Len(request.files) + 1 \in 1 .. Len(work.files)  BY <1>3 DEF Attach, RequestOK
  <2>3. work.files[Len(request.files) + 1] \in SUBSET Attachment  BY <2>1, <2>2
  <2> QED  BY <1>1, <2>3
<1>5. PICK c \in Content : c = f.content  BY <1>4 DEF Attachment
<1>6. c.chars \in Nat /\ c.breaks \in Nat  BY DEF Content
<1>7. PICK measured : measured = DecodedLen(c)  OBVIOUS
<1>8. measured # None => measured \in Nat /\ 3 * c.chars <= 4 * measured + 8  BY <1>7, Measured
<1>9. /\ request'.files = Append(request.files, f) /\ request'.rest = request.rest
      /\ request'.bearer = None
      /\ request'.length = request.length + c.chars + 2 * c.breaks
      /\ request'.size = IF None \in {request.size, measured} THEN None ELSE request.size + measured
      /\ request'.wrapped = (request.wrapped \/ c.breaks # 0)
  BY <1>1, <1>5, <1>7
<1>10. request'.files \in Seq(Attachment) /\ Len(request'.files) = Len(request.files) + 1
  BY <1>3, <1>4, <1>9 DEF RequestOK
<1>11. RequestOK'
  <2>1. request'.length \in 0 .. MaxUsize
    <3>1. PICK l \in Nat : l = request.length  BY <1>3, LimitAssumption DEF RequestOK
    <3>2. PICK k \in Nat, b \in Nat : k = c.chars /\ b = c.breaks  BY <1>6
    <3>3. request'.length = l + k + 2 * b  BY <1>9, <3>1, <3>2
    <3>4. l + k + 2 * b \in Nat  OBVIOUS
    <3> QED  BY <1>2, <3>3, <3>4, LimitAssumption
  <2>2. request'.wrapped \in BOOLEAN  BY <1>9
  <2>3. request'.size \in Nat \cup {None}  BY <1>3, <1>8, <1>9 DEF RequestOK
  <2> QED  BY <1>1, <1>3, <1>9, <1>10, <2>1, <2>2, <2>3 DEF RequestOK
<1>12. LengthBounded'
  <2> SUFFICES ASSUME request'.size # None, ~request'.wrapped
               PROVE  3 * request'.length
                        <= 3 * request'.rest + 4 * request'.size + 8 * Len(request'.files)
    BY DEF LengthBounded
  <2>1. /\ request.size # None /\ measured # None
        /\ request'.size = request.size + measured
        /\ ~request.wrapped /\ c.breaks = 0
    BY <1>9
  <2>2. 3 * request.length <= 3 * request.rest + 4 * request.size + 8 * Len(request.files)
    BY <2>1 DEF IInv, LengthBounded
  <2>3. request'.length = request.length + c.chars  BY <1>3, <1>6, <1>9, <2>1 DEF RequestOK
  <2>4. /\ \E l \in Nat : l = request.length
        /\ \E r \in Nat : r = request.rest
        /\ \E z \in Nat : z = request.size
        /\ \E n \in Nat : n = Len(request.files)
    BY <1>3, <2>1, LimitAssumption DEF RequestOK
  <2>5. measured \in Nat /\ 3 * c.chars <= 4 * measured + 8  BY <1>8, <2>1
  <2>6. 3 * (request.length + c.chars)
          <= 3 * request.rest + 4 * (request.size + measured) + 8 * (Len(request.files) + 1)
    <3>1. PICK l \in Nat, r \in Nat, z \in Nat, n \in Nat :
              l = request.length /\ r = request.rest /\ z = request.size /\ n = Len(request.files)
      BY <2>4
    <3>2. PICK k \in Nat : k = c.chars  BY <1>6
    <3>3. 3 * l <= 3 * r + 4 * z + 8 * n  BY <2>2, <3>1
    <3>4. 3 * k <= 4 * measured + 8  BY <2>5, <3>2
    <3>5. 3 * (l + k) <= 3 * r + 4 * (z + measured) + 8 * (n + 1)  BY <2>5, <3>3, <3>4
    <3> QED  BY <3>1, <3>2, <3>5
  <2> QED  BY <1>9, <1>10, <2>1, <2>3, <2>6
<1>13. ConfigOK' /\ AnswerOK'  BY <1>2 DEF IInv, ConfigOK, AnswerOK
<1> QED  BY <1>2, <1>11, <1>12, <1>13 DEF IInv

\* The gate: only here may a request be refused for its length.
LEMMA PostKeeps == IInv /\ Post => IInv'
<1> SUFFICES ASSUME IInv, Post PROVE IInv'  OBVIOUS
<1>1. PICK bearer \in KeyText \cup {None} : request' = [request EXCEPT !.bearer = bearer]  BY DEF Post
<1>2. UNCHANGED <<process, load, config, answer>> /\ pc' = "gate" /\ pc = "compose"
  BY DEF Post, Proceed
<1>3. RequestOK'  BY <1>1 DEF IInv, RequestOK
<1>4. LengthBounded'  BY <1>1 DEF IInv, RequestOK, LengthBounded
<1>5. ConfigOK' /\ AnswerOK'  BY <1>2 DEF IInv, ConfigOK, AnswerOK
<1> QED  BY <1>2, <1>3, <1>4, <1>5 DEF IInv

LEMMA ReceiveKeeps == IInv /\ Receive => IInv'
<1> SUFFICES ASSUME IInv, Receive PROVE IInv'  OBVIOUS
<1>1. request' = [request EXCEPT !.bearer = None] /\ pc = "gate"  BY DEF Receive
<1>2. RequestOK' /\ LengthBounded' /\ request'.length = request.length
  BY <1>1 DEF IInv, RequestOK, LengthBounded
<1>3. UNCHANGED <<process, load, config>>  BY DEF Receive, Answer, Proceed
<1>4. ConfigOK'  BY <1>3 DEF IInv, ConfigOK
<1>5. process = "serving" /\ answer = None  BY <1>1 DEF IInv, AnswerOK
<1>6. \/ \E code, why : code # "payload_too_large" /\ Answer(code, why)
      \/ request.length > SendBodyLimit(config.cap) /\ Answer("payload_too_large", None)
      \/ Proceed("credential")
  BY DEF Receive
<1>7. AnswerOK'
  <2>1. CASE \E code, why : code # "payload_too_large" /\ Answer(code, why)
    <3>1. PICK code, why : code # "payload_too_large" /\ Answer(code, why)  BY <2>1
    <3>2. answer' = [code |-> code, why |-> why] /\ pc' = "idle"  BY <3>1 DEF Answer
    <3> QED  BY <1>3, <1>5, <3>1, <3>2 DEF AnswerOK
  <2>2. CASE request.length > SendBodyLimit(config.cap) /\ Answer("payload_too_large", None)
    BY <1>2, <1>3, <1>5, <2>2 DEF Answer, AnswerOK
  <2>3. CASE Proceed("credential")  BY <1>3, <1>5, <2>3 DEF Proceed, AnswerOK
  <2> QED  BY <1>6, <2>1, <2>2, <2>3
<1> QED  BY <1>2, <1>3, <1>4, <1>7 DEF IInv

LEMMA CredentialKeeps == IInv /\ Credential => IInv'
<1> SUFFICES ASSUME IInv, Credential PROVE IInv'  OBVIOUS
<1>1. pc # "idle"  BY DEF Credential
<1>2. \/ Refuse("bad_request", None) \/ Refuse("autoconfig_failed", None)
      \/ UNCHANGED request /\ Proceed("look imap")
      \/ UNCHANGED request /\ Proceed("pick")
  BY DEF Credential
<1> QED  BY <1>1, <1>2, Refusal, Progress

LEMMA PickKeeps == IInv /\ Pick => IInv'
<1> SUFFICES ASSUME IInv, Pick PROVE IInv'  OBVIOUS
<1>1. pc # "idle"  BY DEF Pick
<1>2. \/ Refuse("autoconfig_failed", None)
      \/ UNCHANGED request /\ Proceed("look imap")
  BY DEF Pick
<1> QED  BY <1>1, <1>2, Refusal, Progress

LEMMA GuardKeeps == ASSUME NEW s \in Side PROVE IInv /\ (Look(s) \/ Judge(s)) => IInv'
<1> SUFFICES ASSUME IInv, Look(s) \/ Judge(s) PROVE IInv'  OBVIOUS
<1>1. pc # "idle"  BY DEF Look, Judge
<1>2. \/ Refuse("bad_request", "blocked") \/ Refuse("host_unreachable", None)
      \/ UNCHANGED request /\ \E step : Proceed(step)
  BY DEF Look, Judge, Passed
<1> QED  BY <1>1, <1>2, Refusal, Progress

LEMMA DoSendKeeps == IInv /\ DoSend => IInv'
<1> SUFFICES ASSUME IInv, DoSend PROVE IInv'  OBVIOUS
<1>1. pc # "idle"  BY DEF DoSend
<1>2. \/ \E why : Refuse("bad_request", why)
      \/ UNCHANGED <<process, load, config, request, answer>>
  BY DEF DoSend
<1> QED  BY <1>1, <1>2, Refusal, HandlerStep

LEMMA SubmittedKeeps == IInv /\ Submitted => IInv'
<1> SUFFICES ASSUME IInv, Submitted PROVE IInv'  OBVIOUS
<1>1. pc # "idle"  BY DEF Submitted
<1>2. \E code \in {"sent", "auth_failure", "host_unreachable", "tls_failure"} : Refuse(code, None)
  BY DEF Submitted
<1> QED  BY <1>1, <1>2, Refusal

LEMMA Invariant == IInv /\ [Next]_vars => IInv'
<1> SUFFICES ASSUME IInv, [Next]_vars PROVE IInv'  OBVIOUS
<1>1. CASE Start  BY <1>1, StartKeeps
<1>2. CASE Begin \/ Attach \/ Post  BY <1>2, BeginKeeps, AttachKeeps, PostKeeps
<1>3. CASE Receive  BY <1>3, ReceiveKeeps
<1>4. CASE Credential \/ Pick  BY <1>4, CredentialKeeps, PickKeeps
<1>5. CASE \E s \in Side : Look(s) \/ Judge(s)  BY <1>5, GuardKeeps
<1>6. CASE DoSend \/ Submitted  BY <1>6, DoSendKeeps, SubmittedKeeps
<1>7. CASE UNCHANGED vars
  BY <1>7 DEF vars, IInv, RequestOK, LengthBounded, ConfigOK, AnswerOK
<1> QED  BY <1>1, <1>2, <1>3, <1>4, <1>5, <1>6, <1>7 DEF Next

\* The inductive invariant holds in every reachable state.
THEOREM SendInvariant == Spec => []IInv
BY Initially, Invariant, PTL DEF Spec

\* Whatever the cap and the files: without line breaks, files within the cap are
\* never refused for the length of the body, unless the rest of the JSON leaves
\* less than three bytes per file of SEND_BODY_OVERHEAD (send_body_limit).
THEOREM CapFitsBody == Spec => []WithinCapFits
<1>1. IInv => WithinCapFits
  <2> SUFFICES ASSUME IInv, answer # None, answer.code = "payload_too_large",
                      request.size # None, ~request.wrapped, ~(request.size > config.cap),
                      ~(request.rest + 3 * Len(request.files) > SendBodyOverhead)
               PROVE  FALSE
    BY DEF WithinCapFits
  <2>1. PICK cap \in Nat : cap = config.cap  BY DEF IInv, AnswerOK, ConfigOK
  <2>2. PICK length \in 0 .. MaxUsize : length = request.length  BY DEF IInv, RequestOK
  <2>3. PICK o \in Nat : o = SendBodyOverhead  BY OverheadIsNat
  <2>4. PICK size \in Nat : size = request.size  BY DEF IInv, RequestOK
  <2>5. PICK rest \in Nat : rest = request.rest  BY DEF IInv, RequestOK
  <2>6. PICK n \in Nat : n = Len(request.files)  BY DEF IInv, RequestOK
  <2>7. 3 * length > 4 * cap + 3 * o  BY <2>1, <2>2, <2>3, OverLimit DEF IInv, AnswerOK
  <2>8. 3 * length <= 3 * rest + 4 * size + 8 * n
    BY <2>2, <2>4, <2>5, <2>6 DEF IInv, LengthBounded
  <2>9. size <= cap /\ rest + 3 * n <= o  BY <2>1, <2>3, <2>4, <2>5, <2>6
  <2> QED  BY <2>7, <2>8, <2>9, LimitAssumption
<1> QED  BY <1>1, SendInvariant, PTL

\* Where a key is required, exactly the key of the environment opens the gate.
THEOREM GateNeedsKey == Spec => KeyDecides
<1> DEFINE Decided ==
      pc = "gate" /\ config.requireKey =>
          ((answer' # None /\ answer'.code = "unauthorized") <=>
              (request.bearer = None \/ request.bearer.core # config.apiKey.core \/ config.apiKey.padded))
<1>1. IInv /\ [Next]_vars => [Decided]_vars
  <2> SUFFICES ASSUME IInv, Next, pc = "gate", config.requireKey
               PROVE  (answer' # None /\ answer'.code = "unauthorized") <=>
                          (request.bearer = None \/ request.bearer.core # config.apiKey.core
                              \/ config.apiKey.padded)
    OBVIOUS
  <2>1. process = "serving" /\ answer = None  BY DEF IInv, AnswerOK
  <2>2. PICK key \in KeyText : key = config.apiKey /\ key # None /\ key # [core |-> "", padded |-> FALSE]
    BY <2>1 DEF IInv, ConfigOK
  <2>3. PICK bearer \in KeyText \cup {None} : bearer = request.bearer  BY DEF IInv, RequestOK
  <2>4. Access(config, bearer) <=> ~(bearer = None \/ bearer.core # key.core \/ key.padded)
    <3>1. Access(config, bearer) <=> BearerToken(bearer) = key  BY <2>2 DEF Access
    <3>2. CASE bearer = None  BY <2>2, <3>1, <3>2 DEF BearerToken
    <3>3. CASE bearer # None /\ bearer.core = ""
      <4>1. BearerToken(bearer) = None  BY <3>3 DEF BearerToken
      <4>2. key.core = "" => key.padded  BY <2>2 DEF KeyText
      <4> QED  BY <2>2, <3>1, <3>3, <4>1, <4>2
    <3>4. CASE bearer # None /\ bearer.core # ""
      <4>1. bearer \in KeyText  BY <3>4
      <4>2. BearerToken(bearer) = [bearer EXCEPT !.padded = FALSE]  BY <3>4 DEF BearerToken
      <4>3. [bearer EXCEPT !.padded = FALSE] = key <=> bearer.core = key.core /\ ~key.padded
        BY <4>1 DEF KeyText
      <4> QED  BY <3>1, <3>4, <4>2, <4>3
    <3> QED  BY <3>2, <3>3, <3>4
  <2>5. Receive
    BY DEF Next, Start, Begin, Attach, Post, Credential, Pick, Look, Judge, DoSend, Submitted, IInv, AnswerOK
  <2>6. CASE ~Access(config, bearer)
    <3>1. Answer("unauthorized", None)  BY <2>3, <2>5, <2>6 DEF Receive
    <3>2. answer' = [code |-> "unauthorized", why |-> None]  BY <3>1 DEF Answer
    <3>3. [code |-> "unauthorized", why |-> None] \in [code : Error \cup {"sent"}, why : {None, "blocked"}]
      BY DEF Error
    <3>4. None \notin [code : Error \cup {"sent"}, why : {None, "blocked"}]  BY ONLY NoneAssumption
    <3>5. answer' # None  BY <3>2, <3>3, <3>4
    <3> QED  BY <2>2, <2>3, <2>4, <2>6, <3>2, <3>5
  <2>7. CASE Access(config, bearer)
    <3>1. \/ answer' = answer
          \/ \E why : Answer("bad_request", why) \/ Answer("payload_too_large", why)
      BY <2>3, <2>5, <2>7 DEF Receive, Proceed
    <3>2. answer' = answer \/ answer'.code # "unauthorized"  BY <3>1 DEF Answer
    <3> QED  BY <2>1, <2>2, <2>3, <2>4, <2>7, <3>2
  <2> QED  BY <2>6, <2>7
<1> QED  BY <1>1, SendInvariant, PTL DEF Spec, KeyDecides

-----------------------------------------------------------------------------
(* The guard *)

LEMMA Segments ==
    ASSUME NEW a \in Address6
    PROVE  \A i \in 1 .. 8 : a[i] \in Nat /\ a[i] <= 65535
BY DEF Address6

\* The four prefixes of is_forbidden_ip and the networks of its documentation.
LEMMA Forbidden6Exact ==
    ASSUME NEW a \in Address6
    PROVE  (\E n \in Networks6 : Within(a, n)) <=>
              \/ \A i \in 1 .. 7 : a[i] = 0 /\ a[8] \in {0, 1}
              \/ a[1] \div 256 = 255 \/ a[1] \div 512 = 126 \/ a[1] \div 64 = 1018
<1>0. DOMAIN a = 1 .. 8  BY DEF Address6
<1> USE <1>0, Segments DEF Within
<1>1. Within(a, <<<<0, 0, 0, 0, 0, 0, 0, 0>>, <<0, 0, 0, 0, 0, 0, 0, 1>>>>) <=>
          \A i \in 1 .. 7 : a[i] = 0 /\ a[8] \in {0, 1}
  OBVIOUS
<1>2. Within(a, <<<<64512, 0, 0, 0, 0, 0, 0, 0>>, <<65023, 65535, 65535, 65535, 65535, 65535, 65535, 65535>>>>)
          <=> a[1] \div 512 = 126
  OBVIOUS
<1>3. Within(a, <<<<65152, 0, 0, 0, 0, 0, 0, 0>>, <<65215, 65535, 65535, 65535, 65535, 65535, 65535, 65535>>>>)
          <=> a[1] \div 64 = 1018
  OBVIOUS
<1>4. Within(a, <<<<65280, 0, 0, 0, 0, 0, 0, 0>>, <<65535, 65535, 65535, 65535, 65535, 65535, 65535, 65535>>>>)
          <=> a[1] \div 256 = 255
  OBVIOUS
<1> QED  BY ONLY <1>1, <1>2, <1>3, <1>4 DEF Networks6

\* A mapped address has four octets, and is in none of the IPv6 networks.
LEMMA Mapped ==
    ASSUME NEW a \in Address6
    PROVE  /\ MappedV4(a) \in Address4
           /\ IsMapped(a) => ~ \E n \in Networks6 : Within(a, n)
<1>1. MappedV4(a) \in Address4
  <2>1. a[7] \in Nat /\ a[7] <= 65535 /\ a[8] \in Nat /\ a[8] <= 65535  BY Segments
  <2>2. \A n \in Nat : n <= 65535 => n \div 256 \in Nat /\ n \div 256 <= 255 /\ n % 256 \in Nat /\ n % 256 <= 255
    OBVIOUS
  <2> QED  BY <2>1, <2>2 DEF Address4, MappedV4
<1>2. IsMapped(a) => a[1] = 0 /\ a[6] # 0  BY DEF IsMapped
<1> QED  BY <1>1, <1>2, Forbidden6Exact

\* The predicates of Ipv4Addr, the masks, and the networks of the documentation.
LEMMA Forbidden4Exact ==
    ASSUME NEW a \in Address4
    PROVE  IsForbidden4(a) <=> \E n \in Networks4 : Within(a, n)
<1> USE DEF Address4
<1>1. Within(a, <<<<0, 0, 0, 0>>, <<0, 255, 255, 255>>>>) <=> a[1] = 0  BY DEF Within
<1>2. Within(a, <<<<10, 0, 0, 0>>, <<10, 255, 255, 255>>>>) <=> a[1] = 10  BY DEF Within
<1>3. Within(a, <<<<100, 64, 0, 0>>, <<100, 127, 255, 255>>>>) <=> a[1] = 100 /\ a[2] \div 64 = 1  BY DEF Within
<1>4. Within(a, <<<<127, 0, 0, 0>>, <<127, 255, 255, 255>>>>) <=> a[1] = 127  BY DEF Within
<1>5. Within(a, <<<<169, 254, 0, 0>>, <<169, 254, 255, 255>>>>) <=> a[1] = 169 /\ a[2] = 254  BY DEF Within
<1>6. Within(a, <<<<172, 16, 0, 0>>, <<172, 31, 255, 255>>>>) <=> a[1] = 172 /\ a[2] \in 16 .. 31  BY DEF Within
<1>7. Within(a, <<<<192, 0, 2, 0>>, <<192, 0, 2, 255>>>>) <=> a[1] = 192 /\ a[2] = 0 /\ a[3] = 2  BY DEF Within
<1>8. Within(a, <<<<192, 168, 0, 0>>, <<192, 168, 255, 255>>>>) <=> a[1] = 192 /\ a[2] = 168  BY DEF Within
<1>9. Within(a, <<<<198, 51, 100, 0>>, <<198, 51, 100, 255>>>>) <=> a[1] = 198 /\ a[2] = 51 /\ a[3] = 100
  BY DEF Within
<1>10. Within(a, <<<<203, 0, 113, 0>>, <<203, 0, 113, 255>>>>) <=> a[1] = 203 /\ a[2] = 0 /\ a[3] = 113
  BY DEF Within
<1>11. Within(a, <<<<224, 0, 0, 0>>, <<239, 255, 255, 255>>>>) <=> a[1] \in 224 .. 239  BY DEF Within
<1>12. Within(a, <<<<255, 255, 255, 255>>, <<255, 255, 255, 255>>>>) <=> a = <<255, 255, 255, 255>>  BY DEF Within
<1>13. a = <<0, 0, 0, 0>> => a[1] = 0  OBVIOUS
<1> QED  BY <1>1, <1>2, <1>3, <1>4, <1>5, <1>6, <1>7, <1>8, <1>9, <1>10, <1>11, <1>12, <1>13
         DEF IsForbidden4, Networks4

\* Whatever the address: it is refused exactly when it is in a network that the
\* documentation of src/endpoint.rs names (is_forbidden_ip).
LEMMA GuardIsExact ==
    ASSUME NEW a \in Address4 \cup Address6
    PROVE  IsForbidden(a) <=> NonPublic(a)
<1>1. CASE a \in Address4
  <2>1. a \notin Address6  BY <1>1 DEF Address4, Address6
  <2> QED  BY <1>1, <2>1, Forbidden4Exact DEF IsForbidden, NonPublic
<1>2. CASE a \notin Address4
  <2>1. a \in Address6  BY <1>2
  <2>2. CASE IsMapped(a)
    BY <1>2, <2>1, <2>2, Mapped, Forbidden4Exact DEF IsForbidden, NonPublic, IsForbidden6
  <2>3. CASE ~IsMapped(a)
    BY <1>2, <2>1, <2>3, Forbidden6Exact DEF IsForbidden, NonPublic, IsForbidden6
  <2> QED  BY <2>2, <2>3
<1> QED  BY <1>1, <1>2

\* What is judged is a set of addresses.
FoundOK ==
    pc \in {"judge imap", "judge smtp"} => found \in SUBSET (Address4 \cup Address6) /\ answer = None

LEMMA FoundInvariant == Spec => []FoundOK
<1>1. Init => FoundOK  BY DEF Init, FoundOK
<1>2. IInv /\ FoundOK /\ [Next]_vars => FoundOK'
  <2> SUFFICES ASSUME IInv, FoundOK, [Next]_vars PROVE FoundOK'  OBVIOUS
  <2>1. CASE \E s \in Side : Look(s)
    <3>1. answer = None  BY <2>1 DEF Look, Side, IInv, AnswerOK
    <3>2. \A a \in Literals : {a} \in SUBSET (Address4 \cup Address6)  BY SendAssumption
    <3>3. \A answers \in Lookups \ {None, {}} : answers \in SUBSET (Address4 \cup Address6)
      BY SendAssumption
    <3>4. \/ pc' \notin {"judge imap", "judge smtp"}
          \/ answer' = answer /\ (found' \in Lookups \ {None, {}} \/ \E a \in Literals : found' = {a})
      BY <2>1 DEF Look, Passed, Proceed, Refuse, Answer
    <3>5. CASE pc' \notin {"judge imap", "judge smtp"}
      BY <3>5 DEF FoundOK
    <3>6. CASE answer' = answer /\ (found' \in Lookups \ {None, {}} \/ \E a \in Literals : found' = {a})
      <4>1. found' \in SUBSET (Address4 \cup Address6)
        BY <3>2, <3>3, <3>6
      <4> QED  BY <3>1, <3>6, <4>1 DEF FoundOK
    <3> QED  BY <3>4, <3>5, <3>6
  <2>2. CASE \E s \in Side : Judge(s)
    BY <2>2 DEF Judge, Passed, Proceed, Refuse, Answer, FoundOK
  <2>3. CASE Start \/ Begin \/ Attach \/ Post \/ Receive \/ Credential \/ Pick \/ DoSend \/ Submitted
    BY <2>3 DEF Start, Begin, Attach, Post, Receive, Credential, Pick, DoSend, Submitted, Proceed, Refuse,
                Answer, FoundOK
  <2>4. CASE UNCHANGED vars  BY <2>4 DEF vars, FoundOK
  <2> QED  BY <2>1, <2>2, <2>3, <2>4 DEF Next
<1> QED  BY <1>1, <1>2, SendInvariant, PTL DEF Spec

\* For every address a lookup may answer, and every literal: with the guard on, a
\* request goes on exactly if none of them lies in a non-public network
\* (EndpointGuard::check, is_forbidden_ip).
THEOREM GuardIsComplete == Spec => GuardHolds
<1> DEFINE Held ==
      (pc = "judge imap" \/ pc = "judge smtp") => (answer' # None <=> (\E a \in found : NonPublic(a)))
<1>1. IInv /\ FoundOK /\ [Next]_vars => [Held]_vars
  <2> SUFFICES ASSUME IInv, FoundOK, Next, pc = "judge imap" \/ pc = "judge smtp"
               PROVE  answer' # None <=> (\E a \in found : NonPublic(a))
    OBVIOUS
  <2>1. PICK addresses \in SUBSET (Address4 \cup Address6) : addresses = found  BY DEF FoundOK
  <2>2. AnyForbidden(addresses) <=> (\E a \in addresses : NonPublic(a))
    <3>1. \A a \in addresses : IsForbidden(a) <=> NonPublic(a)  BY GuardIsExact
    <3> QED  BY <3>1 DEF AnyForbidden
  <2>3. \E s \in Side : Judge(s)
    BY DEF Next, Start, Begin, Attach, Post, Receive, Credential, Pick, Look, DoSend, Submitted,
           IInv, AnswerOK
  <2>4. IF AnyForbidden(found) THEN Refuse("bad_request", "blocked") ELSE \E s \in Side : Passed(s)
    BY <2>3 DEF Judge
  <2>5. CASE AnyForbidden(found)
    <3>1. answer' = [code |-> "bad_request", why |-> "blocked"]  BY <2>4, <2>5 DEF Refuse, Answer
    <3>2. [code |-> "bad_request", why |-> "blocked"] \in [code : Error, why : {None, "blocked"}]
      BY DEF Error
    <3>3. None \notin [code : Error \cup {"sent"}, why : {None, "blocked"}]  BY ONLY NoneAssumption
    <3>4. answer' # None  BY <3>1, <3>2, <3>3
    <3> QED  BY <2>1, <2>2, <2>5, <3>4
  <2>6. CASE ~AnyForbidden(found)
    <3>1. answer' = answer  BY <2>4, <2>6 DEF Passed, Proceed
    <3>2. answer = None  BY DEF FoundOK
    <3> QED  BY <2>1, <2>2, <2>6, <3>1, <3>2
  <2> QED  BY <2>5, <2>6
<1> QED  BY <1>1, SendInvariant, FoundInvariant, PTL DEF Spec, GuardHolds

-----------------------------------------------------------------------------
(* File names *)

\* The characters that a file name may keep.
Harmless == NameChar \ {"control", "separator"}

LEMMA Trimmed ==
    ASSUME NEW s \in Seq(Harmless)
    PROVE  /\ TrimEnd(s) \in Seq(Harmless) /\ Len(TrimEnd(s)) <= Len(s)
           /\ Len(TrimEnd(s)) # 0 => TrimEnd(s)[1] = s[1] /\ TrimEnd(s)[Len(TrimEnd(s))] # "blank"
           /\ TrimStart(s) \in Seq(Harmless)
           /\ Len(TrimStart(s)) # 0 => TrimStart(s)[1] # "blank"
<1>1. DOMAIN s = 1 .. Len(s) /\ Len(s) \in Nat
  OBVIOUS
<1>2. /\ TrimEnd(s) \in Seq(Harmless) /\ Len(TrimEnd(s)) <= Len(s)
      /\ Len(TrimEnd(s)) # 0 => TrimEnd(s)[1] = s[1] /\ TrimEnd(s)[Len(TrimEnd(s))] # "blank"
  <2> DEFINE I == {i \in DOMAIN s : \E j \in i .. Len(s) : s[j] # "blank"}
             r == Keep(s, I)
  <2>1. I \subseteq DOMAIN s /\ TrimEnd(s) = r
    BY DEF TrimEnd
  <2>2. r \in Seq(Harmless) /\ Len(r) <= Len(s)
    <3> HIDE DEF I
    <3> QED  BY <2>1, Kept
  <2>3. ASSUME Len(r) # 0 PROVE r[1] = s[1] /\ r[Len(r)] # "blank"
    <3>1. /\ I # {}
          /\ \E i \in I : r[1] = s[i] /\ \A j \in I : i <= j
          /\ \E i \in I : r[Len(r)] = s[i] /\ \A j \in I : j <= i
      <4> HIDE DEF I
      <4>1. Spans(r, s, I)
        BY <2>1, KeptEnds
      <4> HIDE DEF r
      <4> QED  BY <2>3, <4>1 DEF Spans
    <3>2. PICK i \in I : r[1] = s[i] /\ \A j \in I : i <= j
      BY <3>1
    <3>3. 1 \in I
      BY <1>1
    <3>4. i = 1
      BY <1>1, <3>2, <3>3
    <3>5. PICK k \in I : r[Len(r)] = s[k] /\ \A j \in I : j <= k
      BY <3>1
    <3>6. PICK j \in k .. Len(s) : s[j] # "blank"
      OBVIOUS
    <3>7. j \in I
      BY <1>1, <3>6
    <3>8. j = k
      BY <1>1, <3>5, <3>6, <3>7
    <3> QED  BY <3>2, <3>4, <3>5, <3>6, <3>8
  <2> HIDE DEF r
  <2> QED  BY <2>1, <2>2, <2>3
<1>3. /\ TrimStart(s) \in Seq(Harmless)
      /\ Len(TrimStart(s)) # 0 => TrimStart(s)[1] # "blank"
  <2> DEFINE I == {i \in DOMAIN s : \E j \in 1 .. i : s[j] # "blank"}
             r == Keep(s, I)
  <2>1. I \subseteq DOMAIN s /\ TrimStart(s) = r
    BY DEF TrimStart
  <2>2. r \in Seq(Harmless)
    <3> HIDE DEF I
    <3> QED  BY <2>1, Kept
  <2>3. ASSUME Len(r) # 0 PROVE r[1] # "blank"
    <3>1. I # {} /\ \E i \in I : r[1] = s[i] /\ \A j \in I : i <= j
      <4> HIDE DEF I
      <4>1. Spans(r, s, I)
        BY <2>1, KeptEnds
      <4> HIDE DEF r
      <4> QED  BY <2>3, <4>1 DEF Spans
    <3>2. PICK i \in I : r[1] = s[i] /\ \A j \in I : i <= j
      BY <3>1
    <3>3. PICK j \in 1 .. i : s[j] # "blank"
      OBVIOUS
    <3>4. j \in I
      BY <1>1, <3>3
    <3>5. j = i
      BY <1>1, <3>2, <3>3, <3>4
    <3> QED  BY <3>2, <3>3, <3>5
  <2> HIDE DEF r
  <2> QED  BY <2>1, <2>2, <2>3
<1> QED  BY <1>2, <1>3

\* sanitize_filename up to the last trim: no harm in it, no blank before it, and
\* no longer than the clamp.
LEMMA ClampedName ==
    ASSUME NEW raw \in Seq(NameChar)
    PROVE  /\ Clamped(raw) \in Seq(Harmless) /\ Len(Clamped(raw)) <= MaxFilenameChars
           /\ Len(Clamped(raw)) # 0 => Clamped(raw)[1] # "blank"
<1> DEFINE I == {i \in DOMAIN raw : raw[i] \notin {"control", "separator"}}
           cleaned == Keep(raw, I)
           trimmed == TrimStart(TrimEnd(cleaned))
           J == {i \in DOMAIN trimmed : i <= MaxFilenameChars}
           r == Keep(trimmed, J)
<1>1. cleaned \in Seq(Harmless)
  <2>1. I \subseteq DOMAIN raw /\ \A i \in I : raw[i] \in Harmless
    BY DEF Harmless
  <2> HIDE DEF I
  <2>2. cleaned \in Seq(NameChar)
    BY <2>1, Kept
  <2>3. \A k \in DOMAIN cleaned : \E i \in I : cleaned[k] = raw[i]
    <3>1. Spans(cleaned, raw, I)
      BY <2>1, KeptEnds
    <3> HIDE DEF cleaned
    <3> QED  BY <3>1 DEF Spans
  <2> HIDE DEF cleaned
  <2>4. \A k \in DOMAIN cleaned : cleaned[k] \in Harmless
    BY <2>1, <2>3
  <2>5. DOMAIN cleaned = 1 .. Len(cleaned) /\ Len(cleaned) \in Nat /\ cleaned = [k \in 1 .. Len(cleaned) |-> cleaned[k]]
    BY <2>2
  <2> QED  BY <2>4, <2>5
<1>2. Clamped(raw) = r
  BY DEF Clamped
<1> HIDE DEF cleaned
<1>3. trimmed \in Seq(Harmless) /\ (Len(trimmed) # 0 => trimmed[1] # "blank")
  BY <1>1, Trimmed
<1> HIDE DEF trimmed
<1>4. DOMAIN trimmed = 1 .. Len(trimmed) /\ Len(trimmed) \in Nat
  BY <1>3
<1>5. J \subseteq DOMAIN trimmed /\ J \subseteq 1 .. MaxFilenameChars
  BY <1>4, LimitAssumption
<1>6. /\ Len(trimmed) # 0 /\ MaxFilenameChars # 0 => 1 \in J
      /\ J # {} => Len(trimmed) # 0 /\ MaxFilenameChars # 0 /\ 1 \in J
      /\ \A j \in J : j \in Nat /\ j >= 1
  BY <1>4, LimitAssumption
<1> HIDE DEF J
<1>7. r \in Seq(Harmless) /\ Len(r) = Cardinality(J)
  BY <1>3, <1>5, Kept
<1>8. Cardinality(J) <= MaxFilenameChars
  BY <1>5, LimitAssumption, Ranks
<1>9. ASSUME Len(r) # 0 PROVE r[1] # "blank"
  <2>1. J # {} /\ \E i \in J : r[1] = trimmed[i] /\ \A j \in J : i <= j
    <3>1. Spans(r, trimmed, J)
      BY <1>3, <1>5, KeptEnds
    <3> HIDE DEF r
    <3> QED  BY <1>9, <3>1 DEF Spans
  <2>2. PICK i \in J : r[1] = trimmed[i] /\ \A j \in J : i <= j
    BY <2>1
  <2>3. i = 1
    BY <1>6, <2>1, <2>2
  <2> QED  BY <1>3, <1>6, <2>1, <2>2, <2>3
<1> HIDE DEF r
<1> QED  BY <1>2, <1>7, <1>8, <1>9

\* sanitize_filename: whatever the name, what becomes of it is safe.
LEMMA SanitizedIsSafe ==
    ASSUME NEW raw \in Seq(NameChar)
    PROVE  IsSafe(SanitizeFilename(raw))
<1> DEFINE clamped == Clamped(raw)
           name == TrimEnd(clamped)
<1>1. clamped \in Seq(Harmless) /\ Len(clamped) <= MaxFilenameChars /\ (Len(clamped) # 0 => clamped[1] # "blank")
  BY ClampedName
<1>2. SanitizeFilename(raw) = IF \A i \in DOMAIN name : name[i] = "." THEN Fallback ELSE name
  BY DEF SanitizeFilename
<1> HIDE DEF clamped
<1>3. /\ name \in Seq(Harmless) /\ Len(name) <= Len(clamped)
      /\ Len(name) # 0 => name[1] = clamped[1] /\ name[Len(name)] # "blank"
  BY <1>1, Trimmed
<1> HIDE DEF name
<1>4. CASE \A i \in DOMAIN name : name[i] = "."
  BY <1>2, <1>4 DEF IsSafe
<1>5. CASE \E i \in DOMAIN name : name[i] # "."
  <2>1. Len(clamped) \in Nat /\ Len(name) \in Nat /\ DOMAIN name = 1 .. Len(name)
    BY <1>1, <1>3
  <2>2. Len(name) # 0 /\ Len(name) \in 1 .. MaxFilenameChars /\ Len(clamped) # 0
    BY <1>1, <1>3, <1>5, <2>1, LimitAssumption
  <2>3. \A i \in DOMAIN name : name[i] \notin {"control", "separator"}
    BY <1>3 DEF Harmless
  <2> QED  BY <1>1, <1>2, <1>3, <1>5, <2>2, <2>3 DEF IsSafe
<1> QED  BY <1>4, <1>5

-----------------------------------------------------------------------------
(* Recipients and bodies *)

AddressText == Addresses \cup {"", "no address"}

\* de_recipients drops nothing but empty parts.
LEMMA WrittenDown ==
    ASSUME NEW field \in Recipients
    PROVE  /\ DeRecipients(field) \in Seq(AddressText)
           /\ Written(field) \subseteq Values(DeRecipients(field))
           /\ Values(DeRecipients(field)) \subseteq Written(field) \cup {""}
<1>1. field.items \in Seq(AddressText)
  BY DEF Recipients, AddressText
<1>2. CASE field.form = "list"
  <2>1. DeRecipients(field) = field.items
    BY <1>2 DEF DeRecipients
  <2> QED  BY <1>1, <2>1 DEF Written, Values
<1>3. CASE field.form # "list"
  <2> DEFINE I == {i \in DOMAIN field.items : field.items[i] # ""}
             r == Keep(field.items, I)
  <2>1. DeRecipients(field) = r /\ I \subseteq DOMAIN field.items
    BY <1>3 DEF DeRecipients
  <2>2. \A i \in DOMAIN field.items : field.items[i] # "" <=> i \in I
    OBVIOUS
  <2> HIDE DEF I
  <2>3. r \in Seq(AddressText)
    BY <1>1, <2>1, Kept
  <2>4. /\ \A k \in DOMAIN r : \E i \in I : r[k] = field.items[i]
        /\ \A i \in I : \E k \in DOMAIN r : r[k] = field.items[i]
    <3>1. Spans(r, field.items, I)
      BY <1>1, <2>1, KeptEnds
    <3> HIDE DEF r
    <3> QED  BY <3>1 DEF Spans
  <2> HIDE DEF r
  <2>5. Written(field) \subseteq Values(r)
    <3>1. ASSUME NEW i \in DOMAIN field.items, field.items[i] # "" PROVE field.items[i] \in Values(r)
      <4>1. PICK k \in DOMAIN r : r[k] = field.items[i]
        BY <2>2, <2>4, <3>1
      <4> QED  BY <4>1 DEF Values
    <3> QED  BY <3>1 DEF Written
  <2>6. Values(r) \subseteq Written(field)
    <3>1. ASSUME NEW k \in DOMAIN r PROVE r[k] \in Written(field)
      <4>1. PICK i \in I : r[k] = field.items[i]
        BY <2>4
      <4>2. i \in DOMAIN field.items /\ field.items[i] # ""
        BY <2>1, <2>2
      <4> QED  BY <4>1, <4>2 DEF Written
    <3> QED  BY <3>1 DEF Values
  <2> QED  BY <2>1, <2>3, <2>5, <2>6
<1> QED  BY <1>2, <1>3

LEMMA ConcatValues ==
    ASSUME NEW S, NEW a \in Seq(S), NEW b \in Seq(S)
    PROVE  a \o b \in Seq(S) /\ Values(a \o b) = Values(a) \cup Values(b)
<1> DEFINE c == a \o b
<1>1. /\ c \in Seq(S) /\ Len(c) = Len(a) + Len(b) /\ Len(a) \in Nat /\ Len(b) \in Nat
      /\ DOMAIN a = 1 .. Len(a) /\ DOMAIN b = 1 .. Len(b) /\ DOMAIN c = 1 .. Len(a) + Len(b)
      /\ \A i \in 1 .. Len(a) : c[i] = a[i]
      /\ \A i \in 1 .. Len(b) : c[Len(a) + i] = b[i]
  OBVIOUS
<1> HIDE DEF c
<1>2. ASSUME NEW i \in DOMAIN c PROVE c[i] \in Values(a) \cup Values(b)
  <2>1. CASE i <= Len(a)
    BY <1>1, <2>1 DEF Values
  <2>2. CASE i > Len(a)
    <3>1. i - Len(a) \in 1 .. Len(b) /\ c[Len(a) + (i - Len(a))] = c[i]
      BY <1>1, <2>2
    <3>2. c[i] = b[i - Len(a)]
      BY <1>1, <3>1
    <3> QED  BY <1>1, <3>1, <3>2 DEF Values
  <2> QED  BY <1>1, <2>1, <2>2
<1>3. ASSUME NEW i \in DOMAIN a PROVE a[i] \in Values(c)
  <2>1. i \in DOMAIN c /\ c[i] = a[i]
    BY <1>1
  <2> QED  BY <2>1 DEF Values
<1>4. ASSUME NEW i \in DOMAIN b PROVE b[i] \in Values(c)
  <2>1. Len(a) + i \in DOMAIN c /\ c[Len(a) + i] = b[i]
    BY <1>1
  <2> QED  BY <2>1 DEF Values
<1>5. Values(c) \subseteq Values(a) \cup Values(b)
  BY <1>2 DEF Values
<1>6. Values(a) \subseteq Values(c) /\ Values(b) \subseteq Values(c)
  BY <1>3, <1>4 DEF Values
<1> QED  BY <1>1, <1>5, <1>6 DEF c

LEMMA ConcatThree ==
    ASSUME NEW S, NEW a \in Seq(S), NEW b \in Seq(S), NEW c \in Seq(S)
    PROVE  Values(a \o b \o c) = Values(a) \cup Values(b) \cup Values(c)
<1>1. PICK front : front = a \o b
  OBVIOUS
<1>2. front \in Seq(S) /\ Values(front) = Values(a) \cup Values(b)
  BY <1>1, ConcatValues
<1>3. Values(front \o c) = Values(front) \cup Values(c)
  BY <1>2, ConcatValues
<1> QED  BY <1>1, <1>2, <1>3

\* The first body is the text, or the html of a message without text.
LEMMA FirstBody ==
    ASSUME NEW message, message.text # None \/ message.html # None
    PROVE  Bodies(message)[1] = IF message.text # None THEN "text" ELSE "html"
<1> DEFINE parts == <<"text", "html">>
           I == {i \in DOMAIN parts : message[parts[i]] # None}
           r == Keep(parts, I)
<1>1. Bodies(message) = r
  BY DEF Bodies
<1>2. parts \in Seq({"text", "html"}) /\ DOMAIN parts = 1 .. 2 /\ parts[1] = "text" /\ parts[2] = "html"
  <2>1. parts \in Seq({"text", "html"}) /\ Len(parts) = 2
    OBVIOUS
  <2> QED  BY <2>1
<1> HIDE DEF parts
<1>3. /\ I \subseteq DOMAIN parts /\ I \subseteq {1, 2}
      /\ 1 \in I <=> message.text # None
      /\ 2 \in I <=> message.html # None
  BY <1>2
<1> HIDE DEF I
<1>4. I # {}
  BY <1>3
<1>5. \E i \in I : r[1] = parts[i] /\ \A j \in I : i <= j
  <2>1. PICK S : S = {"text", "html"}
    OBVIOUS
  <2>2. parts \in Seq(S)
    BY <1>2, <2>1
  <2>3. Spans(r, parts, I)
    BY <1>3, <2>2, KeptEnds
  <2> HIDE DEF r
  <2> QED  BY <1>4, <2>3 DEF Spans
<1> HIDE DEF r
<1>6. PICK i \in I : r[1] = parts[i] /\ \A j \in I : i <= j
  BY <1>5
<1>7. i = 1 \/ (i = 2 /\ 1 \notin I)
  BY <1>3, <1>6
<1> QED  BY <1>1, <1>2, <1>3, <1>6, <1>7

-----------------------------------------------------------------------------
(* What decode_attachments measures *)

\* Every base64 text, well formed or not, has a tally of the kind that the
\* theorems are about, so that SendAssumption excludes no request.
THEOREM EveryTextIsTallied ==
    ASSUME NEW text \in Seq(Base64Char)
    PROVE  Tally(text) \in Content
<1> DEFINE I       == {i \in DOMAIN text : text[i] # "break"}
           compact == Keep(text, I)
           chars   == Len(compact)
           B       == {i \in DOMAIN compact : \E j \in i .. chars : compact[j] # "="}
           last    == Cardinality(B)
           strict  == /\ chars % 4 = 0 /\ chars - last <= 2
                      /\ \A i \in 1 .. last : compact[i] \in {"A", "x"}
                      /\ chars - last > 0 => compact[last] = "A"
<1>1. Tally(text) = [chars |-> chars, padding |-> chars - last, breaks |-> Len(text) - chars,
                     bytes |-> IF strict THEN (last * 6) \div 8 ELSE None]
  BY DEF Tally
<1>2. I \subseteq DOMAIN text
  OBVIOUS
<1> HIDE DEF I
<1>3. /\ compact \in Seq(Base64Char) /\ chars \in Nat /\ chars <= Len(text)
      /\ DOMAIN compact = 1 .. chars /\ Len(text) \in Nat
  BY <1>2, Kept
<1> HIDE DEF compact
<1>4. B \subseteq DOMAIN compact
  OBVIOUS
<1> HIDE DEF B
<1>5. last \in Nat /\ last <= chars
  BY <1>3, <1>4, Kept
<1> HIDE DEF last, chars
<1>6. chars - last \in Nat /\ chars - last <= chars /\ Len(text) - chars \in Nat
      /\ chars - (chars - last) = last
  BY <1>3, <1>5
<1>7. (last * 6) \div 8 \in Nat
  BY <1>5
<1>8. strict => chars % 4 = 0 /\ chars - last <= 2
  OBVIOUS
<1> HIDE DEF strict
<1>9. CASE strict
  <2>1. Tally(text) = [chars |-> chars, padding |-> chars - last, breaks |-> Len(text) - chars,
                       bytes |-> (last * 6) \div 8]
    BY <1>1, <1>9
  <2> QED  BY <1>3, <1>6, <1>7, <1>8, <1>9, <2>1 DEF Content
<1>10. CASE ~strict
  <2>1. Tally(text) = [chars |-> chars, padding |-> chars - last, breaks |-> Len(text) - chars,
                       bytes |-> None]
    BY <1>1, <1>10
  <2> QED  BY <1>3, <1>6, <2>1 DEF Content
<1> QED  BY <1>9, <1>10

\* A text that decodes has as many bytes as decoded_len said.
LEMMA DecodesAsMeasured ==
    ASSUME NEW c \in Content, c.bytes # None
    PROVE  c.bytes = DecodedLen(c) /\ c.bytes \in Nat
<1>1. /\ c.chars \in Nat /\ c.padding \in Nat /\ c.padding <= c.chars
      /\ c.chars % 4 = 0 /\ c.padding <= 2 /\ c.bytes = ((c.chars - c.padding) * 6) \div 8
      /\ c.bytes \in Nat
  BY DEF Content
<1>2. PICK n \in Nat, p \in {0, 1, 2} : c.chars = 4 * n /\ c.padding = p /\ n = c.chars \div 4
  BY <1>1
<1>3. ((4 * n - p) * 6) \div 8 = n * 3 - p
  <2>1. CASE p = 0
    BY <2>1
  <2>2. CASE p = 1
    BY <2>2
  <2>3. CASE p = 2
    BY <2>3
  <2> QED  BY <2>1, <2>2, <2>3
<1>4. DecodedLen(c) = n * 3 - p
  BY <1>1, <1>2 DEF DecodedLen
<1> QED  BY <1>1, <1>2, <1>3, <1>4

LEMMA MeasuredWithin ==
    ASSUME NEW c \in Content, DecodedLen(c) # None
    PROVE  DecodedLen(c) \in Nat /\ DecodedLen(c) <= c.chars /\ c.chars \in Nat /\ c.breaks \in Nat
<1>1. c.chars \in Nat /\ c.padding \in Nat /\ c.padding <= c.chars /\ c.breaks \in Nat
  BY DEF Content
<1>2. DecodedLen(c) \in Nat
  BY Measured
<1>3. DecodedLen(c) = (c.chars \div 4) * 3 - c.padding
  BY <1>1 DEF DecodedLen
<1> QED  BY <1>1, <1>2, <1>3

Lengths(files) == [i \in DOMAIN files |-> DecodedLen(files[i].content)]

Measurable(files) == \A i \in DOMAIN files : DecodedLen(files[i].content) # None

LEMMA LengthsAreNat ==
    ASSUME NEW files \in Seq(Attachment), Measurable(files)
    PROVE  Lengths(files) \in Seq(Nat) /\ Len(Lengths(files)) = Len(files)
<1>1. ASSUME NEW i \in DOMAIN files PROVE DecodedLen(files[i].content) \in Nat
  <2>1. files[i] \in Attachment
    OBVIOUS
  <2>2. files[i].content \in Content
    BY <2>1 DEF Attachment
  <2> QED  BY <2>2, Measured DEF Measurable
<1>2. DOMAIN files = 1 .. Len(files) /\ Len(files) \in Nat
  OBVIOUS
<1> QED  BY <1>1, <1>2 DEF Lengths

\* The saturating total is the sum, up to the largest usize.
LEMMA TotalSaturates ==
    ASSUME NEW files \in Seq(Attachment), Measurable(files)
    PROVE  Total(files) = Saturate(SumOf(Lengths(files)))
<1> DEFINE s == Lengths(files)
           N == Len(files)
<1>1. s \in Seq(Nat) /\ Len(s) = N /\ N \in Nat /\ MaxUsize \in Nat
      /\ \A i \in 1 .. N : s[i] = DecodedLen(files[i].content) /\ s[i] \in Nat
  BY LengthsAreNat, LimitAssumption DEF Lengths
<1>2. PICK total : total = CHOOSE g : g = [n \in 0 .. N |->
          IF n = 0 THEN 0 ELSE Saturate(g[n - 1] + DecodedLen(files[n].content))]
  OBVIOUS
<1>3. Total(files) = total[N]
  BY <1>2 DEF Total
<1> HIDE DEF s
<1>4. PICK sum \in [0 .. N -> Nat] :
          sum[0] = 0 /\ (\A n \in 1 .. N : sum[n] = sum[n - 1] + s[n]) /\ SumOf(s) = sum[N]
  BY <1>1, PartialSums
<1> HIDE DEF N
<1>5. \A a, b \in Nat : Saturate(Saturate(a) + b) = Saturate(a + b) /\ Saturate(0) = 0
  BY <1>1 DEF Saturate
<1> DEFINE g == [n \in 0 .. N |-> Saturate(sum[n])]
<1>6. g = [n \in 0 .. N |-> IF n = 0 THEN 0 ELSE Saturate(g[n - 1] + DecodedLen(files[n].content))]
  <2>1. g[0] = 0
    BY <1>1, <1>4, <1>5
  <2>2. ASSUME NEW n \in 1 .. N PROVE g[n] = Saturate(g[n - 1] + DecodedLen(files[n].content))
    <3>1. n - 1 \in 0 .. N /\ n \in 0 .. N /\ sum[n - 1] \in Nat
      BY <1>1, <1>4
    <3>2. PICK a \in Nat, b \in Nat : a = sum[n - 1] /\ b = s[n]
      BY <1>1, <3>1
    <3>3. g[n] = Saturate(a + b) /\ g[n - 1] = Saturate(a)
      BY <1>4, <3>1, <3>2
    <3>4. DecodedLen(files[n].content) = b
      BY <1>1, <3>2
    <3>5. Saturate(Saturate(a) + b) = Saturate(a + b)
      BY <1>5
    <3> HIDE DEF g
    <3> QED  BY <3>3, <3>4, <3>5
  <2>3. \A n \in 0 .. N : n = 0 \/ n \in 1 .. N
    BY <1>1
  <2>4. \A n \in 0 .. N : g[n] = IF n = 0 THEN 0 ELSE Saturate(g[n - 1] + DecodedLen(files[n].content))
    BY <2>1, <2>2, <2>3
  <2>5. DOMAIN g = 0 .. N /\ g = [n \in 0 .. N |-> g[n]]
    OBVIOUS
  <2> HIDE DEF g
  <2> QED  BY <2>4, <2>5
<1> HIDE DEF g
<1>7. total = [n \in 0 .. N |-> IF n = 0 THEN 0 ELSE Saturate(total[n - 1] + DecodedLen(files[n].content))]
  BY <1>2, <1>6
<1> DEFINE T == {n \in Nat : n <= N => total[n] = Saturate(sum[n])}
<1>8. 0 \in T
  BY <1>1, <1>4, <1>5, <1>7
<1>9. ASSUME NEW n \in Nat, n \in T PROVE n + 1 \in T
  <2> SUFFICES ASSUME n + 1 <= N PROVE total[n + 1] = Saturate(sum[n + 1])
    OBVIOUS
  <2>1. n + 1 \in 0 .. N /\ n + 1 # 0 /\ (n + 1) - 1 = n /\ n + 1 \in 1 .. N /\ n \in 0 .. N /\ n <= N
    BY <1>1
  <2>2. total[n + 1] = Saturate(total[n] + DecodedLen(files[n + 1].content))
    BY <1>7, <2>1
  <2>3. total[n] = Saturate(sum[n])
    BY <1>9, <2>1
  <2>4. sum[n + 1] = sum[n] + s[n + 1] /\ sum[n] \in Nat /\ s[n + 1] \in Nat
    BY <1>1, <1>4, <2>1
  <2>5. PICK a \in Nat, b \in Nat : a = sum[n] /\ b = s[n + 1]
    BY <2>4
  <2>6. DecodedLen(files[n + 1].content) = b
    BY <1>1, <2>1, <2>5
  <2>7. Saturate(Saturate(a) + b) = Saturate(a + b)
    BY <1>5
  <2>8. total[n + 1] = Saturate(Saturate(a) + b)
    BY <2>2, <2>3, <2>5, <2>6
  <2>9. sum[n + 1] = a + b
    BY <2>4, <2>5
  <2> QED  BY <2>7, <2>8, <2>9
<1> HIDE DEF T
<1>10. \A n \in Nat : n \in T
  BY <1>8, <1>9, Induction
<1>11. total[N] = Saturate(sum[N])
  BY <1>1, <1>10 DEF T
<1> QED  BY <1>3, <1>4, <1>11 DEF N, s

-----------------------------------------------------------------------------
(* The server that is picked *)

UsableAt(servers, kind) == {i \in DOMAIN servers : Usable(servers[i], kind)}

Tls(server) == server.socket = "SSL"

\* pick_server: the first of those with implicit TLS, or else the first, of the
\* usable servers; none exactly if there is none.
IsBest(servers, U, i) ==
    /\ i \in U
    /\ \A j \in U : Tls(servers[j]) => Tls(servers[i])
    /\ \A j \in U : (Tls(servers[j]) <=> Tls(servers[i])) => i <= j

LEMMA Picked ==
    ASSUME NEW servers \in Seq(XmlServer), NEW kind \in Side
    PROVE  /\ UsableAt(servers, kind) = {} => PickServer(servers, kind) = None
           /\ UsableAt(servers, kind) # {} =>
                  \E i : IsBest(servers, UsableAt(servers, kind), i) /\ PickServer(servers, kind) = servers[i]
<1> DEFINE U == UsableAt(servers, kind)
           cands == Keep(servers, U)
           V == {k \in DOMAIN cands : cands[k].socket = "SSL"}
           ssl == Keep(cands, V)
<1>1. U \subseteq DOMAIN servers /\ DOMAIN servers = 1 .. Len(servers) /\ \A i \in U : i \in Nat
  BY DEF UsableAt
<1>2. PickServer(servers, kind) = First(IF ssl # <<>> THEN ssl ELSE cands)
  BY DEF PickServer, UsableAt
<1> SUFFICES /\ U = {} => PickServer(servers, kind) = None
             /\ U # {} => \E i : IsBest(servers, U, i) /\ PickServer(servers, kind) = servers[i]
  OBVIOUS
<1> HIDE DEF U
<1>3. /\ cands \in Seq(XmlServer) /\ DOMAIN cands = 1 .. Len(cands) /\ Len(cands) \in Nat
      /\ \E f : Enumerates(f, cands, servers, U)
  BY <1>1, Kept
<1>4. Len(cands) = 0 <=> U = {}
  <2>1. Spans(cands, servers, U)
    BY <1>1, KeptEnds
  <2> HIDE DEF cands
  <2> QED  BY <2>1 DEF Spans
<1>5. PICK f : Enumerates(f, cands, servers, U)
  BY <1>3
<1> HIDE DEF cands
<1>6. /\ \A k \in DOMAIN cands : f[k] \in U /\ cands[k] = servers[f[k]]
      /\ \A j, k \in DOMAIN cands : j < k => f[j] < f[k]
      /\ \A i \in U : \E k \in DOMAIN cands : f[k] = i
  BY <1>5 DEF Enumerates
<1>7. V \subseteq DOMAIN cands /\ \A k \in DOMAIN cands : k \in V <=> Tls(cands[k])
  BY DEF Tls
<1> HIDE DEF V
<1>8. ssl \in Seq(XmlServer) /\ Len(ssl) \in Nat
  BY <1>3, <1>7, Kept
<1>9. /\ Len(ssl) = 0 <=> V = {}
      /\ V # {} => \E k \in V : ssl[1] = cands[k] /\ \A j \in V : k <= j
  <2>1. Spans(ssl, cands, V)
    BY <1>3, <1>7, KeptEnds
  <2> HIDE DEF ssl
  <2> QED  BY <2>1 DEF Spans
<1> HIDE DEF ssl
<1>10. (ssl = <<>> <=> V = {}) /\ (cands = <<>> <=> U = {})
  BY <1>3, <1>4, <1>8, <1>9
<1>11. CASE V = {} /\ U = {}
  BY <1>2, <1>10, <1>11 DEF First
<1>12. CASE V = {} /\ U # {}
  <2>1. PickServer(servers, kind) = cands[1] /\ 1 \in DOMAIN cands
    BY <1>2, <1>3, <1>4, <1>10, <1>12 DEF First
  <2>2. \A j \in U : ~Tls(servers[j])
    BY <1>6, <1>7, <1>12
  <2>3. ASSUME NEW j \in U PROVE f[1] <= j
    <3>1. PICK k \in DOMAIN cands : f[k] = j
      BY <1>6
    <3>2. k = 1 \/ 1 < k
      BY <1>3
    <3> QED  BY <1>1, <1>6, <2>1, <3>1, <3>2
  <2>4. f[1] \in U /\ cands[1] = servers[f[1]]
    BY <1>6, <2>1
  <2>5. IsBest(servers, U, f[1])
    BY <2>2, <2>3, <2>4 DEF IsBest
  <2> QED  BY <1>12, <2>1, <2>4, <2>5
<1>13. CASE V # {}
  <2>1. PICK k \in V : ssl[1] = cands[k] /\ \A j \in V : k <= j
    BY <1>9, <1>13
  <2>2. PickServer(servers, kind) = servers[f[k]] /\ f[k] \in U /\ Tls(servers[f[k]])
    BY <1>2, <1>6, <1>7, <1>10, <1>13, <2>1 DEF First
  <2>3. ASSUME NEW j \in U, Tls(servers[j]) PROVE f[k] <= j
    <3>1. PICK m \in DOMAIN cands : f[m] = j
      BY <1>6
    <3>2. m \in V
      BY <1>6, <1>7, <2>3, <3>1
    <3>3. k \in DOMAIN cands /\ (k = m \/ k < m)
      BY <1>3, <1>7, <2>1, <3>2
    <3> QED  BY <1>1, <1>6, <3>1, <3>3
  <2>4. IsBest(servers, U, f[k])
    BY <2>2, <2>3 DEF IsBest
  <2> QED  BY <1>13, <2>2, <2>4
<1> QED  BY <1>11, <1>12, <1>13

LEMMA UsableServer ==
    ASSUME NEW server \in XmlServer, NEW kind \in Side, Usable(server, kind)
    PROVE  server # None /\ [host |-> server.hostname, port |-> server.port] \in HostPort
<1>1. server.hostname \in HostKind /\ server.port \in Nat
  BY DEF Usable, XmlServer
<1> QED  BY <1>1, NoneAssumption DEF HostPort

\* What pick_server returns, if anything, is an endpoint.
LEMMA PickedServer ==
    ASSUME NEW servers \in Seq(XmlServer), NEW kind \in Side
    PROVE  \/ PickServer(servers, kind) = None
           \/ [host |-> PickServer(servers, kind).hostname, port |-> PickServer(servers, kind).port] \in HostPort
<1>1. CASE UsableAt(servers, kind) = {}
  BY <1>1, Picked
<1>2. CASE UsableAt(servers, kind) # {}
  <2>1. PICK i : IsBest(servers, UsableAt(servers, kind), i) /\ PickServer(servers, kind) = servers[i]
    BY <1>2, Picked
  <2>2. i \in DOMAIN servers /\ Usable(servers[i], kind)
    BY <2>1 DEF IsBest, UsableAt
  <2>3. servers[i] \in XmlServer
    BY <2>2
  <2> QED  BY <2>1, <2>2, <2>3, UsableServer
<1> QED  BY <1>1, <1>2

-----------------------------------------------------------------------------
(* The second invariant: what is submitted *)

Shape ==
    /\ process \in {"off", "serving", "exited"}
    /\ config # None <=> process = "serving"
    /\ pc \in Step
    /\ target \in [Side -> HostPort \cup {None}]
    /\ pc = "pick" => document \in Documents
    /\ answer # None => answer.code \in Error \cup {"sent"}

\* The sum that is kept with the files is the sum of what they measure, and no
\* more than the body is long.
SizeOK ==
    IF Measurable(request.files)
    THEN request.size = SumOf(Lengths(request.files)) /\ request.size <= request.length
    ELSE request.size = None

\* What is submitted is made of a letter without objection.
SubmitOK ==
    pc = "submit" =>
        LET message == IntoMessage(outgoing.letter, request.files)
        IN  /\ outgoing.letter \in Letter
            /\ Objection(outgoing.letter, request.files, config.cap) = None
            /\ outgoing.disclosure = Disclosure(message)
            /\ outgoing.envelope = Envelope(message)
            /\ outgoing.mime = Mime(message)
            /\ IsAddressed(Envelope(message))

\* A letter that was too large was so by its files.
TooLargeOK ==
    answer # None /\ answer.why = "too large" =>
        \E letter \in Letter : Objection(letter, request.files, config.cap) = "too large"

SInv == IInv /\ Shape /\ SizeOK /\ SubmitOK /\ TooLargeOK

LEMMA InitSecond == Init => SInv
<1> SUFFICES ASSUME Init PROVE SInv
  OBVIOUS
<1>1. IInv
  BY Initially
<1>2. Shape
  BY DEF Init, Shape, Step, NoTarget
<1>3. SizeOK
  <2>1. request.files = <<>> /\ request.size = 0 /\ request.length = 0
    BY DEF Init, Blank
  <2>2. Lengths(<<>>) = <<>> /\ Measurable(<<>>)
    BY DEF Lengths, Measurable
  <2>3. SumOf(<<>>) = 0
    BY EmptySum
  <2> QED  BY <2>1, <2>2, <2>3 DEF SizeOK
<1>4. SubmitOK /\ TooLargeOK
  BY DEF Init, SubmitOK, TooLargeOK
<1> QED  BY <1>1, <1>2, <1>3, <1>4 DEF SInv

\* A step of the handler that neither submits nor changes the files.
LEMMA Handled ==
    ASSUME SInv, IInv',
           UNCHANGED <<process, load, config>>,
           request'.files = request.files, request'.size = request.size, request'.length = request.length,
           pc' \in Step \ {"submit"}, target' \in [Side -> HostPort \cup {None}],
           pc' = "pick" => document' \in Documents,
           \/ answer' = answer
           \/ answer'.code \in Error \cup {"sent"} /\ answer'.why # "too large"
    PROVE  SInv'
<1>1. Shape'
  BY DEF SInv, Shape
<1>2. SizeOK'
  BY DEF SInv, SizeOK
<1>3. SubmitOK'
  BY DEF SubmitOK
<1>4. TooLargeOK'
  BY DEF SInv, TooLargeOK
<1> QED  BY <1>1, <1>2, <1>3, <1>4 DEF SInv

-----------------------------------------------------------------------------
(* What an objection says *)

LEMMA NoObjection ==
    ASSUME NEW letter, NEW files, NEW cap, Objection(letter, files, cap) = None
    PROVE  /\ DeRecipients(letter.to) # <<>>
           /\ ~(letter.text = None /\ letter.html = None)
           /\ Measurable(files)
           /\ ~(Total(files) > cap)
           /\ \A i \in DOMAIN files : files[i].content.bytes # None
<1>1. None \notin Reason
  BY NoneAssumption
<1>2. /\ None # "no recipient" /\ None # "no body" /\ None # "too many"
      /\ None # "invalid" /\ None # "too large"
  BY <1>1 DEF Reason
<1> QED  BY <1>2 DEF Objection, Readable, Measurable

LEMMA Otherwise == None # "too large"
<1>1. None \notin Reason
  BY NoneAssumption
<1> QED  BY <1>1 DEF Reason

LEMMA TooLarge ==
    ASSUME NEW letter, NEW files, NEW cap, Objection(letter, files, cap) = "too large"
    PROVE  Measurable(files) /\ Total(files) > cap
<1>1. None \notin Reason
  BY NoneAssumption
<1>2. None # "too large"
  BY <1>1 DEF Reason
<1> QED  BY <1>2 DEF Objection, Readable, Measurable

-----------------------------------------------------------------------------
(* Every step keeps the second invariant *)

\* An answer that leaves the files as they are, and is not about their size.
LEMMA Answered ==
    ASSUME SInv, IInv', NEW code \in Error \cup {"sent"}, NEW why, why # "too large",
           Answer(code, why),
           request'.files = request.files, request'.size = request.size, request'.length = request.length
    PROVE  SInv'
<1>1. answer'.code \in Error \cup {"sent"} /\ answer'.why # "too large"
  BY DEF Answer
<1>2. pc' = "idle" /\ target' \in [Side -> HostPort \cup {None}] /\ UNCHANGED <<process, load, config>>
  BY DEF Answer, NoTarget
<1>3. pc' \in Step \ {"submit"} /\ pc' # "pick"
  BY <1>2 DEF Step
<1> QED  BY <1>1, <1>2, <1>3, Handled

LEMMA RefusedAgain ==
    ASSUME SInv, IInv', NEW code \in Error \cup {"sent"}, NEW why, why # "too large", Refuse(code, why)
    PROVE  SInv'
BY Answered DEF Refuse

LEMMA Proceeds ==
    ASSUME SInv, IInv', NEW step \in Step \ {"submit"}, Proceed(step), UNCHANGED request,
           target' \in [Side -> HostPort \cup {None}], step = "pick" => document' \in Documents
    PROVE  SInv'
<1>1. pc' = step /\ UNCHANGED <<process, load, config, answer>>
  BY DEF Proceed
<1> QED  BY <1>1, Handled

LEMMA StartSecond == SInv /\ IInv' /\ Start => SInv'
<1> SUFFICES ASSUME SInv, IInv', Start PROVE SInv'
  OBVIOUS
<1>1. /\ process # "serving" /\ UNCHANGED <<load, pc, request, target, document, outgoing, answer>>
      /\ \/ process' = "serving" /\ config' = Config(work.env)
         \/ process' = "exited" /\ config' = None
  BY DEF Start
<1>2. pc = "idle" /\ answer = None /\ load \in DOMAIN Workloads
  BY <1>1 DEF SInv, IInv, AnswerOK
<1>3. Config(work.env) # None
  BY <1>2, NoneAssumption DEF work
<1>4. Shape'
  BY <1>1, <1>2, <1>3 DEF SInv, Shape
<1>5. SizeOK'
  BY <1>1 DEF SInv, SizeOK
<1>6. SubmitOK' /\ TooLargeOK'
  BY <1>1, <1>2 DEF SubmitOK, TooLargeOK
<1> QED  BY <1>4, <1>5, <1>6 DEF SInv

LEMMA BeginSecond == SInv /\ IInv' /\ Begin => SInv'
<1> SUFFICES ASSUME SInv, IInv', Begin PROVE SInv'
  OBVIOUS
<1>1. PICK rest \in work.rests : request' = Blank(rest)
  BY DEF Begin
<1>2. rest \in Nat
  BY <1>1, WorkOK, LimitAssumption DEF SInv, IInv
<1>3. request'.files = <<>> /\ request'.size = 0 /\ request'.length = rest
  BY <1>1 DEF Blank
<1>4. pc' = "compose" /\ answer' = None /\ UNCHANGED <<process, load, config, target, document>>
  BY DEF Begin
<1>5. Shape'
  BY <1>4 DEF SInv, Shape, Step
<1>6. SizeOK'
  <2>1. Lengths(<<>>) = <<>> /\ Measurable(<<>>)
    BY DEF Lengths, Measurable
  <2>2. SumOf(<<>>) = 0
    BY EmptySum
  <2> QED  BY <1>2, <1>3, <2>1, <2>2 DEF SizeOK
<1>7. SubmitOK' /\ TooLargeOK'
  BY <1>4 DEF SubmitOK, TooLargeOK
<1> QED  BY <1>5, <1>6, <1>7 DEF SInv

\* One more file: what it measures is added to the sum, and is not more than
\* what it adds to the body.
LEMMA AttachSecond == SInv /\ IInv' /\ Attach => SInv'
<1> SUFFICES ASSUME SInv, IInv', Attach PROVE SInv'
  OBVIOUS
<1>1. PICK f \in work.files[Len(request.files) + 1] :
          request' = [files   |-> Append(request.files, f), rest |-> request.rest, bearer |-> None,
                      length  |-> request.length + f.content.chars + 2 * f.content.breaks,
                      size    |-> IF None \in {request.size, DecodedLen(f.content)} THEN None
                                  ELSE request.size + DecodedLen(f.content),
                      wrapped |-> request.wrapped \/ f.content.breaks # 0]
  BY DEF Attach
<1>2. pc' = "compose" /\ pc = "compose" /\ UNCHANGED <<process, load, config, target, document, answer>>
  BY DEF Attach
<1>3. RequestOK
  BY DEF SInv, IInv
<1>4. f \in Attachment
  <2>1. work.files \in Seq(SUBSET Attachment)
    BY WorkOK DEF SInv, IInv
  <2>2. Len(request.files) + 1 \in 1 .. Len(work.files)
    BY <1>3 DEF Attach, RequestOK
  <2>3. work.files[Len(request.files) + 1] \in SUBSET Attachment
    BY <2>1, <2>2
  <2> QED  BY <1>1, <2>3
<1>5. PICK files : files = request.files
  OBVIOUS
<1>6. PICK more : more = Append(files, f)
  OBVIOUS
<1>7. PICK measured : measured = DecodedLen(f.content)
  OBVIOUS
<1>8. /\ files \in Seq(Attachment) /\ more \in Seq(Attachment)
      /\ Len(more) = Len(files) + 1 /\ Len(files) \in Nat
      /\ DOMAIN more = 1 .. Len(files) + 1 /\ DOMAIN files = 1 .. Len(files)
      /\ more[Len(files) + 1] = f /\ \A i \in 1 .. Len(files) : more[i] = files[i]
  BY <1>3, <1>4, <1>5, <1>6 DEF RequestOK
<1>9. Measurable(more) <=> Measurable(files) /\ measured # None
  <2>1. \A i : i \in 1 .. Len(files) + 1 <=> (i \in 1 .. Len(files) \/ i = Len(files) + 1)
    BY <1>8
  <2>2. \A i \in 1 .. Len(files) : DecodedLen(more[i].content) = DecodedLen(files[i].content)
    BY <1>8
  <2>3. DecodedLen(more[Len(files) + 1].content) = measured
    BY <1>7, <1>8
  <2> QED  BY <1>8, <2>1, <2>2, <2>3 DEF Measurable
<1>10. /\ request'.files = more
       /\ request'.size = IF None \in {request.size, measured} THEN None ELSE request.size + measured
       /\ request'.length = request.length + f.content.chars + 2 * f.content.breaks
  BY <1>1, <1>5, <1>6, <1>7
<1>11. /\ Measurable(files) => request.size = SumOf(Lengths(files)) /\ request.size <= request.length
       /\ ~Measurable(files) => request.size = None
  BY <1>5 DEF SInv, SizeOK
<1>12. SizeOK'
  <2>1. CASE ~Measurable(more)
    BY <1>9, <1>10, <1>11, <2>1 DEF SizeOK
  <2>2. CASE Measurable(more)
    <3>1. Measurable(files) /\ measured # None
      BY <1>9, <2>2
    <3>2. Lengths(files) \in Seq(Nat) /\ Lengths(more) \in Seq(Nat)
          /\ Len(Lengths(files)) = Len(files) /\ Len(Lengths(more)) = Len(files) + 1
      BY <1>8, <2>2, <3>1, LengthsAreNat
    <3>3. f.content \in Content
      BY <1>4 DEF Attachment
    <3>4. measured \in Nat /\ measured <= f.content.chars
          /\ f.content.chars \in Nat /\ f.content.breaks \in Nat
      BY <1>7, <3>1, <3>3, MeasuredWithin
    <3>5. Lengths(more) = Append(Lengths(files), measured)
      <4>1. \A i \in 1 .. Len(files) : Lengths(more)[i] = Lengths(files)[i]
        BY <1>8 DEF Lengths
      <4>2. Lengths(more)[Len(files) + 1] = measured
        BY <1>7, <1>8 DEF Lengths
      <4> HIDE DEF Lengths
      <4>3. Append(Lengths(files), measured) \in Seq(Nat)
            /\ Len(Append(Lengths(files), measured)) = Len(files) + 1
            /\ Append(Lengths(files), measured)[Len(files) + 1] = measured
            /\ \A i \in 1 .. Len(files) : Append(Lengths(files), measured)[i] = Lengths(files)[i]
        BY <3>2, <3>4, <1>8
      <4>4. \A i : i \in 1 .. Len(files) + 1 <=> (i \in 1 .. Len(files) \/ i = Len(files) + 1)
        BY <1>8
      <4>5. \A i \in 1 .. Len(files) + 1 : Lengths(more)[i] = Append(Lengths(files), measured)[i]
        BY <4>1, <4>2, <4>3, <4>4
      <4> QED  BY <3>2, <4>3, <4>5
    <3>6. SumOf(Lengths(more)) = SumOf(Lengths(files)) + measured
      BY <3>2, <3>4, <3>5, SumAppend
    <3>7. request.size \in Nat /\ request.length \in Nat
      <4>1. request.size = SumOf(Lengths(files)) /\ request.size \in Nat \cup {None}
        BY <1>3, <1>11, <3>1 DEF RequestOK
      <4>2. SumOf(Lengths(files)) \in Nat
        BY <3>2, <3>4, SumAppend
      <4> QED  BY <1>3, <4>1, <4>2, LimitAssumption DEF RequestOK
    <3>8. request.size # None
      BY <3>7, NoneAssumption
    <3>9. request'.size = request.size + measured
      BY <1>10, <3>1, <3>8
    <3>10. request'.size = SumOf(Lengths(more))
      BY <1>11, <3>1, <3>6, <3>9
    <3>11. request'.size <= request'.length
      <4>1. request.size <= request.length
        BY <1>11, <3>1
      <4>2. PICK l \in Nat, z \in Nat, k \in Nat, b \in Nat :
                l = request.length /\ z = request.size /\ k = f.content.chars /\ b = f.content.breaks
        BY <3>4, <3>7
      <4>3. z <= l /\ measured <= k /\ measured \in Nat
        BY <3>4, <4>1, <4>2
      <4>4. z + measured <= l + k + 2 * b
        BY <4>3
      <4> QED  BY <1>10, <3>9, <4>2, <4>4
    <3> QED  BY <1>10, <2>2, <3>10, <3>11 DEF SizeOK
  <2> QED  BY <2>1, <2>2
<1>13. Shape'
  BY <1>2 DEF SInv, Shape
<1>14. SubmitOK' /\ TooLargeOK'
  <2>1. answer' = None
    BY <1>2 DEF SInv, IInv, AnswerOK
  <2> QED  BY <1>2, <2>1 DEF SubmitOK, TooLargeOK
<1> QED  BY <1>12, <1>13, <1>14 DEF SInv

LEMMA PostSecond == SInv /\ IInv' /\ Post => SInv'
<1> SUFFICES ASSUME SInv, IInv', Post PROVE SInv'
  OBVIOUS
<1>1. PICK bearer \in KeyText \cup {None} : request' = [request EXCEPT !.bearer = bearer]
  BY DEF Post
<1>2. /\ request'.files = request.files /\ request'.size = request.size
      /\ request'.length = request.length
  BY <1>1 DEF SInv, IInv, RequestOK
<1>3. pc' = "gate" /\ UNCHANGED <<process, load, config, target, document, answer>>
  BY DEF Post, Proceed
<1>4. pc' \in Step \ {"submit"} /\ pc' # "pick" /\ target' \in [Side -> HostPort \cup {None}]
  BY <1>3 DEF Step, SInv, Shape
<1> QED  BY <1>2, <1>3, <1>4, Handled

LEMMA ReceiveSecond == SInv /\ IInv' /\ Receive => SInv'
<1> SUFFICES ASSUME SInv, IInv', Receive PROVE SInv'
  OBVIOUS
<1>1. request' = [request EXCEPT !.bearer = None]
  BY DEF Receive
<1>2. /\ request'.files = request.files /\ request'.size = request.size
      /\ request'.length = request.length
  BY <1>1 DEF SInv, IInv, RequestOK
<1>3. \/ \E code \in Error, why \in {None, "content type", "json"} : Answer(code, why)
      \/ Proceed("credential") /\ UNCHANGED <<target, document, found>>
  BY DEF Receive, Error
<1>4. CASE \E code \in Error, why \in {None, "content type", "json"} : Answer(code, why)
  <2>1. PICK code \in Error, why \in {None, "content type", "json"} : Answer(code, why)
    BY <1>4
  <2>2. why # "too large"
    BY Otherwise
  <2> QED  BY <1>2, <2>1, <2>2, Answered
<1>5. CASE Proceed("credential") /\ UNCHANGED <<target, document, found>>
  <2>1. /\ pc' = "credential" /\ UNCHANGED <<process, load, config, target, answer>>
        /\ pc' \in Step \ {"submit"} /\ pc' # "pick"
    BY <1>5 DEF Proceed, Step
  <2>2. target' \in [Side -> HostPort \cup {None}]
    BY <2>1 DEF SInv, Shape
  <2> QED  BY <1>2, <2>1, <2>2, Handled
<1> QED  BY <1>3, <1>4, <1>5

LEMMA CredentialSecond == SInv /\ IInv' /\ Credential => SInv'
<1> SUFFICES ASSUME SInv, IInv', Credential PROVE SInv'
  OBVIOUS
<1>1. PICK h \in work.headers :
          \/ Refuse("bad_request", None) \/ Refuse("autoconfig_failed", None)
          \/ target' = Given(h) /\ Proceed("look imap") /\ UNCHANGED <<request, document, found>>
          \/ /\ document' \in Documents /\ target' = Given(h)
             /\ Proceed("pick") /\ UNCHANGED <<request, found>>
  BY DEF Credential
<1>2. Given(h) \in [Side -> HostPort \cup {None}]
  <2>1. load \in DOMAIN Workloads
    BY DEF SInv, IInv
  <2>2. h \in InlineHeaders
    BY <1>1, <2>1, SendAssumption DEF work
  <2>3. \A s \in Side : h.hostPort[s] \in HostPort
    BY <2>2 DEF InlineHeaders
  <2> QED  BY <2>3 DEF Given
<1>3. None # "too large"
  BY Otherwise
<1>4. CASE Refuse("bad_request", None) \/ Refuse("autoconfig_failed", None)
  <2>1. "bad_request" \in Error /\ "autoconfig_failed" \in Error
    BY DEF Error
  <2> QED  BY <1>3, <1>4, <2>1, RefusedAgain
<1>5. CASE target' = Given(h) /\ Proceed("look imap") /\ UNCHANGED <<request, document, found>>
  <2>1. "look imap" \in Step \ {"submit"}
    BY DEF Step
  <2> QED  BY <1>2, <1>5, <2>1, Proceeds
<1>6. CASE document' \in Documents /\ target' = Given(h) /\ Proceed("pick") /\ UNCHANGED <<request, found>>
  <2>1. "pick" \in Step \ {"submit"}
    BY DEF Step
  <2> QED  BY <1>2, <1>6, <2>1, Proceeds
<1> QED  BY <1>1, <1>4, <1>5, <1>6

LEMMA PickSecond == SInv /\ IInv' /\ Pick => SInv'
<1> SUFFICES ASSUME SInv, IInv', Pick PROVE SInv'
  OBVIOUS
<1> DEFINE served == [s \in Side |-> PickServer(document[s], s)]
           chosen == [s \in Side |->
                         IF target[s] # None THEN target[s]
                         ELSE IF served[s] = None THEN None
                         ELSE [host |-> served[s].hostname, port |-> served[s].port]]
<1>1. \/ Refuse("autoconfig_failed", None)
      \/ /\ \A s \in Side : chosen[s] # None
         /\ target' = chosen /\ Proceed("look imap") /\ UNCHANGED request
  BY DEF Pick
<1>2. pc = "pick" /\ document \in [Side -> Seq(XmlServer)] /\ target \in [Side -> HostPort \cup {None}]
  BY SendAssumption DEF Pick, SInv, Shape
<1>3. \A s \in Side : chosen[s] \in HostPort \cup {None}
  <2> TAKE s \in Side
  <2>1. target[s] \in HostPort \cup {None} /\ document[s] \in Seq(XmlServer) /\ served[s] = PickServer(document[s], s)
    BY <1>2
  <2>2. \/ PickServer(document[s], s) = None
        \/ [host |-> PickServer(document[s], s).hostname, port |-> PickServer(document[s], s).port] \in HostPort
    BY <2>1, PickedServer
  <2> QED  BY <2>1, <2>2
<1>4. chosen \in [Side -> HostPort \cup {None}]
  BY <1>3
<1> HIDE DEF chosen
<1>5. CASE Refuse("autoconfig_failed", None)
  <2>1. "autoconfig_failed" \in Error /\ None # "too large"
    BY Otherwise DEF Error
  <2> QED  BY <1>5, <2>1, RefusedAgain
<1>6. CASE target' = chosen /\ Proceed("look imap") /\ UNCHANGED request
  <2>1. "look imap" \in Step \ {"submit"}
    BY DEF Step
  <2> QED  BY <1>4, <1>6, <2>1, Proceeds
<1> QED  BY <1>1, <1>5, <1>6

LEMMA GuardSecond == ASSUME NEW s \in Side PROVE SInv /\ IInv' /\ (Look(s) \/ Judge(s)) => SInv'
<1> SUFFICES ASSUME SInv, IInv', Look(s) \/ Judge(s) PROVE SInv'
  OBVIOUS
<1>1. \/ Refuse("bad_request", "blocked") \/ Refuse("host_unreachable", None)
      \/ \E step \in {"look smtp", "content", "judge imap", "judge smtp"} :
            Proceed(step) /\ UNCHANGED <<request, target, document>>
  BY DEF Look, Judge, Passed
<1>2. CASE Refuse("bad_request", "blocked") \/ Refuse("host_unreachable", None)
  <2>1. "bad_request" \in Error /\ "host_unreachable" \in Error /\ None # "too large" /\ "blocked" # "too large"
    BY Otherwise DEF Error
  <2> QED  BY <1>2, <2>1, RefusedAgain
<1>3. CASE \E step \in {"look smtp", "content", "judge imap", "judge smtp"} :
               Proceed(step) /\ UNCHANGED <<request, target, document>>
  <2>1. PICK step \in {"look smtp", "content", "judge imap", "judge smtp"} :
            Proceed(step) /\ UNCHANGED <<request, target, document>>
    BY <1>3
  <2>2. step \in Step \ {"submit"} /\ step # "pick"
    BY DEF Step
  <2>3. target' \in [Side -> HostPort \cup {None}]
    BY <2>1 DEF SInv, Shape
  <2> QED  BY <2>1, <2>2, <2>3, Proceeds
<1> QED  BY <1>1, <1>2, <1>3

LEMMA DoSendSecond == SInv /\ IInv' /\ DoSend => SInv'
<1> SUFFICES ASSUME SInv, IInv', DoSend PROVE SInv'
  OBVIOUS
<1>1. PICK letter \in work.letters :
          LET objection == Objection(letter, request.files, config.cap)
              message   == IntoMessage(letter, request.files)
          IN  \/ objection # None /\ Refuse("bad_request", objection)
              \/ Refuse("bad_request", "address")
              \/ /\ objection = None /\ IsAddressed(Envelope(message))
                 /\ outgoing' = [letter     |-> letter,
                                 disclosure |-> Disclosure(message),
                                 envelope   |-> Envelope(message),
                                 mime       |-> Mime(message),
                                 security   |-> Security(target["smtp"].port, config.insecure)]
                 /\ pc' = "submit"
                 /\ UNCHANGED <<process, load, config, request, target, document, found, answer>>
  BY DEF DoSend
<1> DEFINE objection == Objection(letter, request.files, config.cap)
           message   == IntoMessage(letter, request.files)
<1>2. letter \in Letter
  <2>1. load \in DOMAIN Workloads
    BY DEF SInv, IInv
  <2> QED  BY <1>1, <2>1, SendAssumption DEF work
<1>3. "bad_request" \in Error /\ "address" # "too large"
  BY DEF Error
<1>4. CASE Refuse("bad_request", "address")
  BY <1>3, <1>4, RefusedAgain
<1>5. CASE Refuse("bad_request", objection) /\ objection # "too large"
  <2> PICK why : why = objection
    OBVIOUS
  <2> QED  BY <1>3, <1>5, RefusedAgain
<1>6. CASE Refuse("bad_request", objection) /\ objection = "too large"
  <2>1. /\ pc' = "idle" /\ target' = NoTarget /\ answer' = [code |-> "bad_request", why |-> objection]
        /\ UNCHANGED <<process, load, config, request>>
    BY <1>6 DEF Refuse, Answer
  <2>2. Shape'
    BY <1>3, <2>1 DEF SInv, Shape, Step, NoTarget
  <2>3. SizeOK' /\ SubmitOK'
    BY <2>1 DEF SInv, SizeOK, SubmitOK
  <2>4. TooLargeOK'
    <3> SUFFICES \E l \in Letter : Objection(l, request.files, config.cap)' = "too large"
      BY DEF TooLargeOK
    <3> WITNESS letter \in Letter
    <3> QED  BY <1>6, <2>1
  <2> QED  BY <2>2, <2>3, <2>4 DEF SInv
<1>7. CASE /\ objection = None /\ IsAddressed(Envelope(message))
           /\ outgoing' = [letter     |-> letter,
                           disclosure |-> Disclosure(message),
                           envelope   |-> Envelope(message),
                           mime       |-> Mime(message),
                           security   |-> Security(target["smtp"].port, config.insecure)]
           /\ pc' = "submit"
           /\ UNCHANGED <<process, load, config, request, target, document, found, answer>>
  <2>1. Shape'
    BY <1>7 DEF SInv, Shape, Step
  <2>2. SizeOK'
    BY <1>7 DEF SInv, SizeOK
  <2>3. TooLargeOK'
    BY <1>7 DEF SInv, IInv, AnswerOK, TooLargeOK
  <2>4. SubmitOK'
    <3>1. outgoing'.letter = letter /\ outgoing'.disclosure = Disclosure(message)
          /\ outgoing'.envelope = Envelope(message) /\ outgoing'.mime = Mime(message)
      BY <1>7
    <3> QED  BY <1>2, <1>7, <3>1 DEF SubmitOK
  <2> QED  BY <2>1, <2>2, <2>3, <2>4 DEF SInv
<1> QED  BY <1>1, <1>4, <1>5, <1>6, <1>7

LEMMA SubmittedSecond == SInv /\ IInv' /\ Submitted => SInv'
<1> SUFFICES ASSUME SInv, IInv', Submitted PROVE SInv'
  OBVIOUS
<1>1. PICK code \in {"sent", "auth_failure", "host_unreachable", "tls_failure"} : Refuse(code, None)
  BY DEF Submitted
<1>2. code \in Error \cup {"sent"} /\ None # "too large"
  BY Otherwise DEF Error
<1> QED  BY <1>1, <1>2, RefusedAgain

\* The second invariant holds in every reachable state.
THEOREM SecondInvariant == Spec => []SInv
<1>1. Init => SInv
  BY InitSecond
<1>2. SInv /\ [Next]_vars => SInv'
  <2> SUFFICES ASSUME SInv, [Next]_vars PROVE SInv'
    OBVIOUS
  <2>0. IInv'
    BY Invariant DEF SInv
  <2>1. CASE Start
    BY <2>0, <2>1, StartSecond
  <2>2. CASE Begin \/ Attach \/ Post
    BY <2>0, <2>2, BeginSecond, AttachSecond, PostSecond
  <2>3. CASE Receive \/ Credential \/ Pick
    BY <2>0, <2>3, ReceiveSecond, CredentialSecond, PickSecond
  <2>4. CASE \E s \in Side : Look(s) \/ Judge(s)
    BY <2>0, <2>4, GuardSecond
  <2>5. CASE DoSend \/ Submitted
    BY <2>0, <2>5, DoSendSecond, SubmittedSecond
  <2>6. CASE UNCHANGED vars
    BY <2>0, <2>6 DEF vars, SInv, Shape, SizeOK, SubmitOK, TooLargeOK
  <2> QED  BY <2>1, <2>2, <2>3, <2>4, <2>5, <2>6 DEF Next
<1> QED  BY <1>1, <1>2, PTL DEF Spec

-----------------------------------------------------------------------------
(* What follows from it *)

\* Every request is worked off with a configuration, its sizes fit into a usize
\* and every answer has a code of the error set (src/error.rs).
THEOREM TypeCorrect == Spec => []TypeOK
<1>1. SInv => TypeOK
  <2> SUFFICES ASSUME SInv PROVE TypeOK
    OBVIOUS
  <2>1. request.size \in 0 .. MaxUsize \cup {None}
    <3>1. /\ request.size \in Nat \cup {None} /\ request.length \in 0 .. MaxUsize
          /\ request.size = None \/ request.size <= request.length
      BY DEF SInv, IInv, RequestOK, SizeOK
    <3> QED  BY <3>1, LimitAssumption
  <2>2. pc # "idle" => process = "serving"
    BY DEF SInv, IInv, AnswerOK
  <2> QED  BY <2>1, <2>2 DEF SInv, Shape, TypeOK
<1> QED  BY <1>1, SecondInvariant, PTL

\* Files that go out have together at most the bytes of the cap, and a letter
\* whose files decode is refused as too large only if they have more: the sum of
\* decoded_len, taken without decoding anything, is exact, and its saturation
\* changes nothing (decode_attachments).
THEOREM CapExact == Spec => []CapIsExact
<1>1. SInv => CapIsExact
  <2> SUFFICES ASSUME SInv PROVE CapIsExact
    OBVIOUS
  <2> DEFINE files  == request.files
             decode == \A i \in DOMAIN files : files[i].content.bytes # None
             bytes  == [i \in DOMAIN files |-> files[i].content.bytes]
             sum    == SumOf(bytes)
  <2>1. files \in Seq(Attachment) /\ request.length \in 0 .. MaxUsize
    BY DEF SInv, IInv, RequestOK
  <2>2. ASSUME decode PROVE bytes = Lengths(files)
    <3>1. ASSUME NEW i \in DOMAIN files PROVE files[i].content.bytes = DecodedLen(files[i].content)
      <4>1. files[i] \in Attachment
        BY <2>1
      <4>2. files[i].content \in Content
        BY <4>1 DEF Attachment
      <4> QED  BY <2>2, <4>2, DecodesAsMeasured
    <3> QED  BY <3>1 DEF Lengths
  <2>3. ASSUME Measurable(files)
        PROVE  /\ SumOf(Lengths(files)) \in 0 .. MaxUsize
               /\ Total(files) = SumOf(Lengths(files))
    <3>1. Lengths(files) \in Seq(Nat)
      BY <2>1, <2>3, LengthsAreNat
    <3>2. SumOf(Lengths(files)) \in Nat
      BY <3>1, SumAppend
    <3>3. SumOf(Lengths(files)) <= request.length
      BY <2>3 DEF SInv, SizeOK
    <3>4. Total(files) = Saturate(SumOf(Lengths(files)))
      BY <2>1, <2>3, TotalSaturates
    <3> QED  BY <2>1, <3>2, <3>3, <3>4, LimitAssumption DEF Saturate
  <2>4. process = "serving" => config.cap \in Nat
    BY DEF SInv, IInv, ConfigOK
  <2>5. ASSUME answer # None, answer.why = "too large", decode PROVE sum > config.cap
    <3>1. PICK letter \in Letter : Objection(letter, files, config.cap) = "too large"
      BY <2>5 DEF SInv, TooLargeOK
    <3>2. Measurable(files) /\ Total(files) > config.cap
      BY <3>1, TooLarge
    <3> QED  BY <2>2, <2>3, <2>5, <3>2
  <2>6. ASSUME pc = "submit" PROVE decode /\ sum <= config.cap
    <3>1. Objection(outgoing.letter, files, config.cap) = None
      BY <2>6 DEF SInv, SubmitOK
    <3>2. Measurable(files) /\ ~(Total(files) > config.cap) /\ decode
      BY <3>1, NoObjection
    <3>3. process = "serving"
      BY <2>6 DEF SInv, IInv, AnswerOK
    <3>4. sum = Total(files) /\ sum \in Nat
      BY <2>2, <2>3, <3>2, LimitAssumption
    <3> HIDE DEF sum
    <3> QED  BY <2>4, <3>2, <3>3, <3>4
  <2> QED  BY <2>5, <2>6 DEF CapIsExact
<1> QED  BY <1>1, SecondInvariant, PTL

\* The names of the files that go out are safe (sanitize_filename).
THEOREM NamesAreSafe == Spec => []NamesSafe
<1>1. SInv => NamesSafe
  <2> SUFFICES ASSUME SInv, pc = "submit" PROVE NamesSafe
    BY DEF NamesSafe
  <2> DEFINE files == request.files
  <2>1. files \in Seq(Attachment)
    BY DEF SInv, IInv, RequestOK
  <2>2. outgoing.mime = Mime(IntoMessage(outgoing.letter, files))
    BY DEF SInv, SubmitOK
  <2>3. /\ DOMAIN outgoing.mime.attachments = DOMAIN files
        /\ \A i \in DOMAIN files :
              outgoing.mime.attachments[i].filename = SanitizeFilename(files[i].filename)
    BY <2>2 DEF Mime, IntoMessage
  <2>4. ASSUME NEW i \in DOMAIN files PROVE IsSafe(SanitizeFilename(files[i].filename))
    <3>1. files[i] \in Attachment
      BY <2>1
    <3>2. files[i].filename \in Seq(NameChar)
      BY <3>1 DEF Attachment
    <3> QED  BY <3>2, SanitizedIsSafe
  <2> QED  BY <2>3, <2>4 DEF NamesSafe
<1> QED  BY <1>1, SecondInvariant, PTL

\* Everybody who is written down gets the message, and nobody who is only a blind
\* recipient is named (build_envelope, build_mime, SendDisclosure).
THEOREM BlindAreServed == Spec => []BlindButServed
<1>1. SInv => BlindButServed
  <2> SUFFICES ASSUME SInv, pc = "submit" PROVE BlindButServed
    BY DEF BlindButServed
  <2>1. PICK letter \in Letter : letter = outgoing.letter
    BY DEF SInv, SubmitOK
  <2> DEFINE to  == DeRecipients(letter.to)
             cc  == DeRecipients(letter.cc)
             bcc == DeRecipients(letter.bcc)
             all == to \o cc \o bcc
  <2>2. /\ outgoing.mime.to = to /\ outgoing.mime.cc = cc
        /\ outgoing.disclosure.to = to /\ outgoing.envelope.recipients = all
        /\ \A i \in DOMAIN all : all[i] \in Addresses
    <3>1. PICK message : message = IntoMessage(letter, request.files)
      OBVIOUS
    <3>2. /\ outgoing.disclosure = Disclosure(message) /\ outgoing.mime = Mime(message)
          /\ outgoing.envelope = Envelope(message) /\ IsAddressed(Envelope(message))
      BY <2>1, <3>1 DEF SInv, SubmitOK
    <3>3. message.to = to /\ message.cc = cc /\ message.bcc = bcc
      BY <3>1 DEF IntoMessage
    <3>4. Envelope(message).recipients = all
      BY <3>3 DEF Envelope
    <3>5. \A i \in DOMAIN all : all[i] \in Addresses
      BY <3>2, <3>4 DEF IsAddressed
    <3>6. /\ Mime(message).to = message.to /\ Mime(message).cc = message.cc
          /\ Disclosure(message).to = message.to
      BY DEF Mime, Disclosure
    <3> QED  BY <3>2, <3>3, <3>4, <3>5, <3>6
  <2>3. letter.to \in Recipients /\ letter.cc \in Recipients /\ letter.bcc \in Recipients
    BY DEF Letter
  <2>4. /\ to \in Seq(AddressText) /\ cc \in Seq(AddressText) /\ bcc \in Seq(AddressText)
        /\ Written(letter.to) \subseteq Values(to) /\ Values(to) \subseteq Written(letter.to) \cup {""}
        /\ Written(letter.cc) \subseteq Values(cc) /\ Values(cc) \subseteq Written(letter.cc) \cup {""}
        /\ Written(letter.bcc) \subseteq Values(bcc) /\ Values(bcc) \subseteq Written(letter.bcc) \cup {""}
    BY <2>3, WrittenDown
  <2> HIDE DEF to, cc, bcc
  <2>5. to \in Seq(AddressText) /\ cc \in Seq(AddressText) /\ bcc \in Seq(AddressText)
    BY <2>4
  <2>6. Values(all) = Values(to) \cup Values(cc) \cup Values(bcc)
    BY <2>5, ConcatThree
  <2>7. "" \notin Values(all)
    BY <2>2, NoneAssumption DEF Values
  <2> HIDE DEF all
  <2>8. /\ Values(to) = Written(letter.to) /\ Values(cc) = Written(letter.cc)
        /\ Values(bcc) = Written(letter.bcc)
    BY <2>4, <2>6, <2>7 DEF Written
  <2> QED  BY <2>1, <2>2, <2>6, <2>8 DEF BlindButServed
<1> QED  BY <1>1, SecondInvariant, PTL

\* What the caller is told that it sent is what goes out
\* (SendDisclosure::for_message and mixed_body).
THEOREM Disclosed == Spec => []DisclosesWhatIsSent
<1>1. SInv => DisclosesWhatIsSent
  <2> SUFFICES ASSUME SInv, pc = "submit" PROVE DisclosesWhatIsSent
    BY DEF DisclosesWhatIsSent
  <2> DEFINE message == IntoMessage(outgoing.letter, request.files)
  <2>1. /\ Objection(outgoing.letter, request.files, config.cap) = None
        /\ outgoing.disclosure = Disclosure(message) /\ outgoing.mime = Mime(message)
    BY DEF SInv, SubmitOK
  <2>2. message.text # None \/ message.html # None
    BY <2>1, NoObjection DEF IntoMessage
  <2> HIDE DEF message
  <2>3. Bodies(message)[1] = IF message.text # None THEN "text" ELSE "html"
    BY <2>2, FirstBody
  <2> QED  BY <2>1, <2>3 DEF DisclosesWhatIsSent, Disclosure, Mime
<1> QED  BY <1>1, SecondInvariant, PTL

\* Of the servers of a document the one that is chosen is usable, has implicit
\* TLS if any usable one has, and is the first such; a side is given up only if
\* it has no usable server (pick_server).
LEMMA PickChooses ==
    ASSUME SInv, Pick
    PROVE  IF pc' = "idle" THEN \E s \in Side : target[s] = None /\ UsableAt(document[s], s) = {}
           ELSE \A s \in Side : target[s] = None =>
                    \E i : /\ IsBest(document[s], UsableAt(document[s], s), i)
                           /\ target'[s].host = document[s][i].hostname
                           /\ target'[s].port = document[s][i].port
<1> DEFINE served == [s \in Side |-> PickServer(document[s], s)]
           chosen == [s \in Side |->
                         IF target[s] # None THEN target[s]
                         ELSE IF served[s] = None THEN None
                         ELSE [host |-> served[s].hostname, port |-> served[s].port]]
<1>1. \/ (\E s \in Side : chosen[s] = None) /\ pc' = "idle"
      \/ target' = chosen /\ pc' = "look imap" /\ \A s \in Side : chosen[s] # None
  BY DEF Pick, Refuse, Answer, Proceed
<1>2. document \in [Side -> Seq(XmlServer)] /\ target \in [Side -> HostPort \cup {None}]
  BY SendAssumption DEF Pick, SInv, Shape
<1>3. ASSUME NEW s \in Side, chosen[s] = None
      PROVE  target[s] = None /\ UsableAt(document[s], s) = {}
  <2>1. target[s] = None
    BY <1>3
  <2>2. document[s] \in Seq(XmlServer)
    BY <1>2
  <2>3. CASE UsableAt(document[s], s) # {}
    <3>1. PICK i : /\ IsBest(document[s], UsableAt(document[s], s), i)
                   /\ PickServer(document[s], s) = document[s][i]
      BY <2>2, <2>3, Picked
    <3>2. i \in DOMAIN document[s] /\ Usable(document[s][i], s)
      BY <3>1 DEF IsBest, UsableAt
    <3>3. document[s][i] \in XmlServer
      BY <2>2, <3>2
    <3>4. /\ PickServer(document[s], s) # None
          /\ [host |-> PickServer(document[s], s).hostname, port |-> PickServer(document[s], s).port] \in HostPort
      BY <3>1, <3>2, <3>3, UsableServer
    <3>5. chosen[s] = [host |-> PickServer(document[s], s).hostname, port |-> PickServer(document[s], s).port]
      BY <2>1, <3>4
    <3>6. chosen[s] \in HostPort
      BY <3>4, <3>5
    <3> QED  BY <1>3, <3>6, NoneAssumption
  <2> QED  BY <2>1, <2>3
<1>4. ASSUME NEW s \in Side, chosen[s] # None, target[s] = None
      PROVE  \E i : /\ IsBest(document[s], UsableAt(document[s], s), i)
                    /\ chosen[s].host = document[s][i].hostname
                    /\ chosen[s].port = document[s][i].port
  <2>1. document[s] \in Seq(XmlServer)
    BY <1>2
  <2>2. PickServer(document[s], s) # None
        /\ chosen[s] = [host |-> PickServer(document[s], s).hostname, port |-> PickServer(document[s], s).port]
    BY <1>4
  <2>3. UsableAt(document[s], s) # {}
    BY <2>1, <2>2, Picked
  <2>4. PICK i : /\ IsBest(document[s], UsableAt(document[s], s), i)
                 /\ PickServer(document[s], s) = document[s][i]
    BY <2>1, <2>3, Picked
  <2>5. chosen[s].host = document[s][i].hostname /\ chosen[s].port = document[s][i].port
    BY <2>2, <2>4
  <2> QED  BY <2>4, <2>5
<1> HIDE DEF chosen
<1>5. CASE (\E s \in Side : chosen[s] = None) /\ pc' = "idle"
  BY <1>3, <1>5
<1>6. CASE target' = chosen /\ pc' = "look imap" /\ \A s \in Side : chosen[s] # None
  BY <1>4, <1>6
<1> QED  BY <1>1, <1>5, <1>6

THEOREM BestIsChosen == Spec => BestServerChosen
<1> DEFINE Best ==
        pc = "pick" =>
          LET usable(s) == {i \in DOMAIN document[s] : Usable(document[s][i], s)}
              tls(s, i) == document[s][i].socket = "SSL"
              better(s, i, j) == (tls(s, j) /\ ~tls(s, i)) \/ ((tls(s, j) <=> tls(s, i)) /\ j < i)
              is(s, i) == /\ target'[s].host = document[s][i].hostname
                          /\ target'[s].port = document[s][i].port
          IN  IF pc' = "idle" THEN \E s \in Side : target[s] = None /\ usable(s) = {}
              ELSE \A s \in Side : target[s] = None =>
                       \E i \in usable(s) : is(s, i) /\ \A j \in usable(s) : ~better(s, i, j)
<1>1. SInv /\ Next => Best
  <2> SUFFICES ASSUME SInv, Next, pc = "pick" PROVE Best
    OBVIOUS
  <2>1. Pick
    BY DEF Next, Start, Begin, Attach, Post, Receive, Credential, Look, Judge, DoSend, Submitted, SInv, IInv, AnswerOK
  <2>2. document \in [Side -> Seq(XmlServer)]
    BY SendAssumption DEF SInv, Shape
  <2>3. \A s \in Side : UsableAt(document[s], s) = {i \in DOMAIN document[s] : Usable(document[s][i], s)}
    BY DEF UsableAt
  <2>4. CASE pc' = "idle"
    BY <2>1, <2>3, <2>4, PickChooses
  <2>5. CASE pc' # "idle"
    <3>1. ASSUME NEW s \in Side, target[s] = None
          PROVE  \E i \in UsableAt(document[s], s) :
                    /\ target'[s].host = document[s][i].hostname
                    /\ target'[s].port = document[s][i].port
                    /\ \A j \in UsableAt(document[s], s) :
                          ~\/ document[s][j].socket = "SSL" /\ ~document[s][i].socket = "SSL"
                           \/ (document[s][j].socket = "SSL" <=> document[s][i].socket = "SSL") /\ j < i
      <4>1. PICK i : /\ IsBest(document[s], UsableAt(document[s], s), i)
                     /\ target'[s].host = document[s][i].hostname
                     /\ target'[s].port = document[s][i].port
        BY <2>1, <2>5, <3>1, PickChooses
      <4>2. UsableAt(document[s], s) \subseteq Nat
        BY <2>2 DEF UsableAt
      <4>3. /\ i \in UsableAt(document[s], s)
            /\ \A j \in UsableAt(document[s], s) :
                  Tls(document[s][j]) => Tls(document[s][i])
            /\ \A j \in UsableAt(document[s], s) :
                  (Tls(document[s][j]) <=> Tls(document[s][i])) => i <= j
        BY <4>1 DEF IsBest
      <4>4. \A j \in UsableAt(document[s], s) : (j < i => ~(i <= j))
        BY <4>2, <4>3
      <4> QED  BY <4>1, <4>3, <4>4 DEF Tls
    <3> QED  BY <2>3, <2>5, <3>1
  <2> QED  BY <2>4, <2>5
<1>2. SInv /\ [Next]_vars => [Best]_vars
  BY <1>1
<1> QED  BY <1>2, SecondInvariant, PTL DEF Spec, BestServerChosen
=============================================================================
