------------------------------- MODULE KeysProofs -------------------------------
(***************************************************************************)
(* What the encodings of the keys and of the blobs preserve, and the order *)
(* of the texts, for texts of any length.                                  *)
(***************************************************************************)
EXTENDS Keys, SequenceTheorems, FiniteSetTheorems, WellFoundedInduction, TLAPS

(* Where the two parts of a text stand, and what is at each place.         *)
LEMMA Glue ==
    ASSUME NEW s \in Text, NEW t \in Text
    PROVE  LET g == s \o <<Comma>> \o t
           IN  /\ g \in Text
               /\ Len(g) = Len(s) + 1 + Len(t)
               /\ \A i \in 1 .. Len(s) : g[i] = s[i]
               /\ g[Len(s) + 1] = Comma
               /\ \A i \in 1 .. Len(t) : g[Len(s) + 1 + i] = t[i]
               /\ SubSeq(g, 1, Len(s)) = s
               /\ SubSeq(g, Len(s) + 2, Len(g)) = t
<1> DEFINE h == s \o <<Comma>>
           g == h \o t
<1>1. /\ Len(s) \in Nat /\ Len(t) \in Nat
      /\ \A i \in 1 .. Len(s) : s[i] \in Nat
      /\ \A i \in 1 .. Len(t) : t[i] \in Nat
  BY LenProperties, ElementOfSeq DEF Text
<1>2. <<Comma>> \in Seq(Nat) /\ Len(<<Comma>>) = 1 /\ <<Comma>>[1] = Comma
  BY DEF Comma
<1>3. /\ h \in Seq(Nat)
      /\ Len(h) = Len(s) + 1
      /\ \A i \in 1 .. Len(s) : h[i] = s[i]
      /\ h[Len(s) + 1] = Comma
  BY <1>1, <1>2, ConcatProperties DEF Text
<1> HIDE DEF h
<1>4. /\ g \in Seq(Nat)
      /\ Len(g) = Len(s) + 1 + Len(t)
      /\ \A i \in 1 .. Len(s) + 1 : g[i] = h[i]
      /\ \A i \in 1 .. Len(t) : g[Len(s) + 1 + i] = t[i]
  <2>1. \A i \in 1 .. Len(s) + 1 + Len(t) : g[i] =
            IF i <= Len(s) + 1 THEN h[i] ELSE t[i - (Len(s) + 1)]
    BY <1>1, <1>3, ConcatProperties DEF Text
  <2>2. g \in Seq(Nat) /\ Len(g) = Len(s) + 1 + Len(t)
    <3>1. t \in Seq(Nat) /\ h \in Seq(Nat)
      BY <1>3 DEF Text
    <3>2. g \in Seq(Nat) /\ Len(g) = Len(h) + Len(t)
      BY <3>1, ConcatProperties, Zenon
    <3> QED
      BY <1>3, <3>2
  <2>3. ASSUME NEW i \in 1 .. Len(t) PROVE g[Len(s) + 1 + i] = t[i]
    <3>1. Len(s) + 1 + i \in 1 .. Len(s) + 1 + Len(t) /\ ~ (Len(s) + 1 + i <= Len(s) + 1)
          /\ (Len(s) + 1 + i) - (Len(s) + 1) = i
      BY <1>1
    <3> QED
      BY <3>1, <2>1
  <2> QED
    BY <1>1, <2>1, <2>2, <2>3
<1>5. SubSeq(g, 1, Len(s)) = s
  <2>1. \A i \in 1 .. Len(s) : g[i] = s[i] /\ g[i] \in Nat
    BY <1>1, <1>3, <1>4
  <2>2. /\ SubSeq(g, 1, Len(s)) \in Seq(Nat)
        /\ Len(SubSeq(g, 1, Len(s))) = Len(s)
        /\ \A i \in 1 .. Len(s) : SubSeq(g, 1, Len(s))[i] = g[i]
    <3> DEFINE k == Len(s)
    <3> DEFINE m == 1
    <3>1. /\ m \in Int /\ k \in Int /\ k - m + 1 = k /\ (m <= k \/ k = 0)
          /\ \A i \in 1 .. k : m + i - 1 = i
      BY <1>1
    <3>2. \A i \in m .. k : g[i] \in Nat
      BY <2>1
    <3> HIDE DEF k, g, m
    <3>3. /\ SubSeq(g, m, k) \in Seq(Nat)
          /\ Len(SubSeq(g, m, k)) = k
          /\ \A i \in 1 .. k : SubSeq(g, m, k)[i] = g[m + i - 1]
      BY <3>1, <3>2, SubSeqProperties
    <3> QED
      BY <3>1, <3>3 DEF k, m
  <2> QED
    BY <2>1, <2>2, SeqEqual DEF Text
<1>6. SubSeq(g, Len(s) + 2, Len(g)) = t
  <2> DEFINE m == Len(s) + 2
             n == Len(g)
  <2>1. m \in Int /\ n \in Int /\ n - m + 1 = Len(t) /\ (m <= n \/ Len(t) = 0)
    BY <1>1, <1>4
  <2>2. \A i \in m .. n : g[i] \in Nat
    BY <1>1, <1>4, ElementOfSeq
  <2>3. /\ SubSeq(g, m, n) \in Seq(Nat)
        /\ Len(SubSeq(g, m, n)) = Len(t)
        /\ \A i \in 1 .. Len(t) : SubSeq(g, m, n)[i] = g[m + i - 1]
    <3> HIDE DEF m, n, g
    <3> QED
      BY <1>1, <2>1, <2>2, SubSeqProperties
  <2>4. \A i \in 1 .. Len(t) : m + i - 1 = Len(s) + 1 + i
    BY <1>1
  <2> QED
    BY <1>4, <2>3, <2>4, SeqEqual DEF Text
<1>7. /\ \A i \in 1 .. Len(s) : g[i] = s[i]
      /\ g[Len(s) + 1] = Comma
  <2> HIDE DEF g
  <2> QED
    BY <1>1, <1>3, <1>4
<1> HIDE DEF g
<1>8. /\ g \in Text
      /\ Len(g) = Len(s) + 1 + Len(t)
      /\ \A i \in 1 .. Len(s) : g[i] = s[i]
      /\ g[Len(s) + 1] = Comma
      /\ \A i \in 1 .. Len(t) : g[Len(s) + 1 + i] = t[i]
      /\ SubSeq(g, 1, Len(s)) = s
      /\ SubSeq(g, Len(s) + 2, Len(g)) = t
  BY <1>4, <1>5, <1>6, <1>7 DEF Text
<1> QED
  BY <1>8 DEF g, h

(* A key is read back as it was written, if its base has no comma: the     *)
(* first comma is the one that ends the base.                              *)
THEOREM KeyRoundTrip ==
    ASSUME NEW bk \in BaseKey, CommaFree(bk.base)
    PROVE  Decode(Encode(bk)) = bk
<1> DEFINE s == Encode(bk)
           c == Len(bk.base) + 1
<1>1. bk.base \in Text /\ bk.key \in Text /\ bk = BK(bk.base, bk.key)
  BY DEF BaseKey, BK
<1>2. Len(bk.base) \in Nat /\ Len(bk.key) \in Nat
  BY <1>1, LenProperties DEF Text
<1>3. /\ Len(s) = Len(bk.base) + 1 + Len(bk.key)
      /\ \A i \in 1 .. Len(bk.base) : s[i] = bk.base[i]
      /\ s[c] = Comma
      /\ SubSeq(s, 1, Len(bk.base)) = bk.base
      /\ SubSeq(s, Len(bk.base) + 2, Len(s)) = bk.key
  BY <1>1, Glue DEF Encode
<1> HIDE DEF s
<1>4. c \in Commas(s) /\ Commas(s) \subseteq 1 .. Len(s)
  <2>1. Len(s) = Len(bk.base) + 1 + Len(bk.key)
    BY <1>3
  <2>2. c \in 1 .. Len(s)
    <3>1. \A x, y \in Nat : \A z : z = x + 1 + y => x + 1 \in 1 .. z
      OBVIOUS
    <3> QED
      BY <1>2, <2>1, <3>1, Zenon
  <2> QED
    BY <1>3, <2>2 DEF Commas
<1>5. \A i \in Commas(s) : c <= i
  <2>0. c \in Nat /\ \A i \in Commas(s) : i \in Nat
    BY <1>2, <1>4
  <2> SUFFICES ASSUME NEW i \in Commas(s), i < c PROVE FALSE
    BY <2>0
  <2>1. i \in 1 .. Len(bk.base) /\ s[i] = Comma
    BY <1>2, <1>3 DEF Commas
  <2> QED
    BY <2>1, <1>3 DEF CommaFree, Commas
<1>6. (CHOOSE i \in Commas(s) : \A j \in Commas(s) : i <= j) = c
  <2>0. c \in Nat /\ \A i \in Commas(s) : i \in Nat
    BY <1>2, <1>4
  <2>1. \A i \in Commas(s) : (\A j \in Commas(s) : i <= j) => i = c
    <3> HIDE DEF c
    <3> QED
      BY <1>4, <1>5, <2>0
  <2> QED
    BY <1>4, <1>5, <2>1
<1>7. ~ CommaFree(s) /\ c - 1 = Len(bk.base) /\ c + 1 = Len(bk.base) + 2
  BY <1>2, <1>4 DEF CommaFree
<1>8. Decode(s) = BK(SubSeq(s, 1, c - 1), SubSeq(s, c + 1, Len(s)))
  <2> HIDE DEF c
  <2> QED
    BY <1>6, <1>7 DEF Decode
<1> QED
  BY <1>1, <1>3, <1>7, <1>8 DEF s

(* Two keys of bases without a comma never share a place in a store.       *)
THEOREM KeysDoNotCollide ==
    ASSUME NEW x \in BaseKey, NEW y \in BaseKey,
           CommaFree(x.base), CommaFree(y.base), Encode(x) = Encode(y)
    PROVE  x = y
BY KeyRoundTrip

-----------------------------------------------------------------------------
(* The order of the texts.                                                 *)

(* A set of naturals that is not empty has a smallest member.              *)
LEMMA Smallest ==
    ASSUME NEW T, T \subseteq Nat, T # {}
    PROVE  \E x \in T : \A y \in T : x <= y
<1>1. PICK x \in T : \A y \in T : ~ (<<y, x>> \in OpToRel(<, Nat))
  BY WFMin, NatLessThanWellFounded
<1>2. \A y \in T : ~ (y < x)
  BY <1>1 DEF OpToRel
<1> QED
  BY <1>2

(* Induction up to N, over the set of the places where a claim holds.      *)
LEMMA Upward ==
    ASSUME NEW N \in Nat, NEW T, 0 \in T, \A i \in 1 .. N : i - 1 \in T => i \in T
    PROVE  0 .. N \subseteq T
<1> DEFINE B == {n \in 0 .. N : n \notin T}
<1> SUFFICES ASSUME B # {} PROVE FALSE
  OBVIOUS
<1>1. PICK n \in B : \A m \in B : n <= m
  <2>1. B \subseteq Nat
    OBVIOUS
  <2> HIDE DEF B
  <2> QED
    BY <2>1, Smallest
<1>2. n \in 1 .. N /\ n - 1 \in 0 .. N /\ ~ (n <= n - 1)
  OBVIOUS
<1>3. n - 1 \in T
  BY <1>1, <1>2
<1> QED
  BY <1>2, <1>3

(* f has N values after a, each made from the one before by h              *)
Builds(f, N, S, a, h) ==
    f \in [0 .. N -> S] /\ f[0] = a /\ \A i \in 1 .. N : f[i] = h[<<i, f[i - 1]>>]

(* There is such a function.                                               *)
LEMMA Recursion ==
    ASSUME NEW N \in Nat, NEW S, NEW a \in S, NEW h \in [(1 .. N) \X S -> S]
    PROVE  \E f : Builds(f, N, S, a, h)
<1> DEFINE Good(n) == \E f \in [0 .. n -> S] :
                          f[0] = a /\ \A i \in 1 .. n : f[i] = h[<<i, f[i - 1]>>]
           B == {n \in 0 .. N : ~ Good(n)}
<1>1. SUFFICES ASSUME B # {} PROVE FALSE
  <2>1. N \in 0 .. N
    OBVIOUS
  <2>2. N \notin B => Good(N)
    BY <2>1
  <2>3. Good(N) => \E f : Builds(f, N, S, a, h)
    BY DEF Builds
  <2> QED
    BY <2>2, <2>3
<1>2. PICK n \in B : \A m \in B : n <= m
  <2>1. B \subseteq Nat
    OBVIOUS
  <2> HIDE DEF B
  <2> QED
    BY <1>1, <2>1, Smallest
<1>3. n # 0
  <2> DEFINE f == [i \in 0 .. 0 |-> a]
  <2>1. f \in [0 .. 0 -> S] /\ f[0] = a /\ \A i \in 1 .. 0 : f[i] = h[<<i, f[i - 1]>>]
    OBVIOUS
  <2>2. Good(0)
    BY <2>1
  <2> QED
    BY <2>2
<1>4. PICK g \in [0 .. n - 1 -> S] :
          g[0] = a /\ \A i \in 1 .. n - 1 : g[i] = h[<<i, g[i - 1]>>]
  <2>1. n - 1 \in 0 .. N /\ ~ (n <= n - 1) /\ n - 1 \notin B
    BY <1>2, <1>3
  <2>2. Good(n - 1)
    BY <2>1
  <2> QED
    BY <2>2
<1> DEFINE f == [i \in 0 .. n |-> IF i = n THEN h[<<n, g[n - 1]>>] ELSE g[i]]
<1>5. n \in 1 .. N /\ n - 1 \in 0 .. n - 1 /\ g[n - 1] \in S
  BY <1>3, <1>4
<1>6. f \in [0 .. n -> S]
  <2>1. <<n, g[n - 1]>> \in (1 .. N) \X S
    BY <1>5
  <2>2. \A i \in 0 .. n : i = n \/ i \in 0 .. n - 1
    BY <1>5
  <2> QED
    BY <1>4, <2>1, <2>2
<1>7. f[0] = a /\ \A i \in 1 .. n : f[i] = h[<<i, f[i - 1]>>]
  <2>1. \A i \in 1 .. n : i - 1 \in 0 .. n /\ i - 1 # n /\ (i = n \/ i \in 1 .. n - 1)
    BY <1>5
  <2>2. f[0] = a
    BY <1>4, <1>5
  <2>3. ASSUME NEW i \in 1 .. n PROVE f[i] = h[<<i, f[i - 1]>>]
    <3>1. i \in 0 .. n /\ i - 1 \in 0 .. n /\ i - 1 # n /\ f[i - 1] = g[i - 1]
      BY <1>5, <2>1
    <3>2. CASE i = n
      BY <3>1, <3>2
    <3>3. CASE i \in 1 .. n - 1
      BY <1>4, <1>5, <3>1, <3>3
    <3> QED
      BY <2>1, <3>2, <3>3
  <2> QED
    BY <2>2, <2>3
<1> HIDE DEF f
<1>8. Good(n)
  BY <1>6, <1>7
<1> QED
  BY <1>2, <1>8

-----------------------------------------------------------------------------
(* Finite sets in order.  An order is a set of pairs, as the provers do    *)
(* not take an operator for a parameter.                                   *)

Orders(R, S) ==
    /\ \A x, y \in S : x = y \/ <<x, y>> \in R \/ <<y, x>> \in R
    /\ \A x, y \in S : ~ (<<x, y>> \in R /\ <<y, x>> \in R)
    /\ \A x, y, z \in S : <<x, y>> \in R /\ <<y, z>> \in R => <<x, z>> \in R

(* How many members of S come before k                                     *)
Rank(R, S, k) == Cardinality({j \in S : <<j, k>> \in R})

(* The ranks follow the order.                                             *)
LEMMA RanksAreOrdered ==
    ASSUME NEW S, IsFiniteSet(S), NEW R, Orders(R, S)
    PROVE  /\ \A k \in S : Rank(R, S, k) \in 0 .. Cardinality(S) - 1
           /\ \A x, y \in S : <<x, y>> \in R <=> Rank(R, S, x) < Rank(R, S, y)
           /\ \A x, y \in S : Rank(R, S, x) = Rank(R, S, y) => x = y
<1> DEFINE Under(k) == {j \in S : <<j, k>> \in R}
<1>1. Cardinality(S) \in Nat
  BY FS_CardinalityType
<1>2. ASSUME NEW k \in S
      PROVE  /\ IsFiniteSet(Under(k)) /\ Cardinality(Under(k)) \in Nat
             /\ Cardinality(Under(k)) < Cardinality(S)
  <2>1. Under(k) \subseteq S /\ k \notin Under(k)
    BY DEF Orders
  <2> HIDE DEF Under
  <2>2. /\ IsFiniteSet(Under(k)) /\ Cardinality(Under(k)) <= Cardinality(S)
        /\ Cardinality(Under(k)) # Cardinality(S)
    BY <2>1, FS_Subset
  <2>3. Cardinality(Under(k)) \in Nat
    BY <2>2, FS_CardinalityType
  <2> QED
    BY <1>1, <2>2, <2>3
<1>3. ASSUME NEW x \in S, NEW y \in S, <<x, y>> \in R
      PROVE  Cardinality(Under(x)) < Cardinality(Under(y))
  <2>1. Under(x) \subseteq Under(y) /\ x \in Under(y) /\ x \notin Under(x)
    BY <1>3 DEF Orders
  <2> HIDE DEF Under
  <2>2. /\ Cardinality(Under(x)) <= Cardinality(Under(y))
        /\ Cardinality(Under(x)) # Cardinality(Under(y))
    BY <1>2, <2>1, FS_Subset
  <2> QED
    BY <1>2, <2>2
<1>4. \A k \in S : Rank(R, S, k) = Cardinality(Under(k))
  BY DEF Rank
<1> HIDE DEF Under
<1>5. \A k \in S : Cardinality(Under(k)) \in 0 .. Cardinality(S) - 1
  BY <1>1, <1>2
<1>6. ASSUME NEW x \in S, NEW y \in S
      PROVE  /\ <<x, y>> \in R <=> Cardinality(Under(x)) < Cardinality(Under(y))
             /\ Cardinality(Under(x)) = Cardinality(Under(y)) => x = y
  <2>1. Cardinality(Under(x)) \in Nat /\ Cardinality(Under(y)) \in Nat
    BY <1>2
  <2>2. x = y \/ <<x, y>> \in R \/ <<y, x>> \in R
    BY DEF Orders
  <2>3. CASE x = y
    <3>1. ~ (<<x, y>> \in R)
      BY <2>3 DEF Orders
    <3> QED
      BY <2>1, <2>3, <3>1
  <2>4. CASE <<x, y>> \in R
    BY <1>3, <2>1, <2>4
  <2>5. CASE <<y, x>> \in R
    <3>1. ~ (<<x, y>> \in R)
      BY <2>5 DEF Orders
    <3>2. Cardinality(Under(y)) < Cardinality(Under(x))
      BY <1>3, <2>5
    <3> QED
      BY <2>1, <3>1, <3>2
  <2> QED
    BY <2>2, <2>3, <2>4, <2>5
<1> QED
  BY <1>4, <1>5, <1>6

(* Every rank is taken: as many ranks as members, and none twice.          *)
LEMMA EveryRankIsTaken ==
    ASSUME NEW S, IsFiniteSet(S), NEW R, Orders(R, S), NEW i \in 0 .. Cardinality(S) - 1
    PROVE  \E k \in S : Rank(R, S, k) = i
<1> DEFINE T == 0 .. Cardinality(S) - 1
           f == [k \in S |-> Rank(R, S, k)]
<1>1. Cardinality(S) \in Nat
  BY FS_CardinalityType
<1>2. IsFiniteSet(T) /\ Cardinality(T) = Cardinality(S)
  <2>1. 0 \in Int /\ Cardinality(S) - 1 \in Int
    BY <1>1
  <2>2. IsFiniteSet(T) /\ Cardinality(T) = IF 0 > Cardinality(S) - 1 THEN 0
                                           ELSE (Cardinality(S) - 1) - 0 + 1
    BY <2>1, FS_Interval
  <2> HIDE DEF T
  <2> QED
    BY <1>1, <2>2
<1>3. f \in Injection(S, T)
  <2>1. f \in [S -> T]
    BY RanksAreOrdered
  <2>2. \A x, y \in S : f[x] = f[y] => x = y
    BY RanksAreOrdered
  <2> HIDE DEF f, T
  <2> QED
    BY <2>1, <2>2 DEF Injection, IsInjective
<1>4. f \in Surjection(S, T)
  <2> HIDE DEF f, T
  <2> QED
    BY <1>2, <1>3, FS_Injection
<1>5. \E k \in S : f[k] = i
  <2>1. i \in T
    OBVIOUS
  <2> HIDE DEF f, T
  <2> QED
    BY <1>4, <2>1 DEF Surjection
<1> QED
  BY <1>5

(* The first n of q are members of S in order, and none is left out before *)
(* one of them                                                             *)
Begins(R, S, q, n) ==
    /\ n \in Nat
    /\ \A i \in 1 .. n : q[i] \in S
    /\ \A i, j \in 1 .. n : i < j => <<q[i], q[j]>> \in R
    /\ \A i \in 1 .. n : \A k \in S : <<k, q[i]>> \in R => \E m \in 1 .. n : k = q[m]

(* Such a sequence has at each place the member of that rank.              *)
LEMMA RankIsPlace ==
    ASSUME NEW S, IsFiniteSet(S), NEW R, Orders(R, S), NEW n, NEW q, Begins(R, S, q, n)
    PROVE  \A i \in 1 .. n : Rank(R, S, q[i]) = i - 1
<1>0. /\ n \in Nat
      /\ \A i \in 1 .. n : q[i] \in S
      /\ \A i, j \in 1 .. n : i < j => <<q[i], q[j]>> \in R
      /\ \A i \in 1 .. n : \A k \in S : <<k, q[i]>> \in R => \E m \in 1 .. n : k = q[m]
  BY DEF Begins
<1> USE <1>0
<1> SUFFICES ASSUME NEW i \in 1 .. n PROVE Rank(R, S, q[i]) = i - 1
  OBVIOUS
<1> DEFINE D == 1 .. i - 1
           U == {k \in S : <<k, q[i]>> \in R}
           f == [m \in D |-> q[m]]
<1>1. IsFiniteSet(D) /\ Cardinality(D) = i - 1
  <2>1. 1 \in Int /\ i - 1 \in Int /\ i >= 1
    OBVIOUS
  <2>2. IsFiniteSet(D) /\ Cardinality(D) = IF 1 > i - 1 THEN 0 ELSE (i - 1) - 1 + 1
    BY <2>1, FS_Interval
  <2> HIDE DEF D
  <2> QED
    BY <2>1, <2>2
<1>2. \A m \in D : m \in 1 .. n /\ q[m] \in U
  OBVIOUS
<1>3. \A k \in U : \E m \in D : q[m] = k
  <2> SUFFICES ASSUME NEW k \in U PROVE \E m \in D : q[m] = k
    OBVIOUS
  <2>1. PICK m \in 1 .. n : k = q[m]
    OBVIOUS
  <2>2. m < i
    <3>1. ~ (<<q[i], q[m]>> \in R) /\ q[i] # q[m]
      BY <2>1 DEF Orders
    <3> QED
      BY <3>1
  <2> QED
    BY <2>1, <2>2
<1>4. \A x, y \in D : q[x] = q[y] => x = y
  <2>1. \A x, y \in 1 .. n : x < y => q[x] # q[y]
    BY DEF Orders
  <2> QED
    BY <2>1
<1>5. f \in Surjection(D, U) /\ f \in Injection(D, U)
  <2> HIDE DEF D, U
  <2> QED
    BY <1>2, <1>3, <1>4 DEF Surjection, Injection, IsInjective
<1>6. Cardinality(U) = Cardinality(D)
  <2> HIDE DEF D, U, f
  <2> QED
    BY <1>1, <1>5, FS_Surjection
<1> QED
  BY <1>1, <1>6 DEF Rank

(* The members of S by their ranks                                         *)
ByRank(R, S) == [i \in 1 .. Cardinality(S) |-> CHOOSE k \in S : Rank(R, S, k) = i - 1]

(* q has the n members of S, in order                                      *)
Lists(R, S, q, n) ==
    /\ n \in Nat /\ n = Cardinality(S) /\ q \in Seq(S) /\ Len(q) = n
    /\ \A i \in 1 .. n : q[i] \in S /\ Rank(R, S, q[i]) = i - 1
    /\ \A i \in 1 .. n : \A k \in S : Rank(R, S, k) = i - 1 => q[i] = k
    /\ \A k \in S : \E i \in 1 .. n : q[i] = k
    /\ \A i, j \in 1 .. n : i < j <=> <<q[i], q[j]>> \in R

(* The members by their ranks are all of them, in order.                   *)
LEMMA SequenceByRank ==
    ASSUME NEW S, IsFiniteSet(S), NEW R, Orders(R, S), NEW q, q = ByRank(R, S)
    PROVE  Lists(R, S, q, Cardinality(S))
<1> DEFINE n == Cardinality(S)
<1>1. n \in Nat
  BY FS_CardinalityType
<1>2. ASSUME NEW i \in 1 .. n PROVE q[i] \in S /\ Rank(R, S, q[i]) = i - 1
  <2>1. i - 1 \in 0 .. n - 1 /\ q[i] = CHOOSE k \in S : Rank(R, S, k) = i - 1
    BY <1>1 DEF ByRank
  <2>2. \E k \in S : Rank(R, S, k) = i - 1
    <3> HIDE DEF n
    <3> QED
      BY <2>1, EveryRankIsTaken DEF n
  <2> QED
    BY <2>1, <2>2
<1>3. /\ \A k \in S : Rank(R, S, k) \in 0 .. n - 1
      /\ \A x, y \in S : <<x, y>> \in R <=> Rank(R, S, x) < Rank(R, S, y)
      /\ \A x, y \in S : Rank(R, S, x) = Rank(R, S, y) => x = y
  BY RanksAreOrdered
<1>4. q \in Seq(S) /\ Len(q) = n
  <2>1. q \in [1 .. n -> S]
    BY <1>2 DEF ByRank
  <2>2. q \in Seq(S)
    BY <1>1, <2>1, SeqDef
  <2> QED
    BY <1>1, <2>1, <2>2, LenProperties
<1> HIDE DEF n
<1>5. ASSUME NEW k \in S PROVE \E i \in 1 .. n : q[i] = k
  <2>1. Rank(R, S, k) + 1 \in 1 .. n /\ (Rank(R, S, k) + 1) - 1 = Rank(R, S, k)
    BY <1>1, <1>3
  <2> QED
    BY <1>2, <1>3, <2>1
<1>6. ASSUME NEW i \in 1 .. n, NEW j \in 1 .. n PROVE i < j <=> <<q[i], q[j]>> \in R
  <2>1. i < j <=> i - 1 < j - 1
    BY <1>1
  <2> QED
    BY <1>2, <1>3, <2>1
<1>7. \A i \in 1 .. n : \A k \in S : Rank(R, S, k) = i - 1 => q[i] = k
  BY <1>2, <1>3
<1>8. Lists(R, S, q, n) <=> n = Cardinality(S)
  BY <1>1, <1>2, <1>4, <1>5, <1>6, <1>7 DEF Lists
<1> QED
  BY <1>8 DEF n

-----------------------------------------------------------------------------
(* Less.                                                                   *)

(* Of two different texts one is before the other, and not both: where a   *)
(* seek ends does not depend on the order of the writes.                   *)
THEOREM TextsAreOrdered ==
    ASSUME NEW s \in Text, NEW t \in Text
    PROVE  /\ s # t => Less(s, t) \/ Less(t, s)
           /\ ~ (Less(s, t) /\ Less(t, s))
<1> DEFINE upto == IF Len(s) < Len(t) THEN Len(s) ELSE Len(t)
           D == {n \in 0 .. upto : n = upto \/ s[n + 1] # t[n + 1]}
<1>1. /\ Len(s) \in Nat /\ Len(t) \in Nat /\ upto \in Nat
      /\ upto <= Len(s) /\ upto <= Len(t) /\ (upto = Len(s) \/ upto = Len(t))
      /\ \A i \in 1 .. Len(s) : s[i] \in Nat
      /\ \A i \in 1 .. Len(t) : t[i] \in Nat
  BY LenProperties, ElementOfSeq DEF Text
<1>2. PICK d \in D : \A e \in D : d <= e
  <2>1. D \subseteq Nat /\ upto \in D
    BY <1>1
  <2> HIDE DEF D
  <2> QED
    BY <2>1, Smallest
<1>3. \A i \in 1 .. d : s[i] = t[i]
  <2> SUFFICES ASSUME NEW i \in 1 .. d, s[i] # t[i] PROVE FALSE
    OBVIOUS
  <2>1. i - 1 \in 0 .. upto /\ (i - 1) + 1 = i
    BY <1>1
  <2>2. i - 1 \in D
    BY <2>1
  <2>3. d \in Nat
    BY <1>1
  <2>4. d <= i - 1
    <3> HIDE DEF D
    <3> QED
      BY <1>2, <2>2
  <2> QED
    BY <2>3, <2>4
<1>4. ASSUME s # t PROVE Less(s, t) \/ Less(t, s)
  <2>1. CASE d < upto
    <3>1. s[d + 1] # t[d + 1] /\ s[d + 1] \in Nat /\ t[d + 1] \in Nat
      BY <1>1, <2>1
    <3>2. s[d + 1] < t[d + 1] \/ t[d + 1] < s[d + 1]
      BY <3>1
    <3> QED
      BY <1>1, <1>3, <2>1, <3>2 DEF Less
  <2>2. CASE d = upto
    <3>1. Len(s) # Len(t)
      BY <1>1, <1>3, <1>4, <2>2, SeqEqual DEF Text
    <3> QED
      BY <1>1, <1>3, <2>2, <3>1 DEF Less
  <2> QED
    BY <1>1, <2>1, <2>2
<1>5. ASSUME Less(s, t), Less(t, s) PROVE FALSE
  <2>1. PICK m \in 0 .. Len(s) :
            m < Len(t) /\ (\A i \in 1 .. m : s[i] = t[i]) /\ (m = Len(s) \/ s[m + 1] < t[m + 1])
    BY <1>5 DEF Less
  <2>2. PICK n \in 0 .. Len(t) :
            n < Len(s) /\ (\A i \in 1 .. n : t[i] = s[i]) /\ (n = Len(t) \/ t[n + 1] < s[n + 1])
    BY <1>5 DEF Less
  <2>3. m < Len(s) /\ n < Len(t)
    <3>1. m = Len(s) => n + 1 \in 1 .. m
      BY <1>1, <2>1, <2>2
    <3>2. n = Len(t) => m + 1 \in 1 .. n
      BY <1>1, <2>1, <2>2
    <3> QED
      BY <1>1, <2>1, <2>2, <3>1, <3>2
  <2>4. /\ m + 1 \in 1 .. Len(s) /\ m + 1 \in 1 .. Len(t)
        /\ n + 1 \in 1 .. Len(s) /\ n + 1 \in 1 .. Len(t)
        /\ s[m + 1] < t[m + 1] /\ t[n + 1] < s[n + 1]
    BY <1>1, <2>1, <2>2, <2>3
  <2>5. m < n \/ n < m \/ m = n
    BY <1>1
  <2> QED
    BY <1>1, <2>1, <2>2, <2>4, <2>5
<1> QED
  BY <1>4, <1>5

(* Less is transitive.                                                     *)
LEMMA LessIsTransitive ==
    ASSUME NEW s \in Text, NEW t \in Text, NEW u \in Text, Less(s, t), Less(t, u)
    PROVE  Less(s, u)
<1>1. /\ Len(s) \in Nat /\ Len(t) \in Nat /\ Len(u) \in Nat
      /\ \A i \in 1 .. Len(s) : s[i] \in Nat
      /\ \A i \in 1 .. Len(t) : t[i] \in Nat
      /\ \A i \in 1 .. Len(u) : u[i] \in Nat
  BY LenProperties, ElementOfSeq DEF Text
<1>2. PICK m \in 0 .. Len(s) :
          m < Len(t) /\ (\A i \in 1 .. m : s[i] = t[i]) /\ (m = Len(s) \/ s[m + 1] < t[m + 1])
  BY DEF Less
<1>3. PICK n \in 0 .. Len(t) :
          n < Len(u) /\ (\A i \in 1 .. n : t[i] = u[i]) /\ (n = Len(t) \/ t[n + 1] < u[n + 1])
  BY DEF Less
<1>4. CASE m <= n
  <2>1. m < Len(u) /\ \A i \in 1 .. m : s[i] = u[i]
    BY <1>1, <1>2, <1>3, <1>4
  <2>2. ASSUME m # Len(s) PROVE s[m + 1] < u[m + 1]
    <3>1. s[m + 1] < t[m + 1] /\ s[m + 1] \in Nat /\ t[m + 1] \in Nat /\ u[m + 1] \in Nat
      BY <1>1, <1>2, <2>1, <2>2
    <3>2. CASE m = n
      <4>1. n # Len(t)
        BY <1>2, <3>2, <1>1
      <4> QED
        BY <1>3, <3>1, <3>2, <4>1
    <3>3. CASE m < n
      <4>1. m + 1 \in 1 .. n
        BY <3>3, <1>1
      <4> QED
        BY <1>3, <3>1, <4>1
    <3> QED
      BY <1>4, <3>2, <3>3, <1>1
  <2> QED
    BY <2>1, <2>2, <1>2 DEF Less
<1>5. CASE n < m
  <2>1. n \in 0 .. Len(s) /\ n # Len(t) /\ n + 1 \in 1 .. m /\ n < Len(u)
    BY <1>1, <1>2, <1>3, <1>5
  <2>2. \A i \in 1 .. n : s[i] = u[i]
    BY <1>1, <1>2, <1>3, <1>5
  <2>3. s[n + 1] < u[n + 1]
    BY <1>2, <1>3, <2>1
  <2> QED
    BY <2>1, <2>2, <2>3 DEF Less
<1> QED
  BY <1>1, <1>4, <1>5

(* Where the first difference of two texts is tells which is first.        *)
LEMMA LessAtDifference ==
    ASSUME NEW s \in Text, NEW t \in Text, NEW d \in 1 .. Len(s), d <= Len(t),
           s[d] # t[d], \A i \in 1 .. d - 1 : s[i] = t[i]
    PROVE  Less(s, t) <=> s[d] < t[d]
<1>1. /\ Len(s) \in Nat /\ Len(t) \in Nat /\ d \in Nat /\ d >= 1 /\ d <= Len(s)
      /\ \A i \in 1 .. Len(s) : s[i] \in Nat
      /\ \A i \in 1 .. Len(t) : t[i] \in Nat
  BY LenProperties, ElementOfSeq DEF Text
<1>2. ASSUME s[d] < t[d] PROVE Less(s, t)
  <2>1. d - 1 \in 0 .. Len(s) /\ d - 1 < Len(t) /\ (d - 1) + 1 = d
    BY <1>1
  <2> QED
    BY <1>2, <2>1 DEF Less
<1>3. ASSUME Less(s, t) PROVE s[d] < t[d]
  <2>1. PICK n \in 0 .. Len(s) :
            n < Len(t) /\ (\A i \in 1 .. n : s[i] = t[i]) /\ (n = Len(s) \/ s[n + 1] < t[n + 1])
    BY <1>3 DEF Less
  <2>2. n < d
    BY <1>1, <2>1
  <2>3. n # Len(s) /\ s[n + 1] < t[n + 1] /\ n + 1 \in 1 .. d
    BY <1>1, <2>1, <2>2
  <2>4. s[n + 1] # t[n + 1]
    <3>1. n + 1 \in 1 .. Len(s) /\ n + 1 \in 1 .. Len(t)
      BY <1>1, <2>3
    <3>2. s[n + 1] \in Nat /\ t[n + 1] \in Nat
      BY <1>1, <3>1
    <3> QED
      BY <2>3, <3>2
  <2>5. n + 1 = d
    BY <1>1, <2>3, <2>4
  <2> QED
    BY <2>3, <2>5
<1> QED
  BY <1>2, <1>3

-----------------------------------------------------------------------------
(* The identifiers.                                                        *)

(* A key is written as a text.                                             *)
LEMMA EncodeIsText == ASSUME NEW bk \in BaseKey PROVE Encode(bk) \in Text
BY Glue DEF Encode, BaseKey

(* An encoded key holds a comma.                                           *)
LEMMA EncodeHasComma ==
    ASSUME NEW x \in Text, NEW t \in Text
    PROVE  Encode(BK(x, t)) \in Text /\ ~ CommaFree(Encode(BK(x, t)))
<1> DEFINE s == Encode(BK(x, t))
<1>1. Len(x) \in Nat /\ Len(t) \in Nat
  BY LenProperties DEF Text
<1>2. s \in Text /\ Len(s) = Len(x) + 1 + Len(t) /\ s[Len(x) + 1] = Comma
  BY Glue DEF Encode, BK
<1> HIDE DEF s
<1>3. Len(x) + 1 \in 1 .. Len(s)
  <2>1. \A a, b \in Nat : \A z : z = a + 1 + b => a + 1 \in 1 .. z
    OBVIOUS
  <2> QED
    BY <1>1, <1>2, <2>1, Zenon
<1>4. ~ CommaFree(s)
  BY <1>2, <1>3 DEF CommaFree, Commas
<1> QED
  BY <1>2, <1>4 DEF s

(* A base with a comma gives its end to the key.                           *)
LEMMA FirstCommaCuts ==
    ASSUME NEW x \in Text, NEW t \in Text, ~ CommaFree(x)
    PROVE  \E y \in Text : After1(Encode(BK(x, t))) = Encode(BK(y, t))
<1> DEFINE s == Encode(BK(x, t))
<1>1. /\ Len(x) \in Nat /\ Len(t) \in Nat
      /\ \A i \in 1 .. Len(x) : x[i] \in Nat
      /\ \A i \in 1 .. Len(t) : t[i] \in Nat
  BY LenProperties, ElementOfSeq DEF Text
<1>2. /\ s \in Text /\ Len(s) = Len(x) + 1 + Len(t)
      /\ \A i \in 1 .. Len(x) : s[i] = x[i]
      /\ s[Len(x) + 1] = Comma
      /\ \A i \in 1 .. Len(t) : s[Len(x) + 1 + i] = t[i]
  BY Glue DEF Encode, BK
<1> HIDE DEF s
<1>3. PICK c \in Commas(x) : \A j \in Commas(x) : c <= j
  <2>1. Commas(x) \subseteq Nat /\ Commas(x) # {}
    BY <1>1 DEF CommaFree, Commas
  <2> QED
    BY <2>1, Smallest
<1>4. c \in 1 .. Len(x) /\ c \in Commas(s)
  BY <1>1, <1>2 DEF Commas
<1>5. \A j \in Commas(s) : c <= j
  BY <1>1, <1>2, <1>3, <1>4 DEF Commas
<1>6. (CHOOSE i \in Commas(s) : \A j \in Commas(s) : i <= j) = c
  <2>1. \A i \in Commas(s) : i \in Nat
    BY <1>1, <1>2 DEF Commas
  <2>2. \A i \in Commas(s) : (\A j \in Commas(s) : i <= j) => i = c
    BY <1>4, <1>5, <2>1
  <2> QED
    BY <1>4, <1>5, <2>2
<1>7. After1(s) = SubSeq(s, c + 1, Len(s))
  BY <1>4, <1>6 DEF Decode, After1, BK, CommaFree
<1> DEFINE m == c + 1
           y == SubSeq(x, m, Len(x))
           k == Len(x)
           n == Len(s)
<1>8. /\ y \in Text /\ Len(y) = Len(x) - c
      /\ \A i \in 1 .. Len(x) - c : y[i] = x[c + i]
  <2>1. /\ m \in Int /\ k \in Int /\ k - m + 1 = Len(x) - c /\ (m <= k \/ Len(x) - c = 0)
        /\ \A i \in 1 .. Len(x) - c : m + i - 1 = c + i
    BY <1>1, <1>4
  <2>2. \A i \in m .. k : x[i] \in Nat
    BY <1>1, <1>4
  <2>3. Len(x) - c \in Nat
    BY <1>1, <1>4
  <2> HIDE DEF m, k
  <2>4. /\ SubSeq(x, m, k) \in Seq(Nat)
        /\ Len(SubSeq(x, m, k)) = IF m <= k THEN k - m + 1 ELSE 0
        /\ \A i \in 1 .. k - m + 1 : SubSeq(x, m, k)[i] = x[m + i - 1]
    BY <2>1, <2>2, SubSeqProperties
  <2> QED
    BY <2>1, <2>3, <2>4 DEF Text, k
<1>9. /\ After1(s) \in Text /\ Len(After1(s)) = Len(x) - c + 1 + Len(t)
      /\ \A i \in 1 .. Len(x) - c + 1 + Len(t) : After1(s)[i] = s[c + i]
  <2>1. /\ m \in Int /\ n \in Int /\ n - m + 1 = Len(x) - c + 1 + Len(t) /\ m <= n
        /\ \A i \in 1 .. Len(x) - c + 1 + Len(t) : m + i - 1 = c + i
    BY <1>1, <1>2, <1>4
  <2>2. \A i \in m .. n : s[i] \in Nat
    BY <1>1, <1>2, <1>4, ElementOfSeq DEF Text
  <2> HIDE DEF m, n
  <2>3. /\ SubSeq(s, m, n) \in Seq(Nat)
        /\ Len(SubSeq(s, m, n)) = IF m <= n THEN n - m + 1 ELSE 0
        /\ \A i \in 1 .. n - m + 1 : SubSeq(s, m, n)[i] = s[m + i - 1]
    BY <2>1, <2>2, SubSeqProperties
  <2> QED
    BY <1>7, <2>1, <2>3 DEF Text, n, m
<1> DEFINE u == Encode(BK(y, t))
<1> HIDE DEF y
<1>10. /\ u \in Text /\ Len(u) = Len(y) + 1 + Len(t)
       /\ \A i \in 1 .. Len(y) : u[i] = y[i]
       /\ u[Len(y) + 1] = Comma
       /\ \A i \in 1 .. Len(t) : u[Len(y) + 1 + i] = t[i]
  <2>1. y \in Text
    BY <1>8
  <2>2. u = y \o <<Comma>> \o t
    BY DEF Encode, BK
  <2> HIDE DEF u
  <2> QED
    BY <2>1, <2>2, Glue
<1> HIDE DEF u
<1>11. ASSUME NEW i \in 1 .. Len(x) - c + 1 + Len(t) PROVE u[i] = s[c + i]
  <2>0. c \in Nat /\ i \in Nat /\ i >= 1 /\ Len(x) - c + 1 \in Nat
    BY <1>1, <1>4
  <2>1. CASE i <= Len(x) - c
    <3>1. c + i \in 1 .. Len(x) /\ i \in 1 .. Len(y)
      BY <1>1, <1>8, <2>0, <2>1
    <3> QED
      BY <1>2, <1>8, <1>10, <2>0, <2>1, <3>1
  <2>2. CASE i = Len(x) - c + 1
    <3>1. c + i = Len(x) + 1 /\ i = Len(y) + 1
      BY <1>1, <1>4, <1>8, <2>2
    <3> QED
      BY <1>2, <1>10, <3>1
  <2>3. CASE i > Len(x) - c + 1
    <3>1. PICK j \in 1 .. Len(t) : i = Len(y) + 1 + j
      <4> DEFINE j == i - (Len(x) - c + 1)
      <4>1. j \in 1 .. Len(t) /\ i = Len(x) - c + 1 + j
        BY <1>1, <1>4, <2>3
      <4> HIDE DEF j
      <4> QED
        BY <1>1, <1>4, <1>8, <4>1
    <3>2. c + i = Len(x) + 1 + j
      BY <1>1, <1>4, <1>8, <3>1
    <3> QED
      BY <1>2, <1>10, <3>1, <3>2
  <2>4. i <= Len(x) - c \/ i = Len(x) - c + 1 \/ i > Len(x) - c + 1
    BY <1>1, <2>0
  <2> QED
    BY <2>1, <2>2, <2>3, <2>4
<1>12. After1(s) = u
  <2>1. Len(u) = Len(After1(s))
    BY <1>1, <1>4, <1>8, <1>9, <1>10
  <2>2. \A i \in 1 .. Len(u) : u[i] = After1(s)[i]
    BY <1>9, <1>11, <2>1
  <2> QED
    BY <1>9, <1>10, <2>1, <2>2, SeqEqual DEF Text
<1> QED
  BY <1>8, <1>12 DEF s, u

(* What follows the first comma of an encoded key holds its key.           *)
LEMMA RestOfKey ==
    ASSUME NEW x \in Text, NEW t \in Text
    PROVE  \/ /\ CommaFree(x)
              /\ Decode(Encode(BK(x, t))) = BK(x, t) /\ After1(Encode(BK(x, t))) = t
           \/ \E y \in Text : ~ CommaFree(x) /\ After1(Encode(BK(x, t))) = Encode(BK(y, t))
<1>1. BK(x, t) \in BaseKey /\ BK(x, t).base = x /\ BK(x, t).key = t
  BY DEF BaseKey, BK
<1> QED
  BY <1>1, KeyRoundTrip, FirstCommaCuts DEF After1

(* A URL carries a name without '%', '?' and '#' as it is.                 *)
LEMMA PlainIsCarried == \A s : Plain(s) => UrlPath(s) = s
BY DEF Plain, UrlPath, RawPath, UpTo, Unescape

(* What the store decodes of the name of a blob is what the client         *)
(* encoded, whenever the store accepts it: the commas that a bucket, a     *)
(* content or a part hold leave one too many in the position.              *)
THEOREM BlobNamesRoundTrip ==
    ASSUME NEW id \in BlobId, IsBlobId(EncodeBlobId(id))
    PROVE  DecodeBlobId(EncodeBlobId(id)) = id
<1> DEFINE s3 == <<id.position>>
           s2 == Encode(BK(id.part, s3))
           s1 == Encode(BK(id.content, s2))
           s  == EncodeBlobId(id)
<1>1. id.bucket \in Text /\ id.content \in Text /\ id.part \in Text /\ s3 \in Text
  BY DEF BlobId, Text, Small, Large
<1>2. s2 \in Text /\ s1 \in Text /\ s \in Text
  BY <1>1, EncodeHasComma DEF EncodeBlobId
<1>3. ~ CommaFree(s2) /\ ~ CommaFree(s1) /\ ~ CommaFree(s)
  BY <1>1, <1>2, EncodeHasComma DEF EncodeBlobId
<1>4. CommaFree(After3(s)) \/ CommaFree(After1(s)) \/ CommaFree(After2(s))
  <2>1. CommaFree(<<Small>>)
    BY DEF CommaFree, Commas, Small, Comma
  <2> QED
    BY <1>3, <2>1 DEF IsBlobId, Position
<1>b. s = Encode(BK(id.bucket, s1))
  BY DEF EncodeBlobId
<1> HIDE DEF s, s1, s2, s3
<1>5. CommaFree(id.bucket) /\ Decode(s) = BK(id.bucket, s1) /\ After1(s) = s1
  <2> SUFFICES ASSUME NEW y \in Text, After1(s) = Encode(BK(y, s1)) PROVE FALSE
    BY <1>1, <1>2, <1>b, RestOfKey
  <2>1. ~ CommaFree(After1(s))
    BY <1>2, EncodeHasComma
  <2>2. After2(s) = s1 \/ \E z \in Text : After2(s) = Encode(BK(z, s1))
    BY <1>2, RestOfKey DEF After2, After1
  <2>3. ~ CommaFree(After2(s))
    BY <1>2, <1>3, <2>2, EncodeHasComma
  <2>4. ~ CommaFree(After3(s))
    <3>1. CASE After2(s) = s1
      <4>1. After3(s) = s2 \/ \E z \in Text : After3(s) = Encode(BK(z, s2))
        BY <1>1, <1>2, <3>1, RestOfKey DEF After3, After1, s1
      <4> QED
        BY <1>2, <1>3, <4>1, EncodeHasComma
    <3>2. ASSUME NEW z \in Text, After2(s) = Encode(BK(z, s1)) PROVE ~ CommaFree(After3(s))
      <4>1. After3(s) = s1 \/ \E w \in Text : After3(s) = Encode(BK(w, s1))
        BY <1>2, <3>2, RestOfKey DEF After3, After1
      <4> QED
        BY <1>2, <1>3, <4>1, EncodeHasComma
    <3> QED
      BY <2>2, <3>1, <3>2
  <2> QED
    BY <1>4, <2>1, <2>3, <2>4
<1>6. CommaFree(id.content) /\ Decode(s1) = BK(id.content, s2) /\ After2(s) = s2
  <2>1. After2(s) = After1(s1)
    BY <1>5 DEF After2, After1
  <2> SUFFICES ASSUME NEW y \in Text, After2(s) = Encode(BK(y, s2)) PROVE FALSE
    BY <1>1, <1>2, <2>1, RestOfKey DEF s1
  <2>2. ~ CommaFree(After2(s))
    BY <1>2, EncodeHasComma
  <2>3. After3(s) = s2 \/ \E z \in Text : After3(s) = Encode(BK(z, s2))
    BY <1>2, RestOfKey DEF After3, After1
  <2> QED
    BY <1>2, <1>3, <1>4, <1>5, <2>2, <2>3, EncodeHasComma
<1>7. CommaFree(id.part) /\ Decode(s2) = BK(id.part, s3) /\ After3(s) = s3
  <2>1. After3(s) = After1(s2)
    BY <1>6 DEF After3, After1
  <2> SUFFICES ASSUME NEW y \in Text, After3(s) = Encode(BK(y, s3)) PROVE FALSE
    BY <1>1, <1>2, <2>1, RestOfKey DEF s2
  <2> QED
    BY <1>1, <1>3, <1>4, <1>5, <1>6, EncodeHasComma
<1>8. DecodeBlobId(s) = [bucket |-> id.bucket, content |-> id.content, part |-> id.part,
                         position |-> id.position]
  BY <1>3, <1>5, <1>6, <1>7 DEF DecodeBlobId, Position, BK, s3
<1> QED
  BY <1>8 DEF BlobId, s

(* What is decoded is made of texts.                                       *)
LEMMA DecodeGivesTexts ==
    ASSUME NEW s \in Text PROVE Decode(s).base \in Text /\ Decode(s).key \in Text
<1>1. Len(s) \in Nat /\ \A i \in 1 .. Len(s) : s[i] \in Nat
  BY LenProperties, ElementOfSeq DEF Text
<1>2. CASE CommaFree(s)
  <2>1. <<>> \in Text
    BY DEF Text
  <2> QED
    BY <1>2, <2>1 DEF Decode, BK
<1>3. CASE ~ CommaFree(s)
  <2> DEFINE c == CHOOSE i \in Commas(s) : \A j \in Commas(s) : i <= j
  <2>1. Commas(s) \subseteq Nat /\ Commas(s) # {}
    BY <1>1, <1>3 DEF CommaFree, Commas
  <2>2. c \in Commas(s)
    BY <2>1, Smallest
  <2>3. c \in 1 .. Len(s)
    <3> HIDE DEF c
    <3> QED
      BY <2>2 DEF Commas
  <2>4. Decode(s) = BK(SubSeq(s, 1, c - 1), SubSeq(s, c + 1, Len(s)))
    BY <1>3 DEF Decode
  <2> HIDE DEF c
  <2>5. ASSUME NEW m \in 1 .. Len(s) + 1, NEW n \in 0 .. Len(s) PROVE SubSeq(s, m, n) \in Text
    <3>1. \A i \in m .. n : s[i] \in Nat
      BY <1>1
    <3> QED
      BY <1>1, <3>1, SubSeqProperties DEF Text
  <2>6. 1 \in 1 .. Len(s) + 1 /\ c - 1 \in 0 .. Len(s)
        /\ c + 1 \in 1 .. Len(s) + 1 /\ Len(s) \in 0 .. Len(s)
    BY <1>1, <2>3
  <2> QED
    BY <2>4, <2>5, <2>6 DEF BK
<1> QED
  BY <1>2, <1>3

(* What DecodeBlobId accepts is an identifier.                             *)
LEMMA DecodeGivesBlobIds ==
    ASSUME NEW s \in Text, IsBlobId(s) PROVE DecodeBlobId(s) \in BlobId
<1>1. <<>> \in Text
  BY DEF Text
<1>2. After1(s) \in Text /\ Decode(s).base \in Text
  BY DecodeGivesTexts DEF After1
<1>3. After2(s) \in Text /\ Decode(After1(s)).base \in Text
  BY <1>2, DecodeGivesTexts DEF After2
<1>4. Decode(After2(s)).base \in Text
  BY <1>3, DecodeGivesTexts
<1>5. Position(s)[1] = Small
  BY DEF IsBlobId
<1> QED
  BY <1>1, <1>2, <1>3, <1>4, <1>5 DEF DecodeBlobId, BlobId

(* The identifier of a part is not read back as it was written: Decode     *)
(* loses the content and takes the bucket for the part.                    *)
THEOREM PartIdsAreMisread ==
    ASSUME NEW id \in PartId, CommaFree(id.content), CommaFree(id.part), CommaFree(id.bucket)
    PROVE  /\ IsPartId(EncodePartId(id))
           /\ DecodePartId(EncodePartId(id)) =
                 [bucket |-> <<>>, content |-> id.part, part |-> id.bucket]
<1> DEFINE s1 == Encode(BK(id.part, id.bucket))
           s  == EncodePartId(id)
<1>1. id.bucket \in Text /\ id.content \in Text /\ id.part \in Text
  BY DEF PartId
<1>2. s1 \in Text /\ ~ CommaFree(s1) /\ ~ CommaFree(s)
  BY <1>1, EncodeHasComma DEF EncodePartId
<1>3. Decode(s) = BK(id.content, s1) /\ After1(s) = s1
  BY <1>1, <1>2, RestOfKey DEF EncodePartId
<1>4. Decode(s1) = BK(id.part, id.bucket) /\ After1(s1) = id.bucket
  BY <1>1, RestOfKey
<1> HIDE DEF s, s1
<1>5. After2(s) = id.bucket /\ Decode(After1(s)).base = id.part
  BY <1>3, <1>4 DEF After2, After1, BK
<1> QED
  BY <1>2, <1>3, <1>5 DEF IsPartId, DecodePartId, s

-----------------------------------------------------------------------------
(* The keys of a base in the DB.                                           *)

(* What a text with a comma is decoded into is written as that text: two   *)
(* keys of a DB are never read as the same one.                            *)
THEOREM DecodedIsWrittenBack ==
    ASSUME NEW s \in Text, ~ CommaFree(s) PROVE Encode(Decode(s)) = s
<1> DEFINE c == CHOOSE i \in Commas(s) : \A j \in Commas(s) : i <= j
           x == SubSeq(s, 1, c - 1)
           t == SubSeq(s, c + 1, Len(s))
           g == x \o <<Comma>> \o t
<1>1. Len(s) \in Nat /\ \A i \in 1 .. Len(s) : s[i] \in Nat
  BY LenProperties, ElementOfSeq DEF Text
<1>2. c \in 1 .. Len(s) /\ s[c] = Comma
  <2>1. Commas(s) \subseteq Nat /\ Commas(s) # {}
    BY <1>1 DEF CommaFree, Commas
  <2>2. c \in Commas(s)
    BY <2>1, Smallest
  <2> HIDE DEF c
  <2> QED
    BY <2>2 DEF Commas
<1>3. Encode(Decode(s)) = g
  BY DEF Decode, Encode, BK
<1> HIDE DEF c
<1>4. /\ x \in Text /\ Len(x) = c - 1
      /\ \A i \in 1 .. c - 1 : x[i] = s[i]
  <2> DEFINE m == 1
             n == c - 1
  <2>1. m \in Int /\ n \in Int /\ n - m + 1 = n /\ (m <= n \/ n = 0)
        /\ (\A i \in 1 .. n : m + i - 1 = i) /\ \A i \in m .. n : s[i] \in Nat
    BY <1>1, <1>2
  <2> HIDE DEF m, n
  <2>2. /\ SubSeq(s, m, n) \in Seq(Nat) /\ Len(SubSeq(s, m, n)) = n
        /\ \A i \in 1 .. n : SubSeq(s, m, n)[i] = s[m + i - 1]
    BY <2>1, SubSeqProperties
  <2> QED
    BY <2>1, <2>2 DEF m, n, Text
<1>5. /\ t \in Text /\ Len(t) = Len(s) - c
      /\ \A i \in 1 .. Len(s) - c : t[i] = s[c + i]
  <2> DEFINE m == c + 1
             n == Len(s)
  <2>1. m \in Int /\ n \in Int /\ n - m + 1 = n - c /\ (m <= n \/ n - c = 0)
        /\ (\A i \in 1 .. n - c : m + i - 1 = c + i) /\ \A i \in m .. n : s[i] \in Nat
    BY <1>1, <1>2
  <2> HIDE DEF m, n
  <2>2. /\ SubSeq(s, m, n) \in Seq(Nat) /\ Len(SubSeq(s, m, n)) = n - c
        /\ \A i \in 1 .. n - c : SubSeq(s, m, n)[i] = s[m + i - 1]
    BY <2>1, SubSeqProperties
  <2> QED
    BY <2>1, <2>2 DEF m, n, Text
<1> HIDE DEF x, t
<1>6. /\ g \in Text /\ Len(g) = Len(s)
      /\ \A i \in 1 .. c - 1 : g[i] = s[i]
      /\ g[c] = Comma
      /\ \A i \in 1 .. Len(s) - c : g[c + i] = s[c + i]
  <2>1. /\ g \in Text /\ Len(g) = Len(x) + 1 + Len(t)
        /\ \A i \in 1 .. Len(x) : g[i] = x[i]
        /\ g[Len(x) + 1] = Comma
        /\ \A i \in 1 .. Len(t) : g[Len(x) + 1 + i] = t[i]
    BY <1>4, <1>5, Glue
  <2>2. Len(x) + 1 = c /\ Len(x) + 1 + Len(t) = Len(s)
    BY <1>1, <1>2, <1>4, <1>5
  <2> HIDE DEF g
  <2> QED
    BY <1>4, <1>5, <2>1, <2>2
<1> HIDE DEF g
<1>7. ASSUME NEW i \in 1 .. Len(s) PROVE g[i] = s[i]
  <2>1. CASE i < c
    BY <1>1, <1>2, <1>6, <2>1
  <2>2. CASE i = c
    BY <1>2, <1>6, <2>2
  <2>3. CASE i > c
    <3>1. i - c \in 1 .. Len(s) - c /\ c + (i - c) = i
      BY <1>1, <1>2, <2>3
    <3> QED
      BY <1>6, <3>1
  <2> QED
    BY <1>2, <2>1, <2>2, <2>3
<1>8. g = s
  BY <1>6, <1>7, SeqEqual DEF Text
<1> QED
  BY <1>3, <1>8

(* What is at each place of a key that is written.                         *)
LEMMA PlacesOfAKey ==
    ASSUME NEW b \in Text, NEW x \in Text, NEW k \in Text, k = Encode(BK(b, x))
    PROVE  /\ Len(k) = Len(b) + 1 + Len(x)
           /\ \A i \in 1 .. Len(b) : k[i] = b[i]
           /\ k[Len(b) + 1] = Comma
           /\ \A i \in 1 .. Len(x) : k[Len(b) + 1 + i] = x[i]
<1> DEFINE g == b \o <<Comma>> \o x
<1>1. k = g
  BY DEF Encode, BK
<1>2. /\ g \in Text
      /\ Len(g) = Len(b) + 1 + Len(x)
      /\ \A i \in 1 .. Len(b) : g[i] = b[i]
      /\ g[Len(b) + 1] = Comma
      /\ \A i \in 1 .. Len(x) : g[Len(b) + 1 + i] = x[i]
  BY Glue
<1> HIDE DEF g
<1> QED
  BY <1>1, <1>2

(* The keys of one base are in the order of the keys.                      *)
LEMMA KeysOfABaseAreOrdered ==
    ASSUME NEW b \in Text, NEW x \in Text, NEW y \in Text
    PROVE  Less(Encode(BK(b, x)), Encode(BK(b, y))) <=> Less(x, y)
<1> DEFINE u == Encode(BK(b, x))
           v == Encode(BK(b, y))
           p == Len(b) + 1
<1>1. /\ Len(b) \in Nat /\ Len(x) \in Nat /\ Len(y) \in Nat /\ p \in Nat
      /\ \A i \in 1 .. Len(x) : x[i] \in Nat
      /\ \A i \in 1 .. Len(y) : y[i] \in Nat
  BY LenProperties, ElementOfSeq DEF Text
<1>2. /\ Len(u) = p + Len(x) /\ Len(v) = p + Len(y)
      /\ \A i \in 1 .. p : u[i] = v[i]
      /\ \A i \in 1 .. Len(x) : u[p + i] = x[i]
      /\ \A i \in 1 .. Len(y) : v[p + i] = y[i]
  <2>u. /\ Len(u) = p + Len(x) /\ u[p] = Comma
        /\ \A i \in 1 .. Len(b) : u[i] = b[i]
        /\ \A i \in 1 .. Len(x) : u[p + i] = x[i]
    <3>1. u \in Text /\ u = Encode(BK(b, x))
      BY EncodeHasComma
    <3> HIDE DEF u
    <3> QED
      BY <3>1, PlacesOfAKey
  <2>v. /\ Len(v) = p + Len(y) /\ v[p] = Comma
        /\ \A i \in 1 .. Len(b) : v[i] = b[i]
        /\ \A i \in 1 .. Len(y) : v[p + i] = y[i]
    <3>1. v \in Text /\ v = Encode(BK(b, y))
      BY EncodeHasComma
    <3> HIDE DEF v
    <3> QED
      BY <3>1, PlacesOfAKey
  <2>1. /\ \A i \in 1 .. Len(b) : u[i] = v[i]
        /\ u[p] = v[p]
    BY <2>u, <2>v
  <2>2. \A i \in 1 .. p : i = p \/ i \in 1 .. Len(b)
    BY <1>1
  <2> HIDE DEF u, v, p
  <2> QED
    BY <2>u, <2>v, <2>1, <2>2
<1> HIDE DEF u, v, p
<1>3. ASSUME Less(x, y) PROVE Less(u, v)
  <2>1. PICK n \in 0 .. Len(x) :
            n < Len(y) /\ (\A i \in 1 .. n : x[i] = y[i]) /\ (n = Len(x) \/ x[n + 1] < y[n + 1])
    BY <1>3 DEF Less
  <2>2. p + n \in 0 .. Len(u) /\ p + n < Len(v)
    BY <1>1, <1>2, <2>1
  <2>3. ASSUME NEW i \in 1 .. p + n PROVE u[i] = v[i]
    <3>1. CASE i <= p
      BY <1>1, <1>2, <3>1
    <3>2. CASE i > p
      <4>1. i - p \in 1 .. n /\ i - p \in 1 .. Len(x) /\ i - p \in 1 .. Len(y) /\ p + (i - p) = i
        BY <1>1, <2>1, <3>2
      <4> QED
        BY <1>2, <2>1, <4>1
    <3> QED
      BY <1>1, <3>1, <3>2
  <2>4. ASSUME p + n # Len(u) PROVE u[p + n + 1] < v[p + n + 1]
    <3>0. n \in Nat /\ n <= Len(x) /\ n # Len(x) /\ n < Len(y)
      BY <1>1, <1>2, <2>1, <2>4
    <3>1. n # Len(x) /\ n + 1 \in 1 .. Len(x) /\ n + 1 \in 1 .. Len(y) /\ p + n + 1 = p + (n + 1)
      BY <1>1, <3>0
    <3> QED
      BY <1>2, <2>1, <3>1
  <2> QED
    BY <2>2, <2>3, <2>4 DEF Less
<1>4. ASSUME Less(u, v) PROVE Less(x, y)
  <2>1. PICK n \in 0 .. Len(u) :
            n < Len(v) /\ (\A i \in 1 .. n : u[i] = v[i]) /\ (n = Len(u) \/ u[n + 1] < v[n + 1])
    BY <1>4 DEF Less
  <2>2. n >= p
    <3> SUFFICES ASSUME n < p PROVE FALSE
      BY <1>1, <1>2, <2>1
    <3>1. n # Len(u) /\ n + 1 \in 1 .. p
      BY <1>1, <1>2, <2>1
    <3>2. u[n + 1] < v[n + 1] /\ u[n + 1] = v[n + 1]
      BY <1>2, <2>1, <3>1
    <3>3. u[n + 1] \in Nat
      <4>1. n + 1 \in 1 .. Len(u)
        BY <1>1, <1>2, <3>1
      <4>2. u \in Seq(Nat)
        BY EncodeHasComma DEF u, Text
      <4> QED
        BY <4>1, <4>2, ElementOfSeq
    <3> QED
      BY <3>2, <3>3
  <2>3. n - p \in 0 .. Len(x) /\ n - p < Len(y)
    BY <1>1, <1>2, <2>1, <2>2
  <2>4. ASSUME NEW i \in 1 .. n - p PROVE x[i] = y[i]
    <3>1. p + i \in 1 .. n /\ i \in 1 .. Len(x) /\ i \in 1 .. Len(y)
      BY <1>1, <2>1, <2>2, <2>3
    <3> QED
      BY <1>2, <2>1, <3>1
  <2>5. ASSUME n - p # Len(x) PROVE x[(n - p) + 1] < y[(n - p) + 1]
    <3>0. n \in Nat /\ n # Len(u) /\ n >= p /\ n < p + Len(x) /\ n < p + Len(y)
      <4>1. n \in Nat /\ n <= Len(u) /\ n < Len(v) /\ Len(u) = p + Len(x) /\ Len(v) = p + Len(y)
        BY <1>1, <1>2, <2>1
      <4>2. n # p + Len(x)
        BY <1>1, <2>5, <4>1
      <4> QED
        BY <1>1, <2>2, <4>1, <4>2
    <3>1. n # Len(u) /\ n + 1 = p + ((n - p) + 1)
          /\ (n - p) + 1 \in 1 .. Len(x) /\ (n - p) + 1 \in 1 .. Len(y)
      BY <1>1, <3>0
    <3> QED
      BY <1>2, <2>1, <3>1
  <2> QED
    BY <2>3, <2>4, <2>5 DEF Less
<1> QED
  BY <1>3, <1>4 DEF u, v

(* The keys of a base are together in the DB: a key of another base is     *)
(* past all of them or before all of them, if no base has a comma.  A List *)
(* may stop at the first key of another base.                              *)
THEOREM BasesAreTogether ==
    ASSUME NEW b \in Text, NEW o \in Text, CommaFree(b), CommaFree(o), b # o,
           NEW x \in Text, NEW y \in Text, NEW z \in Text
    PROVE  Less(Encode(BK(b, x)), Encode(BK(o, z))) => Less(Encode(BK(b, y)), Encode(BK(o, z)))
<1> DEFINE u == Encode(BK(b, x))
           w == Encode(BK(b, y))
           v == Encode(BK(o, z))
           p == Len(b) + 1
           D == {i \in 1 .. p : i <= Len(v) /\ u[i] # v[i]}
<1>1. /\ Len(b) \in Nat /\ Len(o) \in Nat /\ p \in Nat
      /\ Len(x) \in Nat /\ Len(y) \in Nat /\ Len(z) \in Nat
  BY LenProperties DEF Text
<1>2. /\ u \in Text /\ Len(u) = p + Len(x)
      /\ w \in Text /\ Len(w) = p + Len(y)
      /\ v \in Text /\ Len(v) = Len(o) + 1 + Len(z)
      /\ \A i \in 1 .. Len(b) : u[i] = b[i] /\ w[i] = b[i]
      /\ u[p] = Comma /\ w[p] = Comma
      /\ \A i \in 1 .. Len(o) : v[i] = o[i]
      /\ v[Len(o) + 1] = Comma
  <2>u. /\ u \in Text /\ Len(u) = p + Len(x) /\ u[p] = Comma
        /\ \A i \in 1 .. Len(b) : u[i] = b[i]
    <3>1. u \in Text /\ u = Encode(BK(b, x))
      BY EncodeHasComma
    <3> HIDE DEF u
    <3> QED
      BY <3>1, PlacesOfAKey
  <2>w. /\ w \in Text /\ Len(w) = p + Len(y) /\ w[p] = Comma
        /\ \A i \in 1 .. Len(b) : w[i] = b[i]
    <3>1. w \in Text /\ w = Encode(BK(b, y))
      BY EncodeHasComma
    <3> HIDE DEF w
    <3> QED
      BY <3>1, PlacesOfAKey
  <2>v. /\ v \in Text /\ Len(v) = Len(o) + 1 + Len(z) /\ v[Len(o) + 1] = Comma
        /\ \A i \in 1 .. Len(o) : v[i] = o[i]
    <3>1. v \in Text /\ v = Encode(BK(o, z))
      BY EncodeHasComma
    <3> HIDE DEF v
    <3> QED
      BY <3>1, PlacesOfAKey
  <2> HIDE DEF u, w, v, p
  <2> QED
    BY <2>u, <2>w, <2>v
<1>3. /\ \A i \in 1 .. Len(b) : b[i] # Comma
      /\ \A i \in 1 .. Len(o) : o[i] # Comma
  BY DEF CommaFree, Commas
<1> HIDE DEF u, w, v, p
<1>4. D # {}
  <2>1. p = Len(b) + 1
    BY DEF p
  <2>2. CASE Len(o) < Len(b)
    <3>1. Len(o) + 1 \in 1 .. Len(b) /\ Len(o) + 1 \in 1 .. p /\ Len(o) + 1 <= Len(v)
      BY <1>1, <1>2, <2>1, <2>2
    <3> QED
      BY <1>2, <1>3, <3>1
  <2>3. CASE Len(b) < Len(o)
    <3>1. p \in 1 .. Len(o) /\ p \in 1 .. p /\ p <= Len(v)
      BY <1>1, <1>2, <2>1, <2>3
    <3> QED
      BY <1>2, <1>3, <3>1
  <2>4. CASE Len(b) = Len(o)
    <3>1. PICK i \in 1 .. Len(b) : b[i] # o[i]
      BY <2>4, SeqEqual DEF Text
    <3>2. i \in 1 .. p /\ i <= Len(v) /\ i \in 1 .. Len(o)
      BY <1>1, <1>2, <2>1, <2>4
    <3> QED
      BY <1>2, <3>1, <3>2
  <2> QED
    BY <1>1, <2>2, <2>3, <2>4
<1>5. PICK d \in D : \A e \in D : d <= e
  <2>1. D \subseteq Nat
    BY <1>1
  <2> HIDE DEF D
  <2> QED
    BY <1>4, <2>1, Smallest
<1>6. /\ d \in Nat /\ d \in 1 .. p /\ d <= Len(v) /\ u[d] # v[d]
      /\ \A i \in 1 .. d - 1 : u[i] = v[i]
  <2>1. d \in Nat /\ d \in 1 .. p /\ d <= Len(v) /\ u[d] # v[d]
    BY <1>1, <1>5
  <2>2. ASSUME NEW i \in 1 .. d - 1 PROVE u[i] = v[i]
    <3>1. i \in 1 .. p /\ i <= Len(v) /\ ~ (d <= i)
      BY <1>1, <1>2, <2>1
    <3> QED
      BY <1>5, <3>1
  <2> QED
    BY <2>1, <2>2
<1>7. \A i \in 1 .. d : u[i] = w[i]
  <2>1. \A i \in 1 .. d : i = p \/ i \in 1 .. Len(b)
    BY <1>1, <1>6 DEF p
  <2> QED
    BY <1>2, <2>1
<1>8. d \in 1 .. Len(u) /\ d \in 1 .. Len(w) /\ d \in 1 .. d /\ \A i \in 1 .. d - 1 : i \in 1 .. d
  BY <1>1, <1>2, <1>6
<1>9. (Less(u, v) <=> u[d] < v[d]) /\ (Less(w, v) <=> w[d] < v[d])
  <2>1. w[d] # v[d] /\ \A i \in 1 .. d - 1 : w[i] = v[i]
    BY <1>6, <1>7, <1>8
  <2> QED
    BY <1>2, <1>6, <1>8, <2>1, LessAtDifference
<1> QED
  BY <1>7, <1>8, <1>9 DEF u, w, v
=============================================================================
