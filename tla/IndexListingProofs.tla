--------------------------- MODULE IndexListingProofs ---------------------------
(***************************************************************************)
(* The proofs about IndexListing, for every set of stores, of keys and of  *)
(* writes, and every size of page.                                         *)
(*                                                                         *)
(* First the merge: KeepSingleDedup is a loop, whose invariant is Merging. *)
(* Then the listing: what a store answered is the beginning of what it had *)
(* past the marker (Answered), and a page that the gate cuts stops before  *)
(* the first key that a full answer left out (PagePrintsAll).              *)
(***************************************************************************)
EXTENDS IndexListing, KeysProofs

-----------------------------------------------------------------------------
(* The first keys of a set, in order.                                      *)

Sorted(q) == \A i, j \in 1 .. Len(q) : i < j => q[i] < q[j]

Member(k, q) == \E p \in 1 .. Len(q) : k = q[p]

(* q has the n smallest keys of S in order, or all of them if S has fewer  *)
FirstKeys(S, q, n) ==
    /\ q \in Seq(Nat) /\ Len(q) <= n /\ Sorted(q)
    /\ \A p \in 1 .. Len(q) : q[p] \in S
    /\ \A p \in 1 .. Len(q) : \A k \in S : k <= q[p] => Member(k, q)
    /\ (Len(q) = n \/ \A k \in S : Member(k, q))

Cut(q, n) == IF Len(q) <= n THEN q ELSE SubSeq(q, 1, n)

(* < as a set of pairs                                                     *)
Below == {x \in Nat \X Nat : x[1] < x[2]}

(* Keys in order are in the order of their ranks.                          *)
LEMMA KeysByRank ==
    ASSUME NEW S, S \subseteq Nat, IsFiniteSet(S)
    PROVE  /\ Orders(Below, S)
           /\ \A x, y \in S : <<x, y>> \in Below <=> x < y
           /\ InOrder(S) = ByRank(Below, S)
<1>1. \A x, y \in S : <<x, y>> \in Below <=> x < y
  BY DEF Below
<1>2. Orders(Below, S)
  <2>1. \A x, y \in S : x = y \/ x < y \/ y < x
    OBVIOUS
  <2>2. \A x, y \in S : ~ (x < y /\ y < x)
    OBVIOUS
  <2>3. \A x, y, z \in S : x < y /\ y < z => x < z
    OBVIOUS
  <2> QED
    BY <1>1, <2>1, <2>2, <2>3 DEF Orders
<1>3. \A k \in S : {j \in S : <<j, k>> \in Below} = {j \in S : j < k}
  BY <1>1
<1>4. \A k \in S : Rank(Below, S, k) = Cardinality({j \in S : j < k})
  BY <1>3 DEF Rank
<1>5. ASSUME NEW i \in 1 .. Cardinality(S)
      PROVE  (CHOOSE k \in S : Rank(Below, S, k) = i - 1) =
             (CHOOSE k \in S : Cardinality({j \in S : j < k}) = i - 1)
  BY <1>4
<1> QED
  BY <1>1, <1>2, <1>5 DEF InOrder, ByRank

(* The first n keys of S in order are its FirstKeys, and nothing else is.  *)
LEMMA FirstKeysAre ==
    ASSUME NEW S, S \subseteq Nat, IsFiniteSet(S), NEW n \in Nat, NEW q,
           q = Cut(InOrder(S), n) \/ FirstKeys(S, q, n)
    PROVE  q = Cut(InOrder(S), n) /\ FirstKeys(S, q, n) /\ q \in Seq(S)
<1> DEFINE all == InOrder(S)
           c == Cardinality(S)
<1>1. Lists(Below, S, all, c) /\ Orders(Below, S)
  BY KeysByRank, SequenceByRank
<1>2. \A x, y \in S : <<x, y>> \in Below <=> x < y
  BY KeysByRank
<1> HIDE DEF all, c
<1>3. /\ c \in Nat /\ all \in Seq(S) /\ Len(all) = c
      /\ \A i \in 1 .. c : all[i] \in S
      /\ \A i \in 1 .. c : \A k \in S : Rank(Below, S, k) = i - 1 => all[i] = k
      /\ \A k \in S : \E i \in 1 .. c : all[i] = k
      /\ \A i, j \in 1 .. c : i < j <=> all[i] < all[j]
  BY <1>1, <1>2 DEF Lists
<1>4. /\ Cut(all, n) \in Seq(S) /\ Len(Cut(all, n)) = IF c <= n THEN c ELSE n
      /\ \A i \in 1 .. Len(Cut(all, n)) : Cut(all, n)[i] = all[i]
  <2>1. CASE c <= n
    BY <1>3, <2>1 DEF Cut
  <2>2. CASE ~ (c <= n)
    <3>1. /\ SubSeq(all, 1, n) \in Seq(S) /\ Len(SubSeq(all, 1, n)) = n
          /\ \A i \in 1 .. n : SubSeq(all, 1, n)[i] = all[i]
      BY <1>3, <2>2
    <3> QED
      BY <1>3, <2>2, <3>1 DEF Cut
  <2> QED
    BY <2>1, <2>2
<1>5. CASE q = Cut(all, n)
  <2>1. /\ q \in Seq(S) /\ q \in Seq(Nat) /\ Len(q) \in Nat /\ Len(q) <= n /\ Len(q) <= c
        /\ (Len(q) = n \/ Len(q) = c)
        /\ \A i \in 1 .. Len(q) : q[i] = all[i] /\ i \in 1 .. c
    <3>1. q \in Seq(S) /\ q \in Seq(Nat) /\ \A i \in 1 .. Len(q) : q[i] = all[i]
      BY <1>4, <1>5, SeqMonotonic
    <3>2. Len(q) = IF c <= n THEN c ELSE n
      BY <1>4, <1>5
    <3>3. Len(q) \in Nat /\ Len(q) <= n /\ Len(q) <= c /\ (Len(q) = n \/ Len(q) = c)
      BY <1>3, <3>2
    <3>4. \A i \in 1 .. Len(q) : i \in 1 .. c
      BY <1>3, <3>3
    <3> QED
      BY <3>1, <3>3, <3>4
  <2>2. Sorted(q)
    <3> SUFFICES ASSUME NEW i \in 1 .. Len(q), NEW j \in 1 .. Len(q), i < j PROVE q[i] < q[j]
      BY DEF Sorted
    <3> QED
      BY <1>3, <2>1
  <2>3. ASSUME NEW p \in 1 .. Len(q), NEW k \in S, k <= q[p] PROVE Member(k, q)
    <3>1. PICK i \in 1 .. c : all[i] = k
      BY <1>3
    <3>2. q[p] = all[p] /\ p \in 1 .. c /\ all[p] \in Nat /\ all[i] \in Nat
      BY <1>3, <2>1
    <3>3. ~ (p < i)
      <4>1. ~ (all[p] < all[i])
        BY <2>3, <3>1, <3>2
      <4> QED
        BY <1>3, <3>2, <4>1
    <3>4. i \in 1 .. Len(q)
      BY <1>3, <2>1, <3>2, <3>3
    <3> QED
      BY <2>1, <3>1, <3>4 DEF Member
  <2>4. Len(q) = c => \A k \in S : Member(k, q)
    BY <1>3, <2>1 DEF Member
  <2>5. \A p \in 1 .. Len(q) : q[p] \in S
    BY <1>3, <2>1
  <2> QED
    BY <1>5, <2>1, <2>2, <2>3, <2>4, <2>5 DEF FirstKeys, all
<1>6. CASE FirstKeys(S, q, n)
  <2> DEFINE l == Len(q)
  <2>1. /\ q \in Seq(Nat) /\ l \in Nat /\ l <= n /\ Sorted(q)
        /\ \A p \in 1 .. l : q[p] \in S
        /\ \A p \in 1 .. l : \A k \in S : k <= q[p] => Member(k, q)
        /\ l = n \/ \A k \in S : Member(k, q)
    BY <1>6, LenProperties DEF FirstKeys
  <2>2. q \in Seq(S) /\ q = [i \in 1 .. l |-> q[i]]
    <3>1. q \in [1 .. l -> Nat]
      BY <2>1, LenProperties
    <3>2. q \in [1 .. l -> S]
      BY <2>1, <3>1
    <3> QED
      BY <2>1, <3>1, <3>2, SeqDef
  <2>3. Begins(Below, S, q, l)
    <3>1. \A i, j \in 1 .. l : i < j => <<q[i], q[j]>> \in Below
      BY <1>2, <2>1 DEF Sorted
    <3>2. ASSUME NEW i \in 1 .. l, NEW k \in S, <<k, q[i]>> \in Below
          PROVE  \E m \in 1 .. l : k = q[m]
      <4>1. k <= q[i]
        BY <1>2, <2>1, <3>2
      <4> QED
        BY <2>1, <4>1 DEF Member
    <3> QED
      BY <2>1, <3>1, <3>2 DEF Begins
  <2>4. \A i \in 1 .. l : Rank(Below, S, q[i]) = i - 1
    <3> HIDE DEF l
    <3> QED
      BY <1>1, <2>3, RankIsPlace
  <2>5. \A i \in 1 .. l : i \in 1 .. c /\ all[i] = q[i]
    <3> TAKE i \in 1 .. l
    <3>1. q[i] \in S /\ Rank(Below, S, q[i]) = i - 1
      BY <2>1, <2>4
    <3>2. PICK j \in 1 .. c : all[j] = q[i]
      BY <1>3, <3>1
    <3>3. Rank(Below, S, all[j]) = j - 1
      BY <1>1, <3>2 DEF Lists
    <3>4. i = j
      BY <3>1, <3>2, <3>3
    <3> QED
      BY <3>2, <3>4
  <2>6. l <= c
    <3>1. l = 0 \/ l \in 1 .. l
      BY <2>1
    <3> QED
      BY <1>3, <2>1, <2>5, <3>1
  <2>7. l = IF c <= n THEN c ELSE n
    <3>1. CASE l = n
      BY <1>3, <2>1, <2>6, <3>1
    <3>2. CASE \A k \in S : Member(k, q)
      <4>1. l = c
        <5> SUFFICES ASSUME l # c PROVE FALSE
          OBVIOUS
        <5>1. c \in 1 .. c /\ ~ (c \in 1 .. l)
          BY <1>3, <2>1, <2>6
        <5>2. PICK p \in 1 .. l : all[c] = q[p]
          BY <1>3, <3>2, <5>1 DEF Member
        <5>3. p \in 1 .. c /\ p < c /\ all[p] = all[c]
          BY <1>3, <2>1, <2>5, <2>6, <5>1, <5>2
        <5>4. all[p] < all[c] /\ all[c] \in Nat
          BY <1>3, <5>1, <5>3
        <5> QED
          BY <5>3, <5>4
      <4> QED
        BY <1>3, <2>1, <4>1
    <3> QED
      BY <2>1, <3>1, <3>2
  <2>8. q = Cut(all, n)
    <3>1. Len(Cut(all, n)) = l /\ Cut(all, n) \in Seq(S)
      BY <1>4, <2>7
    <3>2. \A i \in 1 .. l : Cut(all, n)[i] = q[i]
      BY <1>4, <2>5, <3>1
    <3> QED
      BY <2>2, <3>1, <3>2, SeqEqual
  <2> QED
    BY <1>6, <2>2, <2>8 DEF all
<1> QED
  BY <1>5, <1>6 DEF all

-----------------------------------------------------------------------------
(* The answers that are merged.                                            *)

Tables == Seq(Seq(Nat \ {0}))

(* The keys of all the answers                                             *)
KeysOf(t) == UNION {{t[i][j] : j \in DOMAIN t[i]} : i \in DOMAIN t}

(* The places of the keys of the first n answers                           *)
Places(t, n) == {p \in (1 .. n) \X Nat : p[2] \in 1 .. Len(t[p[1]])}

(* The answers are sequences of keys.                                      *)
LEMMA TablesAre ==
    ASSUME NEW t \in Tables
    PROVE  /\ Len(t) \in Nat /\ DOMAIN t = 1 .. Len(t)
           /\ \A i \in 1 .. Len(t) :
                /\ t[i] \in Seq(Nat \ {0}) /\ Len(t[i]) \in Nat /\ DOMAIN t[i] = 1 .. Len(t[i])
                /\ \A j \in 1 .. Len(t[i]) : t[i][j] \in Nat \ {0}
           /\ KeysOf(t) \subseteq Nat \ {0}
           /\ \A i \in 1 .. Len(t) : \A j \in 1 .. Len(t[i]) : t[i][j] \in KeysOf(t)
           /\ \A k \in KeysOf(t) : \E i \in 1 .. Len(t) : \E j \in 1 .. Len(t[i]) : k = t[i][j]
<1>1. Len(t) \in Nat /\ DOMAIN t = 1 .. Len(t)
  BY LenProperties DEF Tables
<1>2. ASSUME NEW i \in 1 .. Len(t)
      PROVE  /\ t[i] \in Seq(Nat \ {0}) /\ Len(t[i]) \in Nat /\ DOMAIN t[i] = 1 .. Len(t[i])
             /\ \A j \in 1 .. Len(t[i]) : t[i][j] \in Nat \ {0}
  <2>1. t[i] \in Seq(Nat \ {0})
    BY ElementOfSeq DEF Tables
  <2> QED
    BY <2>1, LenProperties, ElementOfSeq
<1>3. \A i \in 1 .. Len(t) : \A j \in 1 .. Len(t[i]) : t[i][j] \in KeysOf(t)
  BY <1>1, <1>2 DEF KeysOf
<1>4. ASSUME NEW k \in KeysOf(t)
      PROVE  \E i \in 1 .. Len(t) : \E j \in 1 .. Len(t[i]) : k = t[i][j]
  <2>1. PICK i \in DOMAIN t : k \in {t[i][j] : j \in DOMAIN t[i]}
    BY DEF KeysOf
  <2> QED
    BY <1>1, <1>2, <2>1
<1>5. KeysOf(t) \subseteq Nat \ {0}
  BY <1>2, <1>4
<1> QED
  BY <1>1, <1>2, <1>3, <1>4, <1>5

(* Total counts the places of the keys.                                    *)
LEMMA TotalIs ==
    ASSUME NEW t \in Tables
    PROVE  /\ IsFiniteSet(Places(t, Len(t)))
           /\ Total(t) \in Nat /\ Cardinality(Places(t, Len(t))) = Total(t)
<1> DEFINE N == Len(t)
           h == [x \in (1 .. N) \X Nat |-> x[2] + Len(t[x[1]])]
           g == CHOOSE g : g = [i \in 0 .. N |-> IF i = 0 THEN 0 ELSE g[i - 1] + Len(t[i])]
<1>1. N \in Nat /\ \A i \in 1 .. N : Len(t[i]) \in Nat
  BY TablesAre
<1>2. PICK f \in [0 .. N -> Nat] : f[0] = 0 /\ \A i \in 1 .. N : f[i] = h[<<i, f[i - 1]>>]
  <2>1. h \in [(1 .. N) \X Nat -> Nat]
    BY <1>1
  <2> HIDE DEF h, N
  <2>2. PICK f : Builds(f, N, Nat, 0, h)
    BY <1>1, <2>1, Recursion
  <2> QED
    BY <2>2 DEF Builds
<1>3. f = [i \in 0 .. N |-> IF i = 0 THEN 0 ELSE f[i - 1] + Len(t[i])]
  <2>1. \A i \in 1 .. N : i - 1 \in 0 .. N /\ f[i - 1] \in Nat /\ <<i, f[i - 1]>> \in (1 .. N) \X Nat
    BY <1>1, <1>2
  <2>2. \A i \in 1 .. N : f[i] = f[i - 1] + Len(t[i])
    BY <1>2, <2>1
  <2>3. \A i \in 0 .. N : i = 0 \/ i \in 1 .. N
    BY <1>1
  <2> HIDE DEF N, h
  <2> QED
    BY <1>2, <2>2, <2>3
<1>4. Total(t) = g[N] /\ g = [i \in 0 .. N |-> IF i = 0 THEN 0 ELSE g[i - 1] + Len(t[i])]
  BY <1>3 DEF Total
<1> HIDE DEF g
<1> DEFINE T == {i \in 0 .. N : /\ IsFiniteSet(Places(t, i)) /\ g[i] \in Nat
                                /\ Cardinality(Places(t, i)) = g[i]}
<1>5. 0 \in T
  <2>1. Places(t, 0) = {}
    BY DEF Places
  <2>2. 0 \in 0 .. N /\ g[0] = 0
    BY <1>1, <1>4
  <2>3. IsFiniteSet(Places(t, 0)) /\ Cardinality(Places(t, 0)) = 0
    BY <2>1, FS_EmptySet
  <2> QED
    BY <2>2, <2>3
<1>6. ASSUME NEW i \in 1 .. N, i - 1 \in T PROVE i \in T
  <2> DEFINE Q == {i} \X (1 .. Len(t[i]))
             P == Places(t, i - 1)
  <2>1. Places(t, i) = P \cup Q /\ P \cap Q = {}
    <3>1. \A j \in 1 .. i : j = i \/ j \in 1 .. i - 1
      BY <1>1
    <3>2. \A j \in 1 .. i - 1 : j # i /\ j \in 1 .. i
      BY <1>1
    <3>3. i \in 1 .. i /\ \A j \in 1 .. Len(t[i]) : j \in Nat
      BY <1>1
    <3> QED
      BY <3>1, <3>2, <3>3 DEF Places
  <2>2. IsFiniteSet(Q) /\ Cardinality(Q) = Len(t[i])
    <3>1. IsFiniteSet({i}) /\ Cardinality({i}) = 1
      BY FS_Singleton
    <3>2. IsFiniteSet(1 .. Len(t[i])) /\ Cardinality(1 .. Len(t[i])) = Len(t[i])
      <4>1. 1 \in Int /\ Len(t[i]) \in Int /\ Len(t[i]) \in Nat
        BY <1>1
      <4>2. /\ IsFiniteSet(1 .. Len(t[i]))
            /\ Cardinality(1 .. Len(t[i])) = IF 1 > Len(t[i]) THEN 0 ELSE Len(t[i]) - 1 + 1
        BY <4>1, FS_Interval
      <4> QED
        BY <4>1, <4>2
    <3>3. IsFiniteSet(Q) /\ Cardinality(Q) = 1 * Cardinality(1 .. Len(t[i]))
      BY <3>1, <3>2, FS_Product
    <3> QED
      BY <1>1, <3>2, <3>3
  <2>3. IsFiniteSet(P) /\ g[i - 1] \in Nat /\ Cardinality(P) = g[i - 1]
    BY <1>6
  <2>4. g[i] = g[i - 1] + Len(t[i])
    BY <1>1, <1>4
  <2> HIDE DEF P, Q
  <2>5. IsFiniteSet(P \cup Q) /\ Cardinality(P \cup Q) = Cardinality(P) + Cardinality(Q)
    <3>1. /\ IsFiniteSet(P \cup Q) /\ IsFiniteSet(P \cap Q)
          /\ Cardinality(P \cup Q) = Cardinality(P) + Cardinality(Q) - Cardinality(P \cap Q)
      BY <2>2, <2>3, FS_Union, FS_Intersection
    <3>2. Cardinality(P \cap Q) = 0
      BY <2>1, FS_EmptySet
    <3> QED
      BY <1>1, <2>2, <2>3, <3>1, <3>2
  <2>6. i \in 0 .. N /\ g[i] \in Nat
    BY <1>1, <2>3, <2>4
  <2>7. IsFiniteSet(Places(t, i)) /\ Cardinality(Places(t, i)) = g[i]
    BY <2>1, <2>2, <2>3, <2>4, <2>5
  <2> QED
    BY <2>6, <2>7
<1>7. 0 .. N \subseteq T
  <2> HIDE DEF T, N
  <2> QED
    BY <1>1, <1>5, <1>6, Upward
<1>8. N \in 0 .. N
  BY <1>1
<1> QED
  BY <1>4, <1>7, <1>8

(* Each answer has a next key, or is at its end                            *)
IsAt(t, at) ==
    /\ at \in [1 .. Len(t) -> Nat \ {0}]
    /\ \A i \in 1 .. Len(t) : at[i] <= Len(t[i]) + 1

(* m is the smallest of the next keys, with its table                      *)
IsNext(t, at, m) ==
    /\ m.key = NoKey => \A i \in 1 .. Len(t) : at[i] = Len(t[i]) + 1
    /\ m.key # NoKey => /\ m.key \in KeysOf(t)
                        /\ m.tab \in 1 .. Len(t) /\ at[m.tab] <= Len(t[m.tab])
                        /\ m.key = t[m.tab][at[m.tab]]
                        /\ \A i \in 1 .. Len(t) : at[i] <= Len(t[i]) => m.key <= t[i][at[i]]

(* Smaller finds it.                                                       *)
LEMMA SmallerIs ==
    ASSUME NEW t \in Tables, NEW at, IsAt(t, at), NEW m, m = Smaller(t, at)
    PROVE  IsNext(t, at, m)
<1> DEFINE N == Len(t)
           S == [key : Nat, tab : Nat]
           a == [key |-> NoKey, tab |-> 1]
           step(i, b) ==
               IF at[i] <= Len(t[i]) /\ (b.key = NoKey \/ t[i][at[i]] < b.key)
               THEN [key |-> t[i][at[i]], tab |-> i] ELSE b
           h == [x \in (1 .. N) \X S |-> step(x[1], x[2])]
           g == CHOOSE g : g = [i \in 0 .. N |-> IF i = 0 THEN a ELSE step(i, g[i - 1])]
<1>1. /\ N \in Nat
      /\ \A i \in 1 .. N : /\ Len(t[i]) \in Nat /\ at[i] \in Nat \ {0} /\ at[i] <= Len(t[i]) + 1
                           /\ at[i] <= Len(t[i]) => /\ t[i][at[i]] \in Nat \ {0}
                                                    /\ t[i][at[i]] \in KeysOf(t)
  BY TablesAre DEF IsAt
<1>2. a \in S /\ \A i \in 1 .. N, b \in S : step(i, b) \in S
  BY <1>1 DEF NoKey
<1> HIDE DEF a, S, step
<1>3. PICK f : Builds(f, N, S, a, h)
  <2>1. h \in [(1 .. N) \X S -> S]
    BY <1>2
  <2> HIDE DEF h, N
  <2> QED
    BY <1>1, <1>2, <2>1, Recursion
<1>4. f = [i \in 0 .. N |-> IF i = 0 THEN a ELSE step(i, f[i - 1])]
  <2>0. /\ f \in [0 .. N -> S] /\ f[0] = a
        /\ \A i \in 1 .. N : f[i] = h[<<i, f[i - 1]>>]
    BY <1>3 DEF Builds
  <2>1. ASSUME NEW i \in 1 .. N PROVE <<i, f[i - 1]>> \in (1 .. N) \X S
    <3>1. i - 1 \in 0 .. N
      BY <1>1
    <3> HIDE DEF N
    <3> QED
      BY <2>0, <3>1
  <2>2. \A i \in 1 .. N : f[i] = step(i, f[i - 1])
    BY <2>0, <2>1
  <2>3. \A i \in 0 .. N : i = 0 \/ i \in 1 .. N
    BY <1>1
  <2> HIDE DEF N, h
  <2> QED
    BY <1>3, <2>2, <2>3 DEF Builds
<1>5. g = [i \in 0 .. N |-> IF i = 0 THEN a ELSE step(i, g[i - 1])]
  BY <1>4
<1>6. m = g[N]
  BY DEF Smaller, a, step
<1> HIDE DEF g
<1> DEFINE T == {i \in 0 .. N :
                   /\ g[i] \in S
                   /\ g[i].key = NoKey => \A j \in 1 .. i : at[j] = Len(t[j]) + 1
                   /\ g[i].key # NoKey =>
                        /\ g[i].key \in KeysOf(t)
                        /\ g[i].tab \in 1 .. i /\ at[g[i].tab] <= Len(t[g[i].tab])
                        /\ g[i].key = t[g[i].tab][at[g[i].tab]]
                        /\ \A j \in 1 .. i : at[j] <= Len(t[j]) => g[i].key <= t[j][at[j]]}
<1>7. 0 \in T
  BY <1>1, <1>2, <1>5 DEF a
<1>8. ASSUME NEW i \in 1 .. N, i - 1 \in T PROVE i \in T
  <2>1. /\ i \in 0 .. N /\ i \in 1 .. i /\ \A j \in 1 .. i - 1 : j \in 1 .. i /\ j \in 1 .. N
        /\ \A j \in 1 .. i : j = i \/ j \in 1 .. i - 1
    BY <1>1
  <2>2. g[i - 1] \in S /\ g[i] = step(i, g[i - 1]) /\ g[i] \in S
    <3>1. g[i - 1] \in S /\ i # 0
      BY <1>1, <1>8
    <3>2. g[i] = step(i, g[i - 1])
      BY <1>5, <2>1, <3>1
    <3> QED
      BY <1>2, <3>1, <3>2
  <2>3. g[i - 1].key \in Nat
    BY <2>2 DEF S
  <2>4. CASE at[i] <= Len(t[i]) /\ (g[i - 1].key = NoKey \/ t[i][at[i]] < g[i - 1].key)
    <3>1. g[i] = [key |-> t[i][at[i]], tab |-> i]
      BY <2>2, <2>4 DEF step
    <3>2. /\ t[i][at[i]] \in Nat \ {0} /\ t[i][at[i]] \in KeysOf(t)
      BY <1>1, <2>4
    <3>3. ASSUME NEW j \in 1 .. i, at[j] <= Len(t[j]) PROVE t[i][at[i]] <= t[j][at[j]]
      <4>1. CASE j = i
        BY <3>2, <4>1
      <4>2. CASE j \in 1 .. i - 1
        <5>1. /\ at[j] \in Nat /\ Len(t[j]) \in Nat /\ t[j][at[j]] \in Nat
          BY <1>1, <2>1, <3>3, <4>2
        <5>2. g[i - 1].key # NoKey
          <6>1. at[j] # Len(t[j]) + 1
            BY <3>3, <5>1
          <6> QED
            BY <1>8, <4>2, <6>1
        <5>3. g[i - 1].key <= t[j][at[j]]
          BY <1>8, <3>3, <4>2, <5>2
        <5> QED
          BY <2>3, <2>4, <3>2, <5>1, <5>2, <5>3
      <4> QED
        BY <2>1, <4>1, <4>2
    <3> QED
      BY <2>1, <2>2, <2>4, <3>1, <3>2, <3>3 DEF NoKey
  <2>5. CASE ~ (at[i] <= Len(t[i]) /\ (g[i - 1].key = NoKey \/ t[i][at[i]] < g[i - 1].key))
    <3>1. g[i] = g[i - 1]
      BY <2>2, <2>5 DEF step
    <3>2. at[i] \in Nat /\ Len(t[i]) \in Nat /\ at[i] <= Len(t[i]) + 1
      BY <1>1
    <3>3. CASE g[i - 1].key = NoKey
      <4>1. at[i] = Len(t[i]) + 1
        BY <2>5, <3>2, <3>3
      <4> QED
        BY <1>8, <2>1, <2>2, <3>1, <3>3, <4>1
    <3>4. CASE g[i - 1].key # NoKey
      <4>1. at[i] <= Len(t[i]) => g[i - 1].key <= t[i][at[i]]
        BY <1>1, <2>3, <2>5, <3>4
      <4>2. \A j \in 1 .. i : at[j] <= Len(t[j]) => g[i - 1].key <= t[j][at[j]]
        BY <1>8, <2>1, <3>4, <4>1
      <4> QED
        BY <1>8, <2>1, <2>2, <3>1, <3>4, <4>2
    <3> QED
      BY <3>3, <3>4
  <2> QED
    BY <2>4, <2>5
<1>9. N \in T
  <2>1. N \in 0 .. N
    BY <1>1
  <2> HIDE DEF T, N
  <2> QED
    BY <1>1, <1>7, <1>8, <2>1, Upward
<1> QED
  BY <1>6, <1>9 DEF IsNext

-----------------------------------------------------------------------------
(* The loop of the merge.                                                  *)

(* The loop is at s: what it sent is in order, what it passed was sent,    *)
(* what it has not passed is not smaller than what it sent last            *)
Merging(t, max, s) ==
    /\ s \in [at : [1 .. Len(t) -> Nat \ {0}], last : Nat, out : Seq(Nat \ {0}), end : BOOLEAN]
    /\ IsAt(t, s.at)
    /\ Len(s.out) <= max /\ Sorted(s.out)
    /\ Len(s.out) = 0 => s.last = NoKey
    /\ Len(s.out) > 0 => s.last = s.out[Len(s.out)]
    /\ \A p \in 1 .. Len(s.out) : s.out[p] \in KeysOf(t)
    /\ \A i \in 1 .. Len(t) : \A j \in 1 .. Len(t[i]) :
         /\ j < s.at[i] => Member(t[i][j], s.out)
         /\ ~ (j < s.at[i]) => s.last <= t[i][j]
    /\ s.end => Len(s.out) >= max \/ \A i \in 1 .. Len(t) : s.at[i] = Len(t[i]) + 1

(* One answer has moved to its next key                                    *)
Moves(t, s, r) == \E i \in 1 .. Len(t) : /\ s.at[i] <= Len(t[i])
                                         /\ r.at = [s.at EXCEPT ![i] = @ + 1]

(* The answer i has passed the key where it was                            *)
Passes(t, at, i, to) ==
    /\ IsAt(t, to)
    /\ \A j \in 1 .. Len(t) : \A n \in Nat :
         n < to[j] <=> n < at[j] \/ (j = i /\ n = at[i])

(* An answer that moves passes one key.                                    *)
LEMMA MovePasses ==
    ASSUME NEW t \in Tables, NEW at, IsAt(t, at), NEW i \in 1 .. Len(t), at[i] <= Len(t[i]),
           NEW to, to = [at EXCEPT ![i] = @ + 1]
    PROVE  Passes(t, at, i, to)
<1>1. /\ at \in [1 .. Len(t) -> Nat \ {0}] /\ Len(t[i]) \in Nat /\ at[i] \in Nat \ {0}
      /\ \A j \in 1 .. Len(t) : at[j] <= Len(t[j]) + 1
  BY TablesAre DEF IsAt
<1>2. to \in [1 .. Len(t) -> Nat \ {0}] /\ to[i] = at[i] + 1
  BY <1>1
<1>3. \A j \in 1 .. Len(t) : j # i => to[j] = at[j]
  BY <1>1
<1>4. at[i] + 1 <= Len(t[i]) + 1
  BY <1>1
<1>5. IsAt(t, to)
  BY <1>1, <1>2, <1>3, <1>4 DEF IsAt
<1>6. ASSUME NEW j \in 1 .. Len(t), NEW n \in Nat
      PROVE  n < to[j] <=> n < at[j] \/ (j = i /\ n = at[i])
  <2>1. CASE j = i
    BY <1>1, <1>2, <2>1
  <2>2. CASE j # i
    BY <1>3, <2>2
  <2> QED
    BY <2>1, <2>2
<1> QED
  BY <1>5, <1>6 DEF Passes

(* An iteration keeps the invariant, and ends or moves an answer.          *)
LEMMA PollKeeps ==
    ASSUME NEW t \in Tables, \A i \in 1 .. Len(t) : Sorted(t[i]), NEW max \in Nat,
           NEW s, Merging(t, max, s), NEW r, r = Poll(t, s, max)
    PROVE  Merging(t, max, r) /\ (~ r.end => ~ s.end /\ Moves(t, s, r))
<1> DEFINE Shape == [at : [1 .. Len(t) -> Nat \ {0}], last : Nat, out : Seq(Nat \ {0}), end : BOOLEAN]
<1>0. s \in Shape /\ IsAt(t, s.at)
  BY DEF Merging
<1>1. PICK m : m = Smaller(t, s.at)
  OBVIOUS
<1>2. IsNext(t, s.at, m)
  BY <1>0, <1>1, SmallerIs
<1>3. r = IF s.end \/ m.key = NoKey THEN [s EXCEPT !.end = TRUE]
          ELSE IF m.key = s.last THEN [s EXCEPT !.at[m.tab] = @ + 1]
          ELSE IF Len(s.out) >= max THEN [s EXCEPT !.end = TRUE]
          ELSE [s EXCEPT !.at[m.tab] = @ + 1, !.last = m.key, !.out = Append(@, m.key)]
  BY <1>1 DEF Poll
<1>4. /\ Len(s.out) \in Nat /\ \A p \in 1 .. Len(s.out) : s.out[p] \in Nat \ {0}
  BY <1>0, LenProperties, ElementOfSeq
<1>5. CASE s.end \/ m.key = NoKey
  <2>1. /\ r \in Shape /\ r.at = s.at /\ r.last = s.last /\ r.out = s.out /\ r.end
    BY <1>0, <1>3, <1>5
  <2>2. Len(s.out) >= max \/ \A i \in 1 .. Len(t) : s.at[i] = Len(t[i]) + 1
    BY <1>2, <1>5 DEF IsNext, Merging
  <2> QED
    BY <2>1, <2>2 DEF Merging
<1>6. CASE ~ s.end /\ m.key # NoKey
  <2>1. /\ m.key \in KeysOf(t) /\ m.key \in Nat \ {0} /\ m.tab \in 1 .. Len(t)
        /\ s.at[m.tab] \in 1 .. Len(t[m.tab]) /\ m.key = t[m.tab][s.at[m.tab]]
        /\ \A i \in 1 .. Len(t) : s.at[i] <= Len(t[i]) => m.key <= t[i][s.at[i]]
    <3>1. /\ m.key \in KeysOf(t) /\ m.tab \in 1 .. Len(t)
          /\ s.at[m.tab] <= Len(t[m.tab]) /\ m.key = t[m.tab][s.at[m.tab]]
          /\ \A i \in 1 .. Len(t) : s.at[i] <= Len(t[i]) => m.key <= t[i][s.at[i]]
      BY <1>2, <1>6 DEF IsNext
    <3>2. s.at[m.tab] \in Nat \ {0} /\ Len(t[m.tab]) \in Nat /\ KeysOf(t) \subseteq Nat \ {0}
      BY <1>0, <3>1, TablesAre DEF IsAt
    <3> QED
      BY <3>1, <3>2
  <2> DEFINE to == [s.at EXCEPT ![m.tab] = @ + 1]
  <2>t. to = [s.at EXCEPT ![m.tab] = @ + 1] /\ s.at[m.tab] <= Len(t[m.tab])
    BY <2>1, TablesAre
  <2> HIDE DEF to
  <2>2. /\ IsAt(t, to)
        /\ \A j \in 1 .. Len(t) : \A n \in Nat :
              n < to[j] <=> n < s.at[j] \/ (j = m.tab /\ n = s.at[m.tab])
    <3>1. Passes(t, s.at, m.tab, to)
      BY <1>0, <2>1, <2>t, MovePasses
    <3> QED
      BY <3>1 DEF Passes
  <2>3. s.last <= m.key
    BY <2>1 DEF Merging
  <2>4. ASSUME NEW i \in 1 .. Len(t), NEW j \in 1 .. Len(t[i]), ~ (j < s.at[i])
        PROVE  m.key <= t[i][j]
    <3>1. /\ s.at[i] \in Nat \ {0} /\ Len(t[i]) \in Nat /\ s.at[i] \in 1 .. Len(t[i])
          /\ t[i][j] \in Nat /\ t[i][s.at[i]] \in Nat
      <4>1. /\ Len(t[i]) \in Nat /\ \A n \in 1 .. Len(t[i]) : t[i][n] \in Nat \ {0}
        BY TablesAre
      <4>2. s.at[i] \in Nat \ {0} /\ s.at[i] \in 1 .. Len(t[i])
        BY <1>0, <2>4, <4>1 DEF IsAt
      <4> QED
        BY <4>1, <4>2
    <3>2. t[i][s.at[i]] <= t[i][j]
      <4>1. CASE s.at[i] = j
        BY <3>1, <4>1
      <4>2. CASE s.at[i] < j
        BY <3>1, <4>2 DEF Sorted
      <4> QED
        BY <2>4, <3>1, <4>1, <4>2
    <3>3. m.key <= t[i][s.at[i]] /\ m.key \in Nat
      <4>1. s.at[i] <= Len(t[i])
        BY <3>1
      <4> QED
        BY <2>1, <4>1
    <3>4. \A x, y, z \in Nat : x <= y /\ y <= z => x <= z
      OBVIOUS
    <3> QED
      BY <3>1, <3>2, <3>3, <3>4
  <2>5. CASE m.key = s.last
    <3>1. r = [s EXCEPT !.at = to]
      BY <1>3, <1>6, <2>5 DEF to
    <3>2. to \in [1 .. Len(t) -> Nat \ {0}]
      BY <2>2 DEF IsAt
    <3>3. r \in Shape /\ r.at = to /\ r.last = s.last /\ r.out = s.out /\ r.end = s.end
      BY <1>0, <3>1, <3>2
    <3>4. Member(m.key, s.out)
      <4>1. Len(s.out) > 0 /\ m.key = s.out[Len(s.out)]
        BY <1>4, <1>6, <2>5 DEF Merging
      <4>2. Len(s.out) \in 1 .. Len(s.out)
        BY <1>4, <4>1
      <4> QED
        BY <4>1, <4>2 DEF Member
    <3>5. ASSUME NEW i \in 1 .. Len(t), NEW j \in 1 .. Len(t[i])
          PROVE  /\ j < to[i] => Member(t[i][j], s.out)
                 /\ ~ (j < to[i]) => s.last <= t[i][j]
      BY <2>1, <2>2, <3>4 DEF Merging
    <3>6. Moves(t, s, r)
      BY <2>1, <2>t, <3>3 DEF Moves
    <3> QED
      BY <1>6, <2>2, <3>3, <3>5, <3>6 DEF Merging
  <2>6. CASE m.key # s.last /\ Len(s.out) >= max
    <3>1. /\ r \in Shape /\ r.at = s.at /\ r.last = s.last /\ r.out = s.out /\ r.end
      BY <1>0, <1>3, <1>6, <2>6
    <3> QED
      BY <2>6, <3>1 DEF Merging
  <2>7. CASE m.key # s.last /\ ~ (Len(s.out) >= max)
    <3> DEFINE out == Append(s.out, m.key)
    <3>1. r = [s EXCEPT !.at = to, !.last = m.key, !.out = out]
      BY <1>3, <1>6, <2>7 DEF to
    <3>2. to \in [1 .. Len(t) -> Nat \ {0}]
      BY <2>2 DEF IsAt
    <3>3. /\ out \in Seq(Nat \ {0}) /\ Len(out) = Len(s.out) + 1
          /\ \A p \in 1 .. Len(s.out) : out[p] = s.out[p]
          /\ out[Len(s.out) + 1] = m.key
      BY <1>0, <2>1, AppendProperties
    <3> HIDE DEF out
    <3>4. r \in Shape /\ r.at = to /\ r.last = m.key /\ r.out = out /\ r.end = s.end
      BY <1>0, <2>1, <3>1, <3>2, <3>3
    <3>5. \A p \in 1 .. Len(out) : p \in 1 .. Len(s.out) \/ p = Len(s.out) + 1
      BY <1>4, <3>3
    <3>6. \A k : Member(k, s.out) \/ k = m.key => Member(k, out)
      <4>1. Len(s.out) + 1 \in 1 .. Len(out) /\ \A p \in 1 .. Len(s.out) : p \in 1 .. Len(out)
        BY <1>4, <3>3
      <4> QED
        BY <3>3, <4>1 DEF Member
    <3>7. \A p \in 1 .. Len(s.out) : s.out[p] < m.key
      <4> TAKE p \in 1 .. Len(s.out)
      <4>1. Len(s.out) > 0 /\ s.last = s.out[Len(s.out)] /\ Len(s.out) \in 1 .. Len(s.out)
        BY <1>4 DEF Merging
      <4>2. s.last \in Nat /\ s.last < m.key /\ s.out[p] \in Nat
        BY <1>0, <1>4, <2>1, <2>3, <2>7
      <4>3. p = Len(s.out) \/ p < Len(s.out)
        BY <1>4
      <4>4. p < Len(s.out) => s.out[p] < s.out[Len(s.out)]
        BY <4>1 DEF Merging, Sorted
      <4>5. CASE p = Len(s.out)
        BY <4>1, <4>2, <4>5
      <4>6. CASE p < Len(s.out)
        <5>1. s.out[p] < s.last /\ m.key \in Nat
          BY <2>1, <4>1, <4>4, <4>6
        <5>2. \A x, y, z \in Nat : x < y /\ y < z => x < z
          OBVIOUS
        <5> QED
          BY <4>2, <5>1, <5>2
      <4> QED
        BY <4>3, <4>5, <4>6
    <3>8. Sorted(out)
      <4> SUFFICES ASSUME NEW p \in 1 .. Len(out), NEW q \in 1 .. Len(out), p < q
                   PROVE  out[p] < out[q]
        BY DEF Sorted
      <4>1. p \in 1 .. Len(s.out)
        BY <1>4, <3>3
      <4>2. CASE q = Len(s.out) + 1
        BY <3>3, <3>7, <4>1, <4>2
      <4>3. CASE q \in 1 .. Len(s.out)
        BY <3>3, <4>1, <4>3 DEF Merging, Sorted
      <4> QED
        BY <3>5, <4>2, <4>3
    <3>9. ASSUME NEW i \in 1 .. Len(t), NEW j \in 1 .. Len(t[i])
          PROVE  /\ j < to[i] => Member(t[i][j], out)
                 /\ ~ (j < to[i]) => m.key <= t[i][j]
      <4>1. j \in Nat /\ (j < to[i] <=> j < s.at[i] \/ (i = m.tab /\ j = s.at[m.tab]))
        BY <2>2
      <4>2. j < s.at[i] => Member(t[i][j], s.out)
        BY DEF Merging
      <4>3. i = m.tab /\ j = s.at[m.tab] => t[i][j] = m.key
        BY <2>1
      <4> QED
        BY <2>4, <3>6, <4>1, <4>2, <4>3
    <3>10. Moves(t, s, r)
      BY <2>1, <2>t, <3>4 DEF Moves
    <3>11. Len(out) <= max /\ Len(out) > 0 /\ Len(out) # 0
      BY <1>4, <2>7, <3>3
    <3>12. \A p \in 1 .. Len(out) : out[p] \in KeysOf(t)
      BY <2>1, <3>3, <3>5 DEF Merging
    <3> QED
      BY <1>6, <2>2, <3>3, <3>4, <3>8, <3>9, <3>10, <3>11, <3>12 DEF Merging
  <2> QED
    BY <2>5, <2>6, <2>7
<1> QED
  BY <1>5, <1>6

(* The places of the keys that were passed                                 *)
Passed(t, at) == {p \in Places(t, Len(t)) : p[2] < at[p[1]]}

(* They are counted by the moves, up to Total.                             *)
LEMMA PassedAre ==
    ASSUME NEW t \in Tables, NEW at, IsAt(t, at)
    PROVE  /\ IsFiniteSet(Passed(t, at)) /\ Cardinality(Passed(t, at)) \in Nat
           /\ Cardinality(Passed(t, at)) = Total(t) =>
                \A i \in 1 .. Len(t) : at[i] = Len(t[i]) + 1
           /\ \A i \in 1 .. Len(t) : \A to : Passes(t, at, i, to) /\ at[i] <= Len(t[i]) =>
                Cardinality(Passed(t, to)) = Cardinality(Passed(t, at)) + 1
<1> DEFINE P == Places(t, Len(t))
           Q == Passed(t, at)
<1>1. /\ IsFiniteSet(P) /\ Total(t) \in Nat /\ Cardinality(P) = Total(t)
  BY TotalIs
<1>2. Q \subseteq P
  BY DEF Passed
<1>3. IsFiniteSet(Q) /\ Cardinality(Q) \in Nat
  BY <1>1, <1>2, FS_Subset, FS_CardinalityType
<1>4. /\ Len(t) \in Nat
      /\ \A i \in 1 .. Len(t) : /\ Len(t[i]) \in Nat /\ at[i] \in Nat \ {0}
                                /\ at[i] <= Len(t[i]) + 1
  BY TablesAre DEF IsAt
<1>5. ASSUME NEW i \in 1 .. Len(t), at[i] <= Len(t[i]) PROVE <<i, at[i]>> \in P /\ <<i, at[i]>> \notin Q
  <2>1. at[i] \in 1 .. Len(t[i]) /\ at[i] \in Nat /\ ~ (at[i] < at[i])
    BY <1>4, <1>5
  <2> QED
    BY <2>1 DEF Places, Passed
<1>6. ASSUME Cardinality(Q) = Total(t), NEW i \in 1 .. Len(t) PROVE at[i] = Len(t[i]) + 1
  <2>1. Q = P
    <3> HIDE DEF P, Q
    <3> QED
      BY <1>1, <1>2, <1>6, FS_Subset
  <2>2. ~ (at[i] <= Len(t[i]))
    BY <1>5, <2>1
  <2> QED
    BY <1>4, <2>2
<1>7. ASSUME NEW i \in 1 .. Len(t), NEW to, Passes(t, at, i, to), at[i] <= Len(t[i])
      PROVE  Cardinality(Passed(t, to)) = Cardinality(Q) + 1
  <2>1. Passed(t, to) = Q \cup {<<i, at[i]>>}
    <3>1. \A p \in P : p \in (1 .. Len(t)) \X Nat
      BY DEF Places
    <3>2. \A p \in P : p[2] < to[p[1]] <=> p[2] < at[p[1]] \/ (p[1] = i /\ p[2] = at[i])
      BY <1>7, <3>1 DEF Passes
    <3>3. \A p \in P : p[1] = i /\ p[2] = at[i] <=> p = <<i, at[i]>>
      BY <3>1
    <3> QED
      BY <1>5, <1>7, <3>2, <3>3 DEF Passed
  <2>2. <<i, at[i]>> \notin Q
    BY <1>5, <1>7
  <2> HIDE DEF Q
  <2> QED
    BY <1>3, <2>1, <2>2, FS_AddElement
<1> QED
  BY <1>3, <1>6, <1>7

(* What was sent when the loop ends is the first keys of all the answers.  *)
LEMMA MergeIs ==
    ASSUME NEW t \in Tables, \A i \in 1 .. Len(t) : Sorted(t[i]), NEW max \in Nat,
           NEW out, out = KeepSingleDedup(t, max)
    PROVE  FirstKeys(KeysOf(t), out, max)
<1> DEFINE N == Total(t)
           Shape == [at : [1 .. Len(t) -> Nat \ {0}], last : Nat, out : Seq(Nat \ {0}), end : BOOLEAN]
           S == {s \in Shape : Merging(t, max, s)}
           start == [at |-> [i \in DOMAIN t |-> 1], last |-> NoKey, out |-> <<>>, end |-> FALSE]
           h == [x \in (1 .. N) \X S |-> Poll(t, x[2], max)]
           g == CHOOSE g : g = [n \in 0 .. N |-> IF n = 0 THEN start ELSE Poll(t, g[n - 1], max)]
<1>1. /\ N \in Nat /\ Len(t) \in Nat /\ DOMAIN t = 1 .. Len(t)
      /\ \A i \in 1 .. Len(t) : Len(t[i]) \in Nat /\ \A j \in 1 .. Len(t[i]) : t[i][j] \in Nat \ {0}
  BY TablesAre, TotalIs
<1>2. start \in S
  <2>1. start \in Shape
    BY <1>1 DEF NoKey
  <2>2. /\ start.at = [i \in DOMAIN t |-> 1] /\ start.last = NoKey /\ start.out = <<>>
        /\ start.end = FALSE /\ Len(<<>>) = 0
    BY EmptySeq
  <2>3. IsAt(t, start.at)
    BY <1>1, <2>2 DEF IsAt
  <2>4. \A i \in 1 .. Len(t) : \A j \in 1 .. Len(t[i]) :
            ~ (j < start.at[i]) /\ start.last <= t[i][j]
    BY <1>1, <2>2 DEF NoKey
  <2>5. Sorted(start.out)
    BY <2>2 DEF Sorted
  <2>6. Len(start.out) = 0 /\ max >= 0 /\ ~ start.end
    BY <2>2
  <2> HIDE DEF start, N, h, g
  <2>7. Merging(t, max, start)
    BY <2>1, <2>2, <2>3, <2>4, <2>5, <2>6 DEF Merging
  <2> QED
    BY <2>1, <2>7
<1>3. \A s \in S : Poll(t, s, max) \in S
  <2> TAKE s \in S
  <2>1. Merging(t, max, Poll(t, s, max))
    BY PollKeeps
  <2> QED
    BY <2>1 DEF Merging
<1>4. \A s \in S : /\ Merging(t, max, s) /\ IsAt(t, s.at)
                   /\ LET r == Poll(t, s, max) IN ~ r.end => ~ s.end /\ Moves(t, s, r)
  BY PollKeeps DEF Merging
<1> HIDE DEF start, S
<1>5. PICK f : Builds(f, N, S, start, h)
  <2>1. h \in [(1 .. N) \X S -> S]
    BY <1>3
  <2> HIDE DEF h, N
  <2> QED
    BY <1>1, <1>2, <2>1, Recursion
<1>6. f = [n \in 0 .. N |-> IF n = 0 THEN start ELSE Poll(t, f[n - 1], max)]
  <2> HIDE DEF N
  <2>0. /\ f \in [0 .. N -> S] /\ f[0] = start
        /\ \A i \in 1 .. N : f[i] = h[<<i, f[i - 1]>>]
    BY <1>5 DEF Builds
  <2>1. ASSUME NEW i \in 1 .. N PROVE <<i, f[i - 1]>> \in (1 .. N) \X S
    <3>1. i - 1 \in 0 .. N
      BY <1>1
    <3> QED
      BY <2>0, <3>1
  <2>2. \A i \in 1 .. N : f[i] = Poll(t, f[i - 1], max)
    BY <2>0, <2>1
  <2>3. \A i \in 0 .. N : i = 0 \/ i \in 1 .. N
    BY <1>1
  <2> HIDE DEF h
  <2> QED
    BY <2>0, <2>2, <2>3
<1>7. g = [n \in 0 .. N |-> IF n = 0 THEN start ELSE Poll(t, g[n - 1], max)]
  BY <1>6
<1>8. out = g[N].out
  BY DEF KeepSingleDedup, start
<1> HIDE DEF g, N
<1> DEFINE T == {n \in 0 .. N : /\ g[n] \in S
                               /\ (g[n].end \/ Cardinality(Passed(t, g[n].at)) = n)}
<1>9. 0 \in T
  <2>1. 0 \in 0 .. N /\ g[0] = start
    BY <1>1, <1>7
  <2>2. Passed(t, start.at) = {}
    <3>1. \A p \in Places(t, Len(t)) : ~ (p[2] < start.at[p[1]])
      BY <1>1 DEF Places, start
    <3> QED
      BY <3>1 DEF Passed
  <2>3. Cardinality(Passed(t, start.at)) = 0
    BY <2>2, FS_EmptySet
  <2> QED
    BY <1>2, <2>1, <2>3
<1>10. ASSUME NEW n \in 1 .. N, n - 1 \in T PROVE n \in T
  <2>1. n \in 0 .. N /\ n # 0 /\ g[n - 1] \in S /\ n - 1 \in Nat
    BY <1>1, <1>10
  <2>2. g[n] = Poll(t, g[n - 1], max) /\ g[n] \in S
    BY <1>3, <1>7, <2>1
  <2>3. ASSUME ~ g[n].end PROVE Cardinality(Passed(t, g[n].at)) = n
    <3>1. ~ g[n - 1].end /\ Moves(t, g[n - 1], g[n]) /\ IsAt(t, g[n - 1].at)
      BY <1>4, <2>1, <2>2, <2>3
    <3>2. PICK i \in 1 .. Len(t) : /\ g[n - 1].at[i] <= Len(t[i])
                                   /\ g[n].at = [g[n - 1].at EXCEPT ![i] = @ + 1]
      BY <3>1 DEF Moves
    <3>3. Passes(t, g[n - 1].at, i, g[n].at)
      BY <3>1, <3>2, MovePasses
    <3>4. Cardinality(Passed(t, g[n].at)) = Cardinality(Passed(t, g[n - 1].at)) + 1
      BY <3>1, <3>2, <3>3, PassedAre
    <3> QED
      BY <1>10, <2>1, <3>1, <3>4
  <2> QED
    BY <2>1, <2>2, <2>3
<1>11. N \in T
  <2>1. N \in 0 .. N
    BY <1>1
  <2> HIDE DEF T
  <2> QED
    BY <1>1, <1>9, <1>10, <2>1, Upward
<1>12. PICK s : s = g[N]
  OBVIOUS
<1>13. /\ Merging(t, max, s) /\ IsAt(t, s.at) /\ out = s.out
       /\ (s.end \/ Cardinality(Passed(t, s.at)) = Total(t))
  BY <1>4, <1>8, <1>11, <1>12 DEF N
<1> HIDE DEF T, h
<1>14. Len(out) >= max \/ \A i \in 1 .. Len(t) : s.at[i] = Len(t[i]) + 1
  BY <1>13, PassedAre DEF Merging
<1>15. /\ s \in Shape /\ Len(out) <= max /\ Sorted(out)
       /\ \A p \in 1 .. Len(out) : out[p] \in KeysOf(t)
       /\ Len(out) > 0 => s.last = out[Len(out)]
       /\ \A i \in 1 .. Len(t) : \A j \in 1 .. Len(t[i]) :
            /\ j < s.at[i] => Member(t[i][j], out)
            /\ ~ (j < s.at[i]) => s.last <= t[i][j]
  BY <1>13 DEF Merging
<1>16. /\ out \in Seq(Nat \ {0}) /\ Len(out) \in Nat /\ s.last \in Nat
       /\ \A p \in 1 .. Len(out) : out[p] \in Nat \ {0}
  BY <1>13, <1>15, LenProperties, ElementOfSeq
<1>17. ASSUME NEW k \in KeysOf(t) PROVE Member(k, out) \/ s.last <= k
  <2>1. PICK i \in 1 .. Len(t) : \E j \in 1 .. Len(t[i]) : k = t[i][j]
    BY <1>17, TablesAre
  <2>2. PICK j \in 1 .. Len(t[i]) : k = t[i][j]
    BY <2>1
  <2> QED
    BY <1>15, <2>2
<1>18. ASSUME NEW p \in 1 .. Len(out), NEW k \in KeysOf(t), k <= out[p] PROVE Member(k, out)
  <2>1. /\ Len(out) > 0 /\ Len(out) \in 1 .. Len(out) /\ s.last = out[Len(out)]
        /\ k \in Nat /\ out[p] \in Nat
    BY <1>15, <1>16, TablesAre
  <2>2. out[p] <= s.last
    <3>1. CASE p = Len(out)
      BY <2>1, <3>1
    <3>2. CASE p < Len(out)
      <4>1. out[p] < s.last
        BY <1>15, <2>1, <3>2 DEF Sorted
      <4> QED
        BY <1>16, <2>1, <4>1
    <3> QED
      BY <1>16, <3>1, <3>2
  <2>3. CASE s.last <= k
    <3>1. k = s.last
      BY <1>16, <1>18, <2>1, <2>2, <2>3
    <3> QED
      BY <2>1, <3>1 DEF Member
  <2> QED
    BY <1>17, <2>3
<1>19. Len(out) = max \/ \A k \in KeysOf(t) : Member(k, out)
  <2>1. CASE Len(out) >= max
    BY <1>15, <1>16, <2>1
  <2>2. CASE \A i \in 1 .. Len(t) : s.at[i] = Len(t[i]) + 1
    <3>1. \A i \in 1 .. Len(t) : \A j \in 1 .. Len(t[i]) : Member(t[i][j], out)
      <4> TAKE i \in 1 .. Len(t)
      <4> TAKE j \in 1 .. Len(t[i])
      <4>1. j < s.at[i]
        BY <1>1, <2>2
      <4> QED
        BY <1>15, <4>1
    <3>2. \A k \in KeysOf(t) : \E i \in 1 .. Len(t) : \E j \in 1 .. Len(t[i]) : k = t[i][j]
      BY TablesAre
    <3> QED
      BY <3>1, <3>2
  <2> QED
    BY <1>14, <2>1, <2>2
<1> QED
  <2>1. out \in Seq(Nat)
    BY <1>16, SeqMonotonic
  <2> QED
    BY <1>15, <1>18, <1>19, <2>1 DEF FirstKeys

(* The answers have finitely many keys.                                    *)
LEMMA KeysAreFinite == ASSUME NEW t \in Tables PROVE IsFiniteSet(KeysOf(t)) /\ KeysOf(t) \subseteq Nat
<1> DEFINE P == Places(t, Len(t))
           f == [p \in P |-> t[p[1]][p[2]]]
<1>1. IsFiniteSet(P)
  BY TotalIs
<1>2. ASSUME NEW p \in P PROVE t[p[1]][p[2]] \in KeysOf(t)
  <2>1. p[1] \in 1 .. Len(t) /\ p[2] \in 1 .. Len(t[p[1]])
    BY DEF Places
  <2> QED
    BY <2>1, TablesAre
<1>3. ASSUME NEW k \in KeysOf(t) PROVE \E p \in P : t[p[1]][p[2]] = k
  <2>1. PICK i \in 1 .. Len(t) : \E j \in 1 .. Len(t[i]) : k = t[i][j]
    BY TablesAre
  <2>2. PICK j \in 1 .. Len(t[i]) : k = t[i][j]
    BY <2>1
  <2>3. <<i, j>> \in P
    BY <2>1, <2>2, TablesAre DEF Places
  <2> QED
    BY <2>2, <2>3
<1> HIDE DEF P
<1>4. f \in Surjection(P, KeysOf(t))
  <2>1. f \in [P -> KeysOf(t)]
    BY <1>2
  <2>2. \A k \in KeysOf(t) : \E p \in P : f[p] = k
    BY <1>3
  <2> HIDE DEF f
  <2> QED
    BY <2>1, <2>2 DEF Surjection
<1>5. IsFiniteSet(KeysOf(t))
  <2> HIDE DEF f
  <2> QED
    BY <1>1, <1>4, FS_Surjection
<1> QED
  BY <1>5, TablesAre

(* keepSingleDedup, for every number of answers, of any length, and every  *)
(* max: of answers in order it keeps the max smallest keys, once each.     *)
THEOREM DedupKeepsTheSmallest ==
    ASSUME NEW t \in Tables, \A i \in 1 .. Len(t) : Sorted(t[i]), NEW max \in Nat
    PROVE  KeepSingleDedup(t, max) = Cut(InOrder(KeysOf(t)), max)
<1>1. PICK out : out = KeepSingleDedup(t, max)
  OBVIOUS
<1>2. FirstKeys(KeysOf(t), out, max)
  BY <1>1, MergeIs
<1>3. IsFiniteSet(KeysOf(t)) /\ KeysOf(t) \subseteq Nat
  BY KeysAreFinite
<1> QED
  BY <1>1, <1>2, <1>3, FirstKeysAre

-----------------------------------------------------------------------------
(* A page and an answer.                                                   *)

(* The keys are some, and a page has room for one.                         *)
LEMMA Bounds ==
    /\ IsFiniteSet(Keys) /\ Keys \subseteq Nat \ {0} /\ Keys \subseteq Markers
    /\ Markers \subseteq Nat /\ Starts \subseteq Markers /\ 0 \in Markers /\ LastKey \in Keys
    /\ Page \in Nat \ {0}
<1>1. LastKey \in Nat \ {0} /\ Asked \in Nat /\ ListHardMax \in Nat \ {0}
      /\ Starts \subseteq 0 .. LastKey
  BY BoundsAssumption
<1>2. IsFiniteSet(Keys)
  BY <1>1, FS_Interval DEF Keys
<1>3. Page \in Nat \ {0}
  BY <1>1 DEF Page
<1> QED
  BY <1>1, <1>2, <1>3 DEF Keys, Markers

(* What the gate gives of answers in order is the first keys of them all.  *)
LEMMA MergedIs ==
    ASSUME NEW t \in Seq(Seq(Keys)), \A i \in 1 .. Len(t) : Sorted(t[i]),
           NEW out, out = KeepSingleDedup(t, Page)
    PROVE  /\ t \in Tables /\ KeysOf(t) \subseteq Keys /\ out \in Seq(Keys)
           /\ FirstKeys(KeysOf(t), out, Page)
           /\ out = Cut(InOrder(KeysOf(t)), Page)
<1>1. Page \in Nat /\ Keys \subseteq Nat \ {0} /\ Keys \subseteq Nat /\ IsFiniteSet(Keys)
  BY Bounds
<1>2. t \in Tables
  BY <1>1, SeqMonotonic DEF Tables
<1>3. KeysOf(t) \subseteq Keys
  <2> SUFFICES ASSUME NEW k \in KeysOf(t) PROVE k \in Keys
    OBVIOUS
  <2>1. PICK i \in 1 .. Len(t) : \E j \in 1 .. Len(t[i]) : k = t[i][j]
    BY <1>2, TablesAre
  <2>2. PICK j \in 1 .. Len(t[i]) : k = t[i][j]
    BY <2>1
  <2>3. t[i] \in Seq(Keys)
    BY ElementOfSeq
  <2> QED
    BY <2>2, <2>3, ElementOfSeq
<1>4. out = Cut(InOrder(KeysOf(t)), Page)
  BY <1>1, <1>2, DedupKeepsTheSmallest
<1>5. IsFiniteSet(KeysOf(t)) /\ KeysOf(t) \subseteq Nat
  BY <1>2, KeysAreFinite
<1>6. FirstKeys(KeysOf(t), out, Page) /\ out \in Seq(KeysOf(t))
  BY <1>1, <1>4, <1>5, FirstKeysAre
<1> QED
  BY <1>2, <1>3, <1>4, <1>6, SeqMonotonic

(* What a store answers is the first of its keys past the marker, one more *)
(* than the page.                                                          *)
LEMMA StoreListIs ==
    ASSUME NEW s, NEW marker \in Nat, NEW q, q = StoreList(s, marker, Page)
    PROVE  FirstKeys({k \in Present(s) : k > marker}, q, Page + 1) /\ q \in Seq(Keys)
<1> DEFINE S == {k \in Present(s) : k > marker}
           found == InOrder(S)
<1>1. Page \in Nat /\ Page + 1 \in Nat /\ Keys \subseteq Nat /\ IsFiniteSet(Keys)
  BY Bounds
<1>2. S \subseteq Keys /\ S \subseteq Nat /\ IsFiniteSet(S)
  <2>1. S \subseteq Keys
    BY DEF Present
  <2> QED
    BY <1>1, <2>1, FS_Subset
<1>3. q = IF Len(found) <= Page THEN found ELSE SubSeq(found, 1, Page + 1)
  BY DEF StoreList
<1> HIDE DEF S
<1>4. found \in Seq(S) /\ Len(found) \in Nat
  <2>1. Orders(Below, S) /\ found = ByRank(Below, S)
    BY <1>2, KeysByRank
  <2>2. Lists(Below, S, found, Cardinality(S))
    BY <1>2, <2>1, SequenceByRank
  <2> QED
    BY <2>2 DEF Lists
<1> HIDE DEF found
<1>5. q = Cut(found, Page + 1)
  <2>1. CASE Len(found) = Page + 1
    <3>1. SubSeq(found, 1, Page + 1) = found
      <4>1. Len(found) \in 0 .. Len(found)
        BY <1>4
      <4>2. /\ SubSeq(found, 1, Len(found)) \in Seq(S)
            /\ Len(SubSeq(found, 1, Len(found))) = Len(found)
            /\ \A i \in 1 .. Len(found) : SubSeq(found, 1, Len(found))[i] = found[i]
        BY <1>4, <4>1
      <4> QED
        BY <1>4, <2>1, <4>2, SeqEqual
    <3> QED
      BY <1>1, <1>3, <2>1, <3>1 DEF Cut
  <2>2. CASE Len(found) # Page + 1
    <3>1. Len(found) <= Page <=> Len(found) <= Page + 1
      BY <1>1, <1>4, <2>2
    <3> QED
      BY <1>3, <3>1 DEF Cut
  <2> QED
    BY <2>1, <2>2
<1>6. FirstKeys(S, q, Page + 1) /\ q \in Seq(S)
  BY <1>1, <1>2, <1>5, FirstKeysAre DEF found
<1> QED
  BY <1>2, <1>6, SeqMonotonic DEF S

-----------------------------------------------------------------------------
(* The inductive invariant.                                                *)

(* A store answers a page once, and nothing is asked but for a page        *)
Steps ==
    /\ Len(tabs) + Cardinality(list.todo) <= Cardinality(Stores)
    /\ list.st = "new" => shown = <<>> /\ tabs = <<>>
    /\ list.st # "page" => list.todo = {}

(* The answers are in order, past the marker                               *)
Answers ==
    \A i \in 1 .. Len(tabs) :
        Sorted(tabs[i]) /\ \A j \in 1 .. Len(tabs[i]) : list.marker < tabs[i][j]

(* What was printed is in order, up to the marker                          *)
Printed ==
    /\ Sorted(shown) /\ list.from <= list.marker
    /\ \A p \in 1 .. Len(shown) : shown[p] <= list.marker

(* A store never forgets a key: a removed one stays, with an empty value   *)
Kept == \A s \in Stores : begun[s] \subseteq Present(s)

(* An answer has a key, or is so full that it stops before that key        *)
Covers(t, k) ==
    \/ Member(k, t)
    \/ Len(t) = Page + 1 /\ \A j \in 1 .. Len(t) : t[j] < k

(* One of the answers covers what a store that answered had                *)
Answered ==
    list.st = "page" =>
        \A s \in Stores \ (missed \cup list.todo) : \E i \in 1 .. Len(tabs) :
            \A k \in begun[s] : list.marker < k => Covers(tabs[i], k)

Listing == Steps /\ Answers /\ Printed /\ Answered /\ NoneSkipped

IInv == TypeOK /\ Kept /\ Listing

(* The types of the parts.                                                 *)
LEMMA Typed ==
    ASSUME TypeOK
    PROVE  /\ list = [st |-> list.st, from |-> list.from, marker |-> list.marker,
                      todo |-> list.todo]
           /\ list.marker \in Markers /\ list.from \in Markers
           /\ list.marker \in Nat /\ list.from \in Nat /\ list.todo \subseteq Stores
           /\ IsFiniteSet(list.todo) /\ Cardinality(list.todo) \in Nat
           /\ Cardinality(Stores) \in Nat
           /\ tabs \in Seq(Seq(Keys)) /\ Len(tabs) \in Nat
           /\ \A i \in 1 .. Len(tabs) :
                /\ tabs[i] \in Seq(Keys) /\ Len(tabs[i]) \in Nat
                /\ \A j \in 1 .. Len(tabs[i]) : tabs[i][j] \in Keys /\ tabs[i][j] \in Nat
           /\ shown \in Seq(Keys) /\ Len(shown) \in Nat
           /\ \A p \in 1 .. Len(shown) : shown[p] \in Keys /\ shown[p] \in Nat
           /\ \A s \in Stores : begun[s] \subseteq Keys /\ begun[s] \subseteq Nat
<1>1. Keys \subseteq Nat /\ Markers \subseteq Nat
  BY Bounds
<1>2. /\ list.marker \in Markers /\ list.from \in Markers /\ list.todo \subseteq Stores
      /\ tabs \in Seq(Seq(Keys)) /\ shown \in Seq(Keys)
      /\ list = [st |-> list.st, from |-> list.from, marker |-> list.marker, todo |-> list.todo]
  BY DEF TypeOK
<1>3. IsFiniteSet(list.todo) /\ Cardinality(list.todo) \in Nat /\ Cardinality(Stores) \in Nat
  BY <1>2, StoresAssumption, FS_Subset, FS_CardinalityType
<1>4. Len(tabs) \in Nat /\ Len(shown) \in Nat /\ \A p \in 1 .. Len(shown) : shown[p] \in Keys
  BY <1>2, LenProperties, ElementOfSeq
<1>5. ASSUME NEW i \in 1 .. Len(tabs)
      PROVE  /\ tabs[i] \in Seq(Keys) /\ Len(tabs[i]) \in Nat
             /\ \A j \in 1 .. Len(tabs[i]) : tabs[i][j] \in Keys
  <2>1. tabs[i] \in Seq(Keys)
    BY <1>2, ElementOfSeq
  <2> QED
    BY <2>1, LenProperties, ElementOfSeq
<1>6. \A s \in Stores : begun[s] \subseteq Keys
  BY DEF TypeOK
<1> QED
  BY <1>1, <1>2, <1>3, <1>4, <1>5, <1>6

(* The invariant holds at first.                                           *)
LEMMA InitInv == Init => IInv
<1> SUFFICES ASSUME Init PROVE IInv
  OBVIOUS
<1>1. TypeOK
  <2>1. \A s \in Stores : \A k \in Keys : kv[s][k] \in Values \cup {Absent, Empty}
    BY DEF Init
  <2>2. kv \in [Stores -> [Keys -> Values \cup {Absent, Empty}]]
    BY DEF Init
  <2>3. write \in [Writes -> [st : {"new", "run", "ok", "error"}, key : Keys,
                             value : Values \cup {Empty}, todo : SUBSET Stores,
                             ok : BOOLEAN]]
    BY Bounds DEF Init
  <2>4. list \in [st : {"new", "page", "done", "error"}, from : Markers, marker : Markers,
                 todo : SUBSET Stores]
    BY Bounds DEF Init
  <2>5. tabs \in Seq(Seq(Keys)) /\ Len(tabs) <= Cardinality(Stores) /\ shown \in Seq(Keys)
    BY EmptySeq, StoresAssumption, FS_CardinalityType DEF Init
  <2>6. missed \subseteq Stores /\ begun \in [Stores -> SUBSET Keys]
    BY DEF Init
  <2> QED
    BY <2>2, <2>3, <2>4, <2>5, <2>6 DEF TypeOK
<1>2. Len(tabs) = 0 /\ Len(shown) = 0 /\ Cardinality(list.todo) = 0
  BY EmptySeq, FS_EmptySet DEF Init
<1>3. Steps
  BY <1>2, StoresAssumption, FS_CardinalityType DEF Init, Steps
<1>4. Answers /\ Printed /\ Answered
  BY <1>2 DEF Init, Answers, Printed, Answered, Sorted
<1>5. Kept /\ NoneSkipped
  BY DEF Init, Kept, NoneSkipped
<1> QED
  BY <1>1, <1>3, <1>4, <1>5 DEF IInv, Listing

(* A store never loses a key.                                              *)
LEMMA PresentGrows ==
    ASSUME TypeOK, [Next]_vars
    PROVE  \A s \in Stores : Present(s) \subseteq Present(s)'
<1>1. CASE UNCHANGED kv
  BY <1>1 DEF Present
<1>2. CASE \E w \in Writes, s \in Stores, told \in BOOLEAN : WriteApply(w, s, told)
  <2>1. PICK w \in Writes, s \in Stores, told \in BOOLEAN : WriteApply(w, s, told)
    BY <1>2
  <2>2. write[w].key \in Keys /\ write[w].value \in Values \cup {Empty}
    BY DEF TypeOK
  <2>3. write[w].value # Absent
    BY <2>2, ValuesAssumption DEF Absent, Empty
  <2>4. ASSUME NEW r \in Stores, NEW k \in Keys, kv[r][k] # Absent PROVE kv'[r][k] # Absent
    <3>1. kv' = [kv EXCEPT ![s][write[w].key] = write[w].value]
      BY <2>1 DEF WriteApply
    <3>2. kv[r] \in [Keys -> Values \cup {Absent, Empty}] /\ r \in DOMAIN kv
      BY DEF TypeOK
    <3>3. kv'[r][k] = kv[r][k] \/ kv'[r][k] = write[w].value
      BY <2>2, <3>1, <3>2
    <3> QED
      BY <2>3, <2>4, <3>3
  <2> QED
    BY <2>4 DEF Present
<1>3. \/ UNCHANGED kv
      \/ \E w \in Writes, s \in Stores, told \in BOOLEAN : WriteApply(w, s, told)
  BY DEF Next, WriteStep, ListStep, WriteBegin, WriteFails, WriteReply, ListBegin, ListAnswer,
         ListFails, ListError, ListPage, ListEnd, vars
<1> QED
  BY <1>1, <1>2, <1>3

(* A store keeps the keys it had when the listing began.                   *)
LEMMA KeptStep == TypeOK /\ Kept /\ [Next]_vars => Kept'
<1> SUFFICES ASSUME TypeOK, Kept, [Next]_vars PROVE Kept'
  OBVIOUS
<1>1. \A s \in Stores : Present(s) \subseteq Present(s)'
  BY PresentGrows
<1>2. CASE UNCHANGED begun
  BY <1>1, <1>2 DEF Kept
<1>3. CASE \E from \in Starts : ListBegin(from)
  <2>1. \A s \in Stores : begun'[s] = Present(s)
    BY <1>3 DEF ListBegin
  <2> QED
    BY <1>1, <2>1 DEF Kept
<1>4. UNCHANGED begun \/ \E from \in Starts : ListBegin(from)
  BY DEF Next, WriteStep, ListStep, WriteBegin, WriteFails, WriteApply, WriteReply, ListAnswer,
         ListFails, ListError, ListPage, ListEnd, vars
<1> QED
  BY <1>2, <1>3, <1>4

(* A sequence in order is not longer than one that has all its members.    *)
LEMMA TooMany ==
    ASSUME NEW q \in Seq(Nat), Sorted(q), NEW out \in Seq(Nat),
           \A p \in 1 .. Len(q) : Member(q[p], out)
    PROVE  Len(q) <= Len(out)
<1> DEFINE D == 1 .. Len(q)
           R == 1 .. Len(out)
           f == [p \in D |-> CHOOSE r \in R : q[p] = out[r]]
<1>1. /\ Len(q) \in Nat /\ Len(out) \in Nat /\ \A p \in D : q[p] \in Nat
  BY LenProperties, ElementOfSeq
<1>2. /\ IsFiniteSet(D) /\ Cardinality(D) = Len(q)
      /\ IsFiniteSet(R) /\ Cardinality(R) = Len(out)
  <2>1. 1 \in Int /\ Len(q) \in Int /\ Len(out) \in Int
    BY <1>1
  <2>2. /\ IsFiniteSet(D) /\ Cardinality(D) = IF 1 > Len(q) THEN 0 ELSE Len(q) - 1 + 1
        /\ IsFiniteSet(R) /\ Cardinality(R) = IF 1 > Len(out) THEN 0 ELSE Len(out) - 1 + 1
    BY <2>1, FS_Interval
  <2> HIDE DEF D, R
  <2> QED
    BY <1>1, <2>2
<1>3. \A p \in D : f[p] \in R /\ q[p] = out[f[p]]
  BY DEF Member
<1>4. f \in [D -> R]
  BY <1>3
<1>5. \A x, y \in D : x # y => q[x] # q[y]
  <2>1. \A x, y \in D : x < y => q[x] # q[y]
    BY <1>1 DEF Sorted
  <2> QED
    BY <1>1, <2>1
<1> HIDE DEF f, D, R
<1>6. f \in Injection(D, R)
  BY <1>3, <1>4, <1>5 DEF Injection, IsInjective
<1>7. Cardinality(D) <= Cardinality(R)
  BY <1>2, <1>6, FS_Injection
<1> QED
  BY <1>2, <1>7

(* The page that the gate gives: keys past the marker, in order, and all   *)
(* of those it was given up to its last one.                               *)
LEMMA PageIs ==
    ASSUME TypeOK, Answers, NEW out, out = Merged
    PROVE  /\ out \in Seq(Keys) /\ out \in Seq(Nat) /\ Len(out) \in Nat
           /\ Sorted(out) /\ Len(out) <= Page
           /\ \A p \in 1 .. Len(out) : out[p] \in Keys /\ out[p] \in Nat /\ list.marker < out[p]
           /\ \A p \in 1 .. Len(out) : \E i \in 1 .. Len(tabs) : Member(out[p], tabs[i])
           /\ \A i \in 1 .. Len(tabs) : \A j \in 1 .. Len(tabs[i]) : \A p \in 1 .. Len(out) :
                tabs[i][j] <= out[p] => Member(tabs[i][j], out)
           /\ Len(out) = 0 => \A i \in 1 .. Len(tabs) : Len(tabs[i]) = 0
           /\ out = Cut(InOrder(KeysOf(tabs)), Page)
<1>0. Page \in Nat \ {0} /\ Keys \subseteq Nat
  BY Bounds
<1>1. tabs \in Seq(Seq(Keys)) /\ \A i \in 1 .. Len(tabs) : Sorted(tabs[i])
  BY Typed DEF Answers
<1>2. /\ tabs \in Tables /\ KeysOf(tabs) \subseteq Keys /\ out \in Seq(Keys)
      /\ FirstKeys(KeysOf(tabs), out, Page)
      /\ out = Cut(InOrder(KeysOf(tabs)), Page)
  BY <1>1, MergedIs DEF Merged
<1>3. /\ out \in Seq(Nat) /\ Len(out) <= Page /\ Sorted(out)
      /\ \A p \in 1 .. Len(out) : out[p] \in KeysOf(tabs)
      /\ \A p \in 1 .. Len(out) : \A k \in KeysOf(tabs) : k <= out[p] => Member(k, out)
      /\ (Len(out) = Page \/ \A k \in KeysOf(tabs) : Member(k, out))
  BY <1>2 DEF FirstKeys
<1>4. Len(out) \in Nat
  BY <1>3, LenProperties
<1>5. \A i \in 1 .. Len(tabs) : \A j \in 1 .. Len(tabs[i]) : tabs[i][j] \in KeysOf(tabs)
  BY <1>2, TablesAre
<1>6. ASSUME NEW p \in 1 .. Len(out)
      PROVE  list.marker < out[p] /\ \E i \in 1 .. Len(tabs) : Member(out[p], tabs[i])
  <2>1. PICK i \in 1 .. Len(tabs) : \E j \in 1 .. Len(tabs[i]) : out[p] = tabs[i][j]
    BY <1>2, <1>3, TablesAre
  <2> QED
    BY <2>1 DEF Answers, Member
<1>7. ASSUME Len(out) = 0, NEW i \in 1 .. Len(tabs) PROVE Len(tabs[i]) = 0
  <2>1. \A k : ~ Member(k, out)
    BY <1>7 DEF Member
  <2>2. Len(out) # Page
    BY <1>0, <1>7
  <2>3. \A j \in 1 .. Len(tabs[i]) : FALSE
    BY <1>3, <1>5, <2>1, <2>2
  <2>4. Len(tabs[i]) \in Nat /\ (Len(tabs[i]) = 0 \/ 1 \in 1 .. Len(tabs[i]))
    BY Typed
  <2> QED
    BY <2>3, <2>4
<1>8. \A p \in 1 .. Len(out) : out[p] \in Keys /\ out[p] \in Nat
  BY <1>0, <1>2, ElementOfSeq
<1> QED
  BY <1>2, <1>3, <1>4, <1>5, <1>6, <1>7, <1>8

(* What a store that answered every page had is printed as soon as the     *)
(* marker is past it: a page that is full stops before what it leaves.     *)
LEMMA PagePrintsAll ==
    ASSUME TypeOK, Answers, NEW out, out = Merged, NEW p \in 1 .. Len(out),
           NEW i \in 1 .. Len(tabs), NEW k \in Nat, k <= out[p], Covers(tabs[i], k)
    PROVE  Member(k, out)
<1>1. /\ out \in Seq(Nat) /\ Len(out) \in Nat /\ Len(out) <= Page /\ out[p] \in Nat
      /\ \A j \in 1 .. Len(tabs[i]) : tabs[i][j] <= out[p] => Member(tabs[i][j], out)
  BY PageIs
<1>2. CASE Member(k, tabs[i])
  BY <1>1, <1>2 DEF Member
<1>3. CASE Len(tabs[i]) = Page + 1 /\ \A j \in 1 .. Len(tabs[i]) : tabs[i][j] < k
  <2>1. /\ tabs[i] \in Seq(Keys) /\ Page \in Nat /\ Keys \subseteq Nat
        /\ \A j \in 1 .. Len(tabs[i]) : tabs[i][j] \in Nat
    BY Typed, Bounds
  <2>2. tabs[i] \in Seq(Nat) /\ Sorted(tabs[i])
    BY <2>1, SeqMonotonic DEF Answers
  <2>3. \A j \in 1 .. Len(tabs[i]) : Member(tabs[i][j], out)
    <3> TAKE j \in 1 .. Len(tabs[i])
    <3>1. tabs[i][j] < k /\ tabs[i][j] \in Nat
      BY <1>3, <2>1
    <3>2. tabs[i][j] <= out[p]
      BY <1>1, <3>1
    <3> QED
      BY <1>1, <3>2
  <2>4. Len(tabs[i]) <= Len(out)
    BY <1>1, <2>2, <2>3, TooMany
  <2> QED
    BY <1>1, <1>3, <2>1, <2>4
<1> QED
  BY <1>2, <1>3 DEF Covers

(* The members of what was printed                                         *)
LEMMA ShownIs == ASSUME TypeOK PROVE \A k : k \in Shown <=> Member(k, shown)
<1>1. DOMAIN shown = 1 .. Len(shown)
  BY Typed, LenProperties
<1> QED
  BY <1>1 DEF Shown, Member

(* c has the keys of a, then those of b                                    *)
Joins(a, b, c) ==
    /\ c \in Seq(Keys) /\ Len(a) \in Nat /\ Len(c) = Len(a) + Len(b)
    /\ \A p \in 1 .. Len(a) : c[p] = a[p] /\ p \in 1 .. Len(c)
    /\ \A p \in 1 .. Len(b) : c[Len(a) + p] = b[p] /\ Len(a) + p \in 1 .. Len(c)
    /\ \A p \in 1 .. Len(c) :
         p \in 1 .. Len(a) \/ (p - Len(a) \in 1 .. Len(b) /\ c[p] = b[p - Len(a)])

(* Two sequences of keys, one after the other.                             *)
LEMMA Joined ==
    ASSUME NEW a \in Seq(Keys), NEW b \in Seq(Keys), NEW c, c = a \o b
    PROVE  Joins(a, b, c)
<1>1. Len(a) \in Nat /\ Len(b) \in Nat
  BY LenProperties
<1>2. /\ c \in Seq(Keys) /\ Len(c) = Len(a) + Len(b)
      /\ \A p \in 1 .. Len(a) + Len(b) : c[p] = IF p <= Len(a) THEN a[p] ELSE b[p - Len(a)]
  BY ConcatProperties
<1>3. ASSUME NEW p \in 1 .. Len(a) PROVE c[p] = a[p] /\ p \in 1 .. Len(c)
  BY <1>1, <1>2
<1>4. ASSUME NEW p \in 1 .. Len(b)
      PROVE  c[Len(a) + p] = b[p] /\ Len(a) + p \in 1 .. Len(c)
  <2>1. /\ Len(a) + p \in 1 .. Len(a) + Len(b) /\ ~ (Len(a) + p <= Len(a))
        /\ (Len(a) + p) - Len(a) = p
    BY <1>1
  <2> QED
    BY <1>2, <2>1
<1>5. ASSUME NEW p \in 1 .. Len(c), ~ (p \in 1 .. Len(a))
      PROVE  p - Len(a) \in 1 .. Len(b) /\ c[p] = b[p - Len(a)]
  BY <1>1, <1>2, <1>5
<1> QED
  BY <1>1, <1>2, <1>3, <1>4, <1>5 DEF Joins

(* A page is printed, and the next one asked for.                          *)
LEMMA ListPageKeeps ==
    ASSUME IInv, ListPage
    PROVE  TypeOK' /\ Listing'
<1> DEFINE out == Merged
           m == out[Len(out)]
<1>1. /\ list.st = "page" /\ list.todo = {} /\ out # <<>>
      /\ shown' = shown \o out /\ tabs' = <<>>
      /\ list' = [list EXCEPT !.marker = m, !.todo = Stores]
      /\ UNCHANGED <<kv, write, missed, begun>>
  BY DEF ListPage, PageReady
<1>2. /\ TypeOK /\ Steps /\ Answers /\ Printed /\ Answered /\ NoneSkipped
  BY DEF IInv, Listing
<1>3. /\ out \in Seq(Keys) /\ out \in Seq(Nat) /\ Len(out) \in Nat
      /\ Sorted(out) /\ Len(out) <= Page
      /\ \A p \in 1 .. Len(out) : out[p] \in Keys /\ out[p] \in Nat /\ list.marker < out[p]
  BY <1>2, PageIs
<1> HIDE DEF out
<1>4. Len(out) \in 1 .. Len(out) /\ m \in Keys /\ m \in Nat /\ list.marker < m
  <2>1. Len(out) # 0
    BY <1>1, <1>3, EmptySeq
  <2> QED
    BY <1>3, <2>1
<1>5. /\ list'.st = "page" /\ list'.from = list.from /\ list'.marker = m /\ list'.todo = Stores
      /\ m \in Markers /\ list.marker \in Nat /\ list.from \in Nat
  BY <1>1, <1>2, <1>4, Typed, Bounds DEF TypeOK
<1> HIDE DEF m
<1>6. \A p \in 1 .. Len(out) : out[p] <= m
  <2> TAKE p \in 1 .. Len(out)
  <2>1. p = Len(out) \/ p < Len(out)
    BY <1>3
  <2>2. p < Len(out) => out[p] < out[Len(out)]
    BY <1>3, <1>4 DEF Sorted
  <2> QED
    BY <1>3, <1>4, <2>1, <2>2 DEF m
<1>7. /\ shown' \in Seq(Keys) /\ Len(shown) \in Nat /\ Len(shown') = Len(shown) + Len(out)
      /\ \A p \in 1 .. Len(shown) : shown'[p] = shown[p] /\ p \in 1 .. Len(shown')
      /\ \A p \in 1 .. Len(out) : /\ shown'[Len(shown) + p] = out[p]
                                  /\ Len(shown) + p \in 1 .. Len(shown')
      /\ \A p \in 1 .. Len(shown') :
            p \in 1 .. Len(shown) \/ (p - Len(shown) \in 1 .. Len(out)
                                      /\ shown'[p] = out[p - Len(shown)])
  <2>1. Joins(shown, out, shown')
    BY <1>1, <1>2, <1>3, Typed, Joined
  <2> QED
    BY <2>1 DEF Joins
<1>8. /\ \A p \in 1 .. Len(shown) : shown[p] \in Nat /\ shown[p] <= list.marker
      /\ Sorted(shown) /\ list.from <= list.marker
  BY <1>2, Typed DEF Printed
<1>9. Printed'
  <2>1. ASSUME NEW p \in 1 .. Len(shown') PROVE shown'[p] <= m
    <3>1. CASE p \in 1 .. Len(shown)
      BY <1>4, <1>5, <1>7, <1>8, <3>1
    <3>2. CASE ~ (p \in 1 .. Len(shown))
      BY <1>6, <1>7, <3>2
    <3> QED
      BY <3>1, <3>2
  <2>2. ASSUME NEW p \in 1 .. Len(shown'), NEW q \in 1 .. Len(shown'), p < q
        PROVE  shown'[p] < shown'[q]
    <3>1. CASE p \in 1 .. Len(shown) /\ q \in 1 .. Len(shown)
      BY <1>7, <1>8, <2>2, <3>1 DEF Sorted
    <3>2. CASE p \in 1 .. Len(shown) /\ ~ (q \in 1 .. Len(shown))
      <4>1. q - Len(shown) \in 1 .. Len(out) /\ shown'[q] = out[q - Len(shown)]
        BY <1>7, <3>2
      <4>2. shown[p] \in Nat /\ shown[p] <= list.marker /\ shown'[p] = shown[p]
        BY <1>7, <1>8, <3>2
      <4>3. out[q - Len(shown)] \in Nat /\ list.marker < out[q - Len(shown)]
        BY <1>3, <4>1
      <4> QED
        BY <1>5, <4>1, <4>2, <4>3
    <3>3. CASE ~ (p \in 1 .. Len(shown))
      <4>1. ~ (q \in 1 .. Len(shown))
        BY <1>7, <2>2, <3>3
      <4>2. /\ p - Len(shown) \in 1 .. Len(out) /\ shown'[p] = out[p - Len(shown)]
            /\ q - Len(shown) \in 1 .. Len(out) /\ shown'[q] = out[q - Len(shown)]
        BY <1>7, <3>3, <4>1
      <4>3. p - Len(shown) < q - Len(shown)
        BY <1>7, <2>2
      <4> QED
        BY <1>3, <4>2, <4>3 DEF Sorted
    <3> QED
      BY <3>1, <3>2, <3>3
  <2>3. list.from <= m
    BY <1>4, <1>5, <1>8
  <2> QED
    BY <1>5, <2>1, <2>2, <2>3 DEF Printed, Sorted
<1>10. Len(tabs') = 0 /\ tabs' \in Seq(Seq(Keys))
  BY <1>1, EmptySeq
<1>11. Steps' /\ Answers' /\ Answered'
  <2>1. Cardinality(Stores) \in Nat
    BY <1>2, Typed
  <2>2. missed' = missed
    BY <1>1
  <2> QED
    BY <1>5, <1>10, <2>1, <2>2 DEF Steps, Answers, Answered
<1>12. TypeOK'
  <2>1. list' \in [st : {"new", "page", "done", "error"}, from : Markers, marker : Markers,
                   todo : SUBSET Stores]
    BY <1>1, <1>2, <1>5 DEF TypeOK
  <2> QED
    BY <1>1, <1>2, <1>7, <1>10, <2>1, StoresAssumption, FS_CardinalityType DEF TypeOK
<1>13. NoneSkipped'
  <2> SUFFICES ASSUME NEW s \in Stores \ missed, NEW k \in begun[s],
                      list.from < k, k <= m
               PROVE  Member(k, shown')
    <3>1. \A k : Member(k, shown') => k \in Shown'
      BY <1>7, LenProperties DEF Shown, Member
    <3>2. list'.st # "done"
      BY <1>5
    <3> QED
      BY <1>1, <1>5, <3>1, <3>2 DEF NoneSkipped
  <2>1. k \in Nat
    BY <1>2, Typed
  <2>2. CASE k <= list.marker
    <3>1. k \in Shown
      BY <1>1, <1>2, <2>2 DEF NoneSkipped
    <3>2. Member(k, shown)
      BY <1>2, <3>1, ShownIs
    <3> QED
      BY <1>7, <3>2 DEF Member
  <2>3. CASE list.marker < k
    <3>1. PICK i \in 1 .. Len(tabs) : Covers(tabs[i], k)
      BY <1>1, <1>2, <2>3 DEF Answered
    <3>2. Member(k, out)
      BY <1>2, <1>4, <2>1, <3>1, PagePrintsAll DEF m, out
    <3> QED
      BY <1>7, <3>2 DEF Member
  <2> QED
    BY <1>5, <2>1, <2>2, <2>3
<1> QED
  BY <1>9, <1>11, <1>12, <1>13 DEF Listing

(* A store answers: its answer covers what it had when the listing began.  *)
LEMMA ListAnswerKeeps ==
    ASSUME IInv, NEW s \in Stores, ListAnswer(s)
    PROVE  TypeOK' /\ Listing'
<1> DEFINE q == StoreList(s, list.marker, Page)
           S == {k \in Present(s) : k > list.marker}
           n == Len(tabs)
<1>1. /\ s \in list.todo /\ tabs' = Append(tabs, q)
      /\ list' = [list EXCEPT !.todo = @ \ {s}]
      /\ UNCHANGED <<kv, write, shown, missed, begun>>
  BY DEF ListAnswer
<1>2. /\ TypeOK /\ Kept /\ Steps /\ Answers /\ Printed /\ Answered /\ NoneSkipped
  BY DEF IInv, Listing
<1>3. /\ list'.st = list.st /\ list'.from = list.from /\ list'.marker = list.marker
      /\ list'.todo = list.todo \ {s} /\ list.st = "page"
  BY <1>1, <1>2, Typed DEF Steps
<1>4. list.marker \in Nat /\ n \in Nat /\ tabs \in Seq(Seq(Keys))
  BY <1>2, Typed
<1>5. FirstKeys(S, q, Page + 1) /\ q \in Seq(Keys)
  BY <1>4, StoreListIs
<1> HIDE DEF q
<1>6. /\ tabs' \in Seq(Seq(Keys)) /\ Len(tabs') = n + 1 /\ tabs'[n + 1] = q
      /\ \A i \in 1 .. n : tabs'[i] = tabs[i] /\ i \in 1 .. Len(tabs')
      /\ n + 1 \in 1 .. Len(tabs')
      /\ \A i \in 1 .. Len(tabs') : i \in 1 .. n \/ i = n + 1
  <2>1. /\ Append(tabs, q) \in Seq(Seq(Keys)) /\ Len(Append(tabs, q)) = n + 1
        /\ \A i \in 1 .. n : Append(tabs, q)[i] = tabs[i]
        /\ Append(tabs, q)[n + 1] = q
    BY <1>4, <1>5, AppendProperties
  <2> QED
    BY <1>1, <1>4, <2>1
<1>7. /\ Sorted(q)
      /\ \A p \in 1 .. Len(q) : q[p] \in S
      /\ \A p \in 1 .. Len(q) : \A k \in S : k <= q[p] => Member(k, q)
      /\ (Len(q) = Page + 1 \/ \A k \in S : Member(k, q))
      /\ \A p \in 1 .. Len(q) : q[p] \in Nat
  BY <1>5, ElementOfSeq DEF FirstKeys
<1>8. Answers'
  <2>1. \A j \in 1 .. Len(q) : list.marker < q[j]
    BY <1>4, <1>7
  <2> SUFFICES ASSUME NEW i \in 1 .. Len(tabs')
               PROVE  Sorted(tabs'[i]) /\ \A j \in 1 .. Len(tabs'[i]) : list.marker < tabs'[i][j]
    BY <1>3 DEF Answers, Sorted
  <2>2. CASE i \in 1 .. n
    <3>1. tabs'[i] = tabs[i]
      BY <1>6, <2>2
    <3> QED
      BY <1>2, <2>2, <3>1 DEF Answers
  <2>3. CASE i = n + 1
    <3>1. tabs'[i] = q
      BY <1>6, <2>3
    <3> QED
      BY <1>7, <2>1, <3>1
  <2> QED
    BY <1>6, <2>2, <2>3
<1>9. Steps' /\ Len(tabs') <= Cardinality(Stores)
  <2>1. /\ IsFiniteSet(list.todo) /\ Cardinality(list.todo) \in Nat
        /\ Cardinality(Stores) \in Nat
    BY <1>2, Typed
  <2>2. Cardinality(list.todo \ {s}) = Cardinality(list.todo) - 1
    BY <1>1, <2>1, FS_RemoveElement
  <2>3. Cardinality(list.todo \ {s}) \in Nat
    BY <2>1, FS_Subset, FS_CardinalityType
  <2>4. n + Cardinality(list.todo) <= Cardinality(Stores)
    BY <1>2 DEF Steps
  <2>5. Len(tabs') + Cardinality(list'.todo) <= Cardinality(Stores)
        /\ Len(tabs') <= Cardinality(Stores)
    BY <1>3, <1>4, <1>6, <2>1, <2>2, <2>3, <2>4
  <2> QED
    BY <1>3, <2>5 DEF Steps
<1>10. Printed' /\ NoneSkipped'
  <2>1. Printed'
    BY <1>1, <1>2, <1>3 DEF Printed, Sorted
  <2>2. NoneSkipped'
    BY <1>1, <1>2, <1>3 DEF NoneSkipped, Shown
  <2> QED
    BY <2>1, <2>2
<1>11. Answered'
  <2> SUFFICES ASSUME NEW r \in Stores \ (missed \cup (list.todo \ {s}))
               PROVE  \E i \in 1 .. Len(tabs') : \A k \in begun[r] :
                          list.marker < k => Covers(tabs'[i], k)
    BY <1>1, <1>3 DEF Answered, Covers, Member
  <2>1. CASE r = s
    <3>1. ASSUME NEW k \in begun[s], list.marker < k PROVE Covers(q, k)
      <4>1. k \in S /\ k \in Nat
        BY <1>2, <1>4, <3>1, Typed DEF Kept
      <4>2. CASE Member(k, q)
        BY <4>2 DEF Covers
      <4>3. CASE ~ Member(k, q)
        <5>1. Len(q) = Page + 1
          BY <1>7, <4>1, <4>3
        <5>2. \A p \in 1 .. Len(q) : ~ (k <= q[p]) /\ q[p] \in Nat
          BY <1>7, <4>1, <4>3
        <5>3. \A p \in 1 .. Len(q) : q[p] < k
          BY <4>1, <5>2
        <5> QED
          BY <5>1, <5>3 DEF Covers
      <4> QED
        BY <4>2, <4>3
    <3> QED
      BY <1>6, <2>1, <3>1
  <2>2. CASE r # s
    <3>1. PICK i \in 1 .. n : \A k \in begun[r] : list.marker < k => Covers(tabs[i], k)
      BY <1>2, <1>3, <2>2 DEF Answered
    <3> QED
      BY <1>6, <3>1
  <2> QED
    BY <2>1, <2>2
<1>12. TypeOK'
  <2>1. list' \in [st : {"new", "page", "done", "error"}, from : Markers, marker : Markers,
                   todo : SUBSET Stores]
    BY <1>1, <1>2 DEF TypeOK
  <2> QED
    BY <1>1, <1>2, <1>6, <1>9, <2>1 DEF TypeOK
<1> QED
  BY <1>8, <1>9, <1>10, <1>11, <1>12 DEF Listing

(* A listing begins, with nothing printed.                                 *)
LEMMA ListBeginKeeps ==
    ASSUME IInv, NEW from \in Starts, ListBegin(from)
    PROVE  TypeOK' /\ Listing'
<1>1. /\ list.st = "new"
      /\ list' = [st |-> "page", from |-> from, marker |-> from, todo |-> Stores]
      /\ begun' = [s \in Stores |-> Present(s)]
      /\ UNCHANGED <<kv, write, tabs, shown, missed>>
  BY DEF ListBegin
<1>2. TypeOK /\ Steps
  BY DEF IInv, Listing
<1>3. /\ shown = <<>> /\ tabs = <<>> /\ Len(shown) = 0 /\ Len(tabs) = 0
      /\ from \in Markers /\ from \in Nat /\ Cardinality(Stores) \in Nat
  BY <1>1, <1>2, EmptySeq, Bounds, Typed DEF Steps
<1>4. TypeOK'
  <2>1. begun' \in [Stores -> SUBSET Keys]
    BY <1>1 DEF Present
  <2>2. list' \in [st : {"new", "page", "done", "error"}, from : Markers, marker : Markers,
                   todo : SUBSET Stores]
    BY <1>1, <1>3
  <2> QED
    BY <1>1, <1>2, <2>1, <2>2 DEF TypeOK
<1>5. Steps' /\ Answers' /\ Printed' /\ Answered'
  <2>1. Steps'
    BY <1>1, <1>3 DEF Steps
  <2>2. Answers' /\ Printed'
    BY <1>1, <1>3 DEF Answers, Printed, Sorted
  <2>3. Answered'
    BY <1>1 DEF Answered
  <2> QED
    BY <2>1, <2>2, <2>3
<1>6. NoneSkipped'
  <2>1. \A s \in Stores : \A k \in begun'[s] : k \in Nat
    BY <1>1, Bounds DEF Present
  <2>2. \A k \in Nat : ~ (from < k /\ k <= from)
    BY <1>3
  <2>3. list'.st = "page" /\ list'.from = from /\ list'.marker = from /\ missed' = missed
    BY <1>1
  <2> QED
    BY <2>1, <2>2, <2>3 DEF NoneSkipped
<1> QED
  BY <1>4, <1>5, <1>6 DEF Listing

(* A store fails to answer.                                                *)
LEMMA ListFailsKeeps ==
    ASSUME IInv, NEW s \in Stores, ListFails(s)
    PROVE  TypeOK' /\ Listing'
<1>1. /\ s \in list.todo /\ missed' = missed \cup {s}
      /\ list' = [list EXCEPT !.todo = @ \ {s}]
      /\ UNCHANGED <<kv, write, tabs, shown, begun>>
  BY DEF ListFails
<1>2. /\ TypeOK /\ Steps /\ Answers /\ Printed /\ Answered /\ NoneSkipped
  BY DEF IInv, Listing
<1>3. /\ list'.st = list.st /\ list'.from = list.from /\ list'.marker = list.marker
      /\ list'.todo = list.todo \ {s} /\ list.st = "page"
  BY <1>1, <1>2, Typed DEF Steps
<1>4. TypeOK'
  <2>1. list' \in [st : {"new", "page", "done", "error"}, from : Markers, marker : Markers,
                   todo : SUBSET Stores]
    BY <1>1, <1>2 DEF TypeOK
  <2> QED
    BY <1>1, <1>2, <2>1 DEF TypeOK
<1>5. Steps'
  <2>1. /\ IsFiniteSet(list.todo) /\ Cardinality(list.todo) \in Nat
        /\ Cardinality(Stores) \in Nat /\ Len(tabs) \in Nat
    BY <1>2, Typed
  <2>2. Cardinality(list.todo \ {s}) = Cardinality(list.todo) - 1
    BY <1>1, <2>1, FS_RemoveElement
  <2>3. Len(tabs) + Cardinality(list.todo) <= Cardinality(Stores)
    BY <1>2 DEF Steps
  <2>4. Len(tabs') + Cardinality(list'.todo) <= Cardinality(Stores)
    BY <1>1, <1>3, <2>1, <2>2, <2>3
  <2> QED
    BY <1>3, <2>4 DEF Steps
<1>6. Answers' /\ Printed'
  BY <1>1, <1>2, <1>3 DEF Answers, Printed, Sorted
<1>7. Answered'
  BY <1>1, <1>2, <1>3 DEF Answered, Covers, Member
<1>8. NoneSkipped'
  BY <1>1, <1>2, <1>3 DEF NoneSkipped, Shown
<1> QED
  BY <1>4, <1>5, <1>6, <1>7, <1>8 DEF Listing

(* The listing ends on an empty page, or on an error.                      *)
LEMMA ListEndKeeps ==
    ASSUME IInv, ListEnd \/ ListError
    PROVE  TypeOK' /\ Listing'
<1>1. /\ list.st = "page" /\ list.todo = {}
      /\ UNCHANGED <<kv, write, tabs, shown, missed, begun>>
      /\ \/ list' = [list EXCEPT !.st = "done"] /\ Merged = <<>>
         \/ list' = [list EXCEPT !.st = "error"]
  BY DEF ListEnd, ListError, PageReady
<1>2. /\ TypeOK /\ Steps /\ Answers /\ Printed /\ Answered /\ NoneSkipped
  BY DEF IInv, Listing
<1>3. /\ list'.from = list.from /\ list'.marker = list.marker /\ list'.todo = {}
      /\ \/ list'.st = "done" /\ Merged = <<>>
         \/ list'.st = "error"
  BY <1>1, <1>2, Typed
<1>4. TypeOK'
  <2>1. list' \in [st : {"new", "page", "done", "error"}, from : Markers, marker : Markers,
                   todo : SUBSET Stores]
    BY <1>1, <1>2 DEF TypeOK
  <2> QED
    BY <1>1, <1>2, <2>1 DEF TypeOK
<1>5. Steps' /\ Answers' /\ Printed' /\ Answered'
  <2>1. Steps'
    BY <1>1, <1>2, <1>3 DEF Steps
  <2>2. Answers' /\ Printed'
    BY <1>1, <1>2, <1>3 DEF Answers, Printed, Sorted
  <2>3. Answered'
    BY <1>3 DEF Answered
  <2> QED
    BY <2>1, <2>2, <2>3
<1>6. NoneSkipped'
  <2> SUFFICES ASSUME Merged = <<>>, NEW s \in Stores \ missed, NEW k \in begun[s],
                      list.from < k
               PROVE  k \in Shown
    BY <1>1, <1>3 DEF NoneSkipped, Shown
  <2>1. k \in Nat /\ list.marker \in Nat
    BY <1>2, Typed
  <2>2. CASE k <= list.marker
    BY <1>1, <1>2, <2>2 DEF NoneSkipped
  <2>3. CASE list.marker < k
    <3>1. PICK i \in 1 .. Len(tabs) : Covers(tabs[i], k)
      BY <1>1, <1>2, <2>3 DEF Answered
    <3>2. PICK out : out = Merged
      OBVIOUS
    <3>3. Len(out) = 0
      BY <3>2, EmptySeq
    <3>4. Len(tabs[i]) = 0
      BY <1>2, <3>2, <3>3, PageIs
    <3>5. ~ Member(k, tabs[i]) /\ Page + 1 # 0
      BY <3>4, Bounds DEF Member
    <3> QED
      BY <3>1, <3>4, <3>5 DEF Covers
  <2> QED
    BY <2>1, <2>2, <2>3
<1> QED
  BY <1>4, <1>5, <1>6 DEF Listing

(* A write, and a step that changes nothing here, leave the listing alone. *)
LEMMA WriteKeeps ==
    ASSUME IInv, (\E w \in Writes : WriteStep(w)) \/ UNCHANGED vars
    PROVE  TypeOK' /\ Listing'
<1>1. TypeOK /\ Listing
  BY DEF IInv
<1>2. UNCHANGED <<list, tabs, shown, missed, begun>>
  BY DEF WriteStep, WriteBegin, WriteFails, WriteApply, WriteReply, vars
<1>3. Listing'
  <2>1. Steps' /\ Answers' /\ Printed'
    BY <1>1, <1>2 DEF Listing, Steps, Answers, Printed, Sorted
  <2>2. Answered' /\ NoneSkipped'
    BY <1>1, <1>2 DEF Listing, Answered, Covers, Member, NoneSkipped, Shown
  <2> QED
    BY <2>1, <2>2 DEF Listing
<1>4. TypeOK'
  <2> DEFINE Calls == [st : {"new", "run", "ok", "error"}, key : Keys,
                       value : Values \cup {Empty}, todo : SUBSET Stores, ok : BOOLEAN]
  <2>0. kv \in [Stores -> [Keys -> Values \cup {Absent, Empty}]] /\ write \in [Writes -> Calls]
    BY <1>1 DEF TypeOK
  <2>1. write' \in [Writes -> Calls] /\ kv' \in [Stores -> [Keys -> Values \cup {Absent, Empty}]]
    <3>1. CASE \E w \in Writes, k \in Keys, v \in Values \cup {Empty} : WriteBegin(w, k, v)
      <4>1. PICK w \in Writes, k \in Keys, v \in Values \cup {Empty} : WriteBegin(w, k, v)
        BY <3>1
      <4> QED
        BY <2>0, <4>1 DEF WriteBegin
    <3>2. CASE \E w \in Writes, s \in Stores, told \in BOOLEAN : WriteApply(w, s, told)
      <4>1. PICK w \in Writes, s \in Stores, told \in BOOLEAN : WriteApply(w, s, told)
        BY <3>2
      <4>2. write[w] \in Calls
        BY <2>0
      <4>3. kv' \in [Stores -> [Keys -> Values \cup {Absent, Empty}]]
        BY <2>0, <4>1, <4>2 DEF WriteApply
      <4>4. [write[w] EXCEPT !.todo = @ \ {s}, !.ok = @ \/ told] \in Calls
        BY <4>1, <4>2
      <4>5. write' = [write EXCEPT ![w] = [write[w] EXCEPT !.todo = @ \ {s}, !.ok = @ \/ told]]
        BY <4>1, <4>2, <2>0 DEF WriteApply
      <4> HIDE DEF Calls
      <4> QED
        BY <2>0, <4>3, <4>4, <4>5
    <3>3. CASE \E w \in Writes, s \in Stores : WriteFails(w, s)
      <4>1. PICK w \in Writes, s \in Stores : WriteFails(w, s)
        BY <3>3
      <4> QED
        BY <2>0, <4>1 DEF WriteFails
    <3>4. CASE \E w \in Writes : WriteReply(w)
      <4>1. PICK w \in Writes : WriteReply(w)
        BY <3>4
      <4> QED
        BY <2>0, <4>1 DEF WriteReply
    <3>5. CASE UNCHANGED vars
      BY <2>0, <3>5 DEF vars
    <3> HIDE DEF Calls
    <3> QED
      BY <3>1, <3>2, <3>3, <3>4, <3>5 DEF WriteStep
  <2> QED
    BY <1>1, <1>2, <2>1 DEF TypeOK
<1> QED
  BY <1>3, <1>4

(* The invariant holds always: one lemma for each step.                    *)
LEMMA Invariance == Spec => []IInv
<1>1. Init => IInv
  BY InitInv
<1>2. IInv /\ [Next]_vars => IInv'
  <2> SUFFICES ASSUME IInv, [Next]_vars PROVE IInv'
    OBVIOUS
  <2>1. Kept'
    BY KeptStep DEF IInv
  <2>2. TypeOK' /\ Listing'
    <3>1. CASE (\E w \in Writes : WriteStep(w)) \/ UNCHANGED vars
      BY <3>1, WriteKeeps
    <3>2. CASE \E from \in Starts : ListBegin(from)
      BY <3>2, ListBeginKeeps
    <3>3. CASE ListStep
      <4>1. CASE \E s \in Stores : ListAnswer(s)
        BY <4>1, ListAnswerKeeps
      <4>2. CASE \E s \in Stores : ListFails(s)
        BY <4>2, ListFailsKeeps
      <4>3. CASE ListPage
        BY <4>3, ListPageKeeps
      <4>4. CASE ListEnd \/ ListError
        BY <4>4, ListEndKeeps
      <4> QED
        BY <3>3, <4>1, <4>2, <4>3, <4>4 DEF ListStep
    <3> QED
      BY <3>1, <3>2, <3>3 DEF Next
  <2> QED
    BY <2>1, <2>2 DEF IInv
<1> QED
  BY <1>1, <1>2, PTL DEF Spec

-----------------------------------------------------------------------------
(* The values of the variables, for every set of stores, keys and writes.  *)
THEOREM TypeCorrect == Spec => []TypeOK
<1>1. IInv => TypeOK
  BY DEF IInv
<1> QED
  BY <1>1, Invariance, PTL

(* The page that the gate sends is exactly the smallest keys of all the    *)
(* answers, whatever they are: min() and the loop of keepSingleDedup.      *)
THEOREM MergesAreExact == Spec => []MergeIsExact
<1>1. ASSUME IInv PROVE MergeIsExact
  <2>1. Merged = Cut(InOrder(KeysOf(tabs)), Page)
    BY <1>1, PageIs DEF IInv, Listing
  <2> QED
    BY <2>1 DEF MergeIsExact, KeysOf, Cut
<1> QED
  BY <1>1, Invariance, PTL

(* The client that asks page after page sees the keys in order, and none   *)
(* twice, while the stores change and fail.                                *)
THEOREM ListingIsInOrder == Spec => []ShownInOrder
<1>1. ASSUME IInv PROVE ShownInOrder
  <2>1. Sorted(shown) /\ DOMAIN shown = 1 .. Len(shown)
    BY <1>1, Typed, LenProperties DEF IInv, Listing, Printed
  <2> QED
    BY <2>1 DEF ShownInOrder, Sorted
<1> QED
  BY <1>1, Invariance, PTL

(* No page skips a key of a store that answered every page, whatever the   *)
(* writes in progress and the failures of the others.                      *)
THEOREM ListingSkipsNone == Spec => []NoneSkipped
<1>1. IInv => NoneSkipped
  BY DEF IInv, Listing
<1> QED
  BY <1>1, Invariance, PTL

(* list --full does not go round: each page that is printed moves the      *)
(* marker up, and there are no markers past LastKey.                       *)
THEOREM EveryPageAdvances ==
    Spec => [][ListPage => list.marker < list'.marker /\ list'.marker <= LastKey]_vars
<1>1. ASSUME IInv, ListPage PROVE list.marker < list'.marker /\ list'.marker <= LastKey
  <2>1. PICK out : out = Merged
    OBVIOUS
  <2>2. /\ Len(out) \in Nat /\ out \in Seq(Keys)
        /\ \A p \in 1 .. Len(out) : out[p] \in Keys /\ list.marker < out[p]
    BY <1>1, <2>1, PageIs DEF IInv, Listing
  <2>3. out # <<>> /\ list' = [list EXCEPT !.marker = out[Len(out)], !.todo = Stores]
    BY <1>1, <2>1 DEF ListPage
  <2>4. Len(out) \in 1 .. Len(out)
    BY <2>2, <2>3, EmptySeq
  <2>5. list'.marker = out[Len(out)]
    BY <1>1, <2>3, Typed DEF IInv
  <2> QED
    BY <2>2, <2>4, <2>5, BoundsAssumption DEF Keys
<1> QED
  BY <1>1, Invariance, PTL

(* The keys that some store has                                            *)
Held == UNION {Present(s) : s \in Stores}

(* What was answered and printed is held, and is past where it began       *)
Genuine ==
    /\ \A i \in 1 .. Len(tabs) : \A j \in 1 .. Len(tabs[i]) : tabs[i][j] \in Held
    /\ \A p \in 1 .. Len(shown) : list.from < shown[p] /\ shown[p] \in Held

(* It stays so: a page has only keys of the answers, an answer only keys   *)
(* of its store.                                                           *)
LEMMA GenuineStep == IInv /\ Genuine /\ [Next]_vars => Genuine'
<1> SUFFICES ASSUME IInv, Genuine, [Next]_vars PROVE Genuine'
  OBVIOUS
<1>1. /\ TypeOK /\ Answers /\ Steps /\ Printed
      /\ list.marker \in Nat /\ list.from \in Nat /\ tabs \in Seq(Seq(Keys)) /\ Len(tabs) \in Nat
      /\ shown \in Seq(Keys)
  BY Typed DEF IInv, Listing
<1>2. Held \subseteq Held'
  <2>1. \A s \in Stores : Present(s) \subseteq Present(s)'
    BY <1>1, PresentGrows
  <2> QED
    BY <2>1 DEF Held
<1>3. CASE list'.from = list.from /\ tabs' = tabs /\ shown' = shown
  BY <1>2, <1>3 DEF Genuine
<1>4. CASE tabs' = <<>> /\ shown' = <<>>
  <2>1. Len(tabs') = 0 /\ Len(shown') = 0
    BY <1>4, EmptySeq
  <2> QED
    BY <2>1 DEF Genuine
<1>5. ASSUME NEW s \in Stores, ListAnswer(s) PROVE Genuine'
  <2> DEFINE q == StoreList(s, list.marker, Page)
             S == {k \in Present(s) : k > list.marker}
  <2>1. tabs' = Append(tabs, q) /\ shown' = shown /\ list'.from = list.from
    BY <1>1, <1>5, Typed DEF ListAnswer
  <2>2. FirstKeys(S, q, Page + 1) /\ q \in Seq(Keys)
    BY <1>1, StoreListIs
  <2>3. \A j \in 1 .. Len(q) : q[j] \in Held'
    <3>1. \A j \in 1 .. Len(q) : q[j] \in S
      BY <2>2 DEF FirstKeys
    <3>2. \A j \in 1 .. Len(q) : q[j] \in Held
      BY <3>1 DEF Held
    <3> HIDE DEF q
    <3> QED
      BY <1>2, <3>2
  <2> HIDE DEF q
  <2>4. /\ Len(tabs') = Len(tabs) + 1 /\ tabs'[Len(tabs) + 1] = q
        /\ \A i \in 1 .. Len(tabs) : tabs'[i] = tabs[i]
    BY <1>1, <2>1, <2>2, AppendProperties
  <2>5. \A i \in 1 .. Len(tabs') : i \in 1 .. Len(tabs) \/ i = Len(tabs) + 1
    BY <1>1, <2>4
  <2>6. ASSUME NEW i \in 1 .. Len(tabs') PROVE \A j \in 1 .. Len(tabs'[i]) : tabs'[i][j] \in Held'
    <3>1. CASE i \in 1 .. Len(tabs)
      <4>1. tabs'[i] = tabs[i] /\ \A j \in 1 .. Len(tabs[i]) : tabs[i][j] \in Held
        BY <2>4, <3>1 DEF Genuine
      <4> QED
        BY <1>2, <4>1
    <3>2. CASE i = Len(tabs) + 1
      BY <2>3, <2>4, <3>2
    <3> QED
      BY <2>5, <3>1, <3>2
  <2> QED
    BY <1>2, <2>1, <2>6 DEF Genuine
<1>6. ASSUME ListPage PROVE Genuine'
  <2>1. PICK out : out = Merged
    OBVIOUS
  <2>2. /\ shown' = shown \o out /\ tabs' = <<>> /\ list'.from = list.from
    BY <1>1, <1>6, <2>1, Typed DEF ListPage
  <2>3. /\ out \in Seq(Keys) /\ Len(out) \in Nat
        /\ \A p \in 1 .. Len(out) :
             /\ out[p] \in Nat /\ list.marker < out[p]
             /\ \E i \in 1 .. Len(tabs) : Member(out[p], tabs[i])
    BY <1>1, <2>1, PageIs
  <2>4. ASSUME NEW p \in 1 .. Len(out) PROVE list.from < out[p] /\ out[p] \in Held
    <3>1. list.from <= list.marker /\ list.marker < out[p] /\ out[p] \in Nat
      BY <1>1, <2>3 DEF Printed
    <3>2. out[p] \in Held
      BY <2>3 DEF Genuine, Member
    <3> QED
      BY <1>1, <3>1, <3>2
  <2>8. Joins(shown, out, shown')
    BY <1>1, <2>2, <2>3, Joined
  <2>5. ASSUME NEW p \in 1 .. Len(shown') PROVE list.from < shown'[p] /\ shown'[p] \in Held
    <3>1. CASE p \in 1 .. Len(shown)
      <4>1. shown'[p] = shown[p]
        BY <2>8, <3>1 DEF Joins
      <4> QED
        BY <3>1, <4>1 DEF Genuine
    <3>2. CASE ~ (p \in 1 .. Len(shown))
      <4>1. p - Len(shown) \in 1 .. Len(out) /\ shown'[p] = out[p - Len(shown)]
        BY <2>8, <3>2 DEF Joins
      <4> QED
        BY <2>4, <4>1
    <3> QED
      BY <3>1, <3>2
  <2>6. \A p \in 1 .. Len(shown') : list.from < shown'[p] /\ shown'[p] \in Held'
    BY <1>2, <2>5
  <2>7. Len(tabs') = 0
    BY <2>2, EmptySeq
  <2> QED
    BY <2>2, <2>6, <2>7 DEF Genuine
<1>7. ASSUME NEW from \in Starts, ListBegin(from) PROVE Genuine'
  BY <1>1, <1>4, <1>7 DEF ListBegin, Steps
<1>8. CASE (\E w \in Writes : WriteStep(w)) \/ UNCHANGED vars
  BY <1>3, <1>8 DEF WriteStep, WriteBegin, WriteFails, WriteApply, WriteReply, vars
<1>9. CASE ListEnd \/ ListError \/ \E s \in Stores : ListFails(s)
  <2>1. list'.from = list.from /\ tabs' = tabs /\ shown' = shown
    BY <1>1, <1>9, Typed DEF ListEnd, ListError, ListFails
  <2> QED
    BY <1>3, <2>1
<1> QED
  BY <1>5, <1>6, <1>7, <1>8, <1>9 DEF Next, ListStep

(* A listing invents nothing: a key that was printed is past where the     *)
(* listing began, and some store has it, at any time later.                *)
THEOREM ListingShowsWhatIsHeld ==
    Spec => [](\A k \in Shown : list.from < k /\ \E s \in Stores : k \in Present(s))
<1>1. Init => Genuine
  <2>1. Init => Len(tabs) = 0 /\ Len(shown) = 0
    BY EmptySeq DEF Init
  <2> QED
    BY <2>1 DEF Genuine
<1>2. IInv /\ Genuine /\ [Next]_vars => Genuine'
  BY GenuineStep
<1>3. IInv /\ Genuine => \A k \in Shown : list.from < k /\ \E s \in Stores : k \in Present(s)
  <2> SUFFICES ASSUME IInv, Genuine, NEW k \in Shown
               PROVE  list.from < k /\ \E s \in Stores : k \in Present(s)
    OBVIOUS
  <2>1. Member(k, shown)
    BY ShownIs DEF IInv
  <2> QED
    BY <2>1 DEF Genuine, Held, Member
<1> QED
  BY <1>1, <1>2, <1>3, Invariance, PTL DEF Spec
=============================================================================
