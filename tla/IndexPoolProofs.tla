---------------------------- MODULE IndexPoolProofs ----------------------------
(* Theorems about IndexPool, for any number of clients and of callers.     *)
EXTENDS IndexPool, FiniteSetTheorems, SequenceTheorems, TLAPS

(* What makes the two invariants of the pool inductive: a caller that      *)
(* found no permission tells that none is left, and none ever comes back.  *)
NoTokenLeft ==
    \A c \in Callers : pc[c] \in {"select", "wait"} => remaining = {}

IInv == TypeOK /\ EachClientOnce /\ NobodyWaitsForNothing /\ NoTokenLeft

-----------------------------------------------------------------------------
(* Taking one member out of a sequence moves the next ones one place down. *)
LEMMA RemoveOne ==
    ASSUME NEW S, NEW q \in Seq(S), NEW i \in 1 .. Len(q)
    PROVE  /\ RemoveAt(q, i) \in Seq(S)
           /\ Len(RemoveAt(q, i)) = Len(q) - 1
           /\ \A j \in 1 .. Len(q) - 1 :
                  RemoveAt(q, i)[j] = IF j < i THEN q[j] ELSE q[j + 1]
<1> DEFINE f == SubSeq(q, 1, i - 1)
           g == SubSeq(q, i + 1, Len(q))
<1>1. /\ Len(q) \in Nat
      /\ i \in Nat \ {0}
      /\ f \in Seq(S) /\ Len(f) = i - 1
      /\ \A j \in 1 .. i - 1 : f[j] = q[j]
  BY SubSeqProperties, LenProperties
<1>2. /\ g \in Seq(S) /\ Len(g) = Len(q) - i
      /\ \A j \in 1 .. Len(q) - i : g[j] = q[j + i]
  BY <1>1
<1> HIDE DEF f, g
<1>3. /\ f \o g \in Seq(S)
      /\ Len(f \o g) = Len(q) - 1
      /\ \A j \in 1 .. Len(q) - 1 :
             (f \o g)[j] = IF j <= Len(f) THEN f[j] ELSE g[j - Len(f)]
  BY <1>1, <1>2, ConcatProperties
<1>4. ASSUME NEW j \in 1 .. Len(q) - 1
      PROVE  (f \o g)[j] = IF j < i THEN q[j] ELSE q[j + 1]
  <2>1. CASE j < i
    BY <1>1, <1>3, <2>1
  <2>2. CASE ~(j < i)
    <3>1. j - (i - 1) \in 1 .. Len(q) - i
      BY <1>1, <2>2
    <3>2. j - (i - 1) + i = j + 1
      BY <1>1
    <3> QED
      BY <1>1, <1>2, <1>3, <2>2, <3>1, <3>2
  <2> QED
    BY <2>1, <2>2
<1> QED
  BY <1>3, <1>4 DEF f, g, RemoveAt

Distinct(q) == \A i, j \in 1 .. Len(q) : q[i] = q[j] => i = j

In(x, q) == \E i \in 1 .. Len(q) : q[i] = x

(* A parked caller that gives up leaves the others as they were.           *)
LEMMA RemoveKeepsQueue ==
    ASSUME NEW S, NEW q \in Seq(S), NEW i \in 1 .. Len(q), Distinct(q)
    PROVE  /\ Distinct(RemoveAt(q, i))
           /\ \A x : In(x, RemoveAt(q, i)) <=> In(x, q) /\ x # q[i]
<1> DEFINE r == RemoveAt(q, i)
<1>1. /\ Len(q) \in Nat /\ Len(r) = Len(q) - 1
      /\ \A j \in 1 .. Len(q) - 1 : r[j] = IF j < i THEN q[j] ELSE q[j + 1]
  BY RemoveOne, LenProperties
<1> HIDE DEF r
<1>2. Distinct(r)
  BY <1>1 DEF Distinct
<1>3. ASSUME NEW x, In(x, r) PROVE In(x, q) /\ x # q[i]
  <2>1. PICK j \in 1 .. Len(q) - 1 : r[j] = x
    BY <1>1, <1>3 DEF In
  <2>2. CASE j < i
    BY <1>1, <2>1, <2>2 DEF In, Distinct
  <2>3. CASE ~(j < i)
    <3>1. j + 1 \in 1 .. Len(q) /\ j + 1 # i /\ q[j + 1] = x
      BY <1>1, <2>1, <2>3
    <3> QED
      BY <3>1 DEF In, Distinct
  <2> QED
    BY <2>2, <2>3
<1>4. ASSUME NEW x, In(x, q), x # q[i] PROVE In(x, r)
  <2>1. PICK j \in 1 .. Len(q) : q[j] = x
    BY <1>4 DEF In
  <2>2. CASE j < i
    BY <1>1, <2>1, <2>2 DEF In
  <2>3. CASE j > i
    <3>1. j - 1 \in 1 .. Len(q) - 1 /\ r[j - 1] = q[(j - 1) + 1]
      BY <1>1, <2>3
    <3>2. (j - 1) + 1 = j
      OBVIOUS
    <3> QED
      BY <1>1, <2>1, <3>1, <3>2 DEF In
  <2> QED
    BY <1>4, <2>1, <2>2, <2>3
<1> QED
  BY <1>2, <1>3, <1>4 DEF r

(* Neither does the first of them, when it is served.                      *)
LEMMA TailKeepsQueue ==
    ASSUME NEW S, NEW q \in Seq(S), q # <<>>, Distinct(q)
    PROVE  /\ Tail(q) \in Seq(S)
           /\ Head(q) \in S /\ In(Head(q), q)
           /\ Distinct(Tail(q))
           /\ \A x : In(x, Tail(q)) <=> In(x, q) /\ x # Head(q)
<1> DEFINE r == Tail(q)
<1>1. /\ r \in Seq(S) /\ Len(r) = Len(q) - 1
      /\ \A j \in 1 .. Len(q) - 1 : r[j] = q[j + 1]
      /\ Len(q) \in Nat /\ Len(q) # 0
      /\ Head(q) \in S /\ Head(q) = q[1]
  BY HeadTailProperties, LenProperties, EmptySeq
<1> HIDE DEF r
<1>2. Distinct(r)
  BY <1>1 DEF Distinct
<1>3. ASSUME NEW x, In(x, r) PROVE In(x, q) /\ x # Head(q)
  <2>1. PICK j \in 1 .. Len(q) - 1 : r[j] = x
    BY <1>1, <1>3 DEF In
  <2>2. j + 1 \in 1 .. Len(q) /\ j + 1 # 1 /\ q[j + 1] = x
    BY <1>1, <2>1
  <2> QED
    BY <1>1, <2>2 DEF In, Distinct
<1>4. ASSUME NEW x, In(x, q), x # Head(q) PROVE In(x, r)
  <2>1. PICK j \in 1 .. Len(q) : q[j] = x
    BY <1>4 DEF In
  <2>2. j - 1 \in 1 .. Len(q) - 1 /\ (j - 1) + 1 = j
    BY <1>1, <1>4, <2>1
  <2> QED
    BY <1>1, <2>1, <2>2 DEF In
<1>5. In(Head(q), q)
  BY <1>1 DEF In
<1> QED
  BY <1>1, <1>2, <1>3, <1>4, <1>5 DEF r

-----------------------------------------------------------------------------
(* All the permissions are left, and nobody waits.                         *)
LEMMA Initial == Init => IInv
BY ClientsAssumption DEF Init, IInv, TypeOK, EachClientOnce, Holds,
                         NobodyWaitsForNothing, NoTokenLeft

(* The invariant is kept by every action of the pool, one step each.       *)
LEMMA Inductive == IInv /\ [Next]_vars => IInv'
<1> SUFFICES ASSUME IInv, [Next]_vars PROVE IInv'
  OBVIOUS
<1> USE ClientsAssumption, CallersAssumption
<1> USE DEF IInv, TypeOK, EachClientOnce, Holds, NobodyWaitsForNothing, NoTokenLeft
<1>1. ASSUME NEW c \in Callers, NEW k \in Clients, TakeIdle(c, k) PROVE IInv'
  BY <1>1 DEF TakeIdle
<1>2. ASSUME NEW c \in Callers, FindNoIdle(c) PROVE IInv'
  BY <1>2 DEF FindNoIdle
<1>3. ASSUME NEW c \in Callers, NEW k \in Clients, TakeToken(c, k) PROVE IInv'
  BY <1>3 DEF TakeToken
<1>4. ASSUME NEW c \in Callers, FindNoToken(c) PROVE IInv'
  BY <1>4 DEF FindNoToken
<1>5. ASSUME NEW c \in Callers, Dial(c) PROVE IInv'
  BY <1>5 DEF Dial
<1>6. ASSUME NEW c \in Callers, DialFails(c) PROVE IInv'
  BY <1>6 DEF DialFails
<1>7. ASSUME NEW c \in Callers, NEW k \in Clients, SelectIdle(c, k) PROVE IInv'
  BY <1>7 DEF SelectIdle
<1>8. ASSUME NEW c \in Callers, Park(c) PROVE IInv'
  BY <1>8 DEF Park
<1>9. ASSUME NEW c \in Callers, GiveUp(c) PROVE IInv'
  BY <1>9 DEF GiveUp
<1>10. ASSUME NEW c \in Callers, NEW i \in 1 .. Len(queue), GiveUpParked(c, i) PROVE IInv'
  <2>1. /\ queue' = RemoveAt(queue, i) /\ queue[i] = c /\ queue # <<>>
        /\ pc[c] = "wait" /\ pc' = [pc EXCEPT ![c] = "idle"]
        /\ UNCHANGED <<client, pool, remaining, lost>>
    BY <1>10, EmptySeq DEF GiveUpParked
  <2>2. /\ queue' \in Seq(Callers)
        /\ Distinct(queue')
        /\ \A d \in Callers : In(d, queue') <=> In(d, queue) /\ d # c
    <3>1. queue \in Seq(Callers) /\ Distinct(queue)
      BY DEF Distinct
    <3> QED
      BY ONLY <2>1, <3>1, i \in 1 .. Len(queue), RemoveOne, RemoveKeepsQueue
  <2>3. TypeOK' /\ EachClientOnce' /\ NoTokenLeft'
    BY <2>1, <2>2
  <2>4. NobodyWaitsForNothing'
    BY <2>1, <2>2 DEF Distinct, In
  <2> QED
    BY <2>3, <2>4
<1>11. ASSUME NEW c \in Callers, ReleaseIdle(c) PROVE IInv'
  BY <1>11 DEF ReleaseIdle
<1>12. ASSUME NEW c \in Callers, ReleaseToWaiter(c) PROVE IInv'
  <2> DEFINE h == Head(queue)
  <2>1. /\ queue' = Tail(queue) /\ queue # <<>> /\ pc[c] = "use"
        /\ client' = [client EXCEPT ![h] = client[c], ![c] = None]
        /\ pc' = [pc EXCEPT ![h] = "use", ![c] = "idle"]
        /\ UNCHANGED <<pool, remaining, lost>>
    BY <1>12 DEF ReleaseToWaiter
  <2>2. /\ queue' \in Seq(Callers) /\ h \in Callers /\ In(h, queue)
        /\ Distinct(queue')
        /\ \A d \in Callers : In(d, queue') <=> In(d, queue) /\ d # h
    BY <2>1, TailKeepsQueue DEF Distinct
  <2> HIDE DEF h
  <2>3. pc[h] = "wait" /\ h # c /\ client[h] = None
    BY <2>1, <2>2 DEF In
  <2>4. TypeOK' /\ NoTokenLeft'
    BY <2>1, <2>2, <2>3
  <2>5. EachClientOnce'
    <3>1. client' = [d \in Callers |-> IF d = c THEN None
                                      ELSE IF d = h THEN client[c] ELSE client[d]]
      BY <2>1, <2>2, <2>3
    <3>2. \A d \in Callers : Holds(d)' <=> d # c /\ (d = h \/ Holds(d))
      BY <2>1, <2>2, <2>3
    <3>3. client[c] \in Clients
      BY <2>1
    <3>4. (\A d \in Callers : client[d] # None <=> Holds(d))'
      BY <2>3, <3>1, <3>2, <3>3
    <3>5. (\A d, e \in Callers : Holds(d) /\ client[d] = client[e] => d = e)'
      BY <2>1, <2>3, <3>1, <3>2, <3>3
    <3>6. (\A d \in Callers : client[d] \notin pool \cup remaining \cup lost)'
      BY <2>1, <3>1, <3>3
    <3>7. (\A k \in Clients \ (pool \cup remaining \cup lost) :
               \E d \in Callers : client[d] = k)'
      BY <2>1, <2>2, <2>3, <3>1
    <3> QED
      BY <2>1, <3>4, <3>5, <3>6, <3>7
  <2>6. NobodyWaitsForNothing'
    BY <2>1, <2>2, <2>3 DEF Distinct, In
  <2> QED
    BY <2>4, <2>5, <2>6
<1>13. CASE UNCHANGED vars
  BY <1>13 DEF vars
<1> QED
  BY <1>1, <1>2, <1>3, <1>4, <1>5, <1>6, <1>7, <1>8, <1>9, <1>10, <1>11, <1>12, <1>13 DEF Next, Begin, Continue

(* The invariant holds in every reachable state.                           *)
LEMMA Invariance == Spec => []IInv
BY Initial, Inductive, PTL DEF Spec

-----------------------------------------------------------------------------
(* The variables of the pool keep their types.                             *)
THEOREM TypeCorrect == Spec => []TypeOK
BY Invariance, PTL DEF IInv

(* However many goroutines share the pooled client, a client serves one    *)
(* call at a time, and each of the permissions of DialIndexPooled is       *)
(* accounted for: left, idle, in use or lost by a failed dial.             *)
THEOREM ClientsConserved == Spec => []EachClientOnce
BY Invariance, PTL DEF IInv

(* acquire() makes nobody wait while a client is idle or may be dialed.    *)
THEOREM WaitingIsJustified == Spec => []NobodyWaitsForNothing
BY Invariance, PTL DEF IInv

(* release() never waits for a place in the channel pool.                  *)
THEOREM ReleaseIsImmediate == Spec => []ReleaseNeverBlocks
<1>1. ASSUME IInv PROVE ReleaseNeverBlocks
  <2> SUFFICES ASSUME NEW c \in Callers, pc[c] = "use"
               PROVE  Cardinality(pool) < Cardinality(Clients)
    BY DEF ReleaseNeverBlocks
  <2>1. client[c] \in Clients /\ pool \subseteq Clients /\ client[c] \notin pool
    BY <1>1 DEF IInv, TypeOK, EachClientOnce, Holds
  <2>2. IsFiniteSet(Clients)
    BY ClientsAssumption
  <2>3. /\ IsFiniteSet(pool)
        /\ Cardinality(pool) <= Cardinality(Clients)
        /\ Cardinality(Clients) = Cardinality(pool) => Clients = pool
    BY <2>1, <2>2, FS_Subset
  <2>4. Cardinality(Clients) \in Nat /\ Cardinality(pool) \in Nat
    BY <2>2, <2>3, FS_CardinalityType
  <2> QED
    BY <2>1, <2>3, <2>4
<1> QED
  BY <1>1, Invariance, PTL
=============================================================================
