-------------------------- MODULE IndexReplicasProofs --------------------------
(***************************************************************************)
(* The proofs about IndexReplicas, for every set of stores, of sessions    *)
(* and of commands.                                                        *)
(*                                                                         *)
(* Progress ties the calls to the lines their sessions have begun, Logged  *)
(* the logs to the calls still pending, and LogOrder the order of a log to *)
(* the order of the calls.  FirstIsThere says that a seek ends: without it *)
(* nothing is known of what the iterator returns.                          *)
(***************************************************************************)
EXTENDS IndexReplicas, KeysProofs

(* The calls begin in the order of the lines, and wait while they run      *)
Progress ==
    /\ \A p \in Sessions : sess[p].at <= Len(script[p].lines)
    /\ \A c \in Calls :
        /\ c[2] > sess[c[1]].at <=> call[c].st = "new"
        /\ call[c].st = "new" => call[c] = New
        /\ call[c].st # "run" => call[c].waiting = {}
        /\ ~ IsWrite(c) => call[c].pend = {}

(* What is logged is a write that was sent, and is not pending any more    *)
Logged ==
    \A s \in Stores : \A c \in Executed(s) :
        IsWrite(c) /\ call[c].st # "new" /\ s \notin call[c].pend

(* Each Get whose key has no comma in its base, as GetFindsAcked, while it *)
(* runs                                                                    *)
NotDenied ==
    \A g \in Calls : ~ IsWrite(g) =>
        \A c \in before[g] :
            /\ call[c].st \in {"ok", "error"}
            /\ IsWrite(c) /\ KeyOf(c) = KeyOf(g) /\ CommaFree(KeyOf(c).base)
               => (call[c].told \ crashed) \cap call[g].denied = {}

(* A log keeps the order of the calls: what a store acknowledged before    *)
(* another call began is before it in the log, and is not executed again   *)
LogOrder ==
    /\ \A d \in Calls : \A c \in before[d] : call[c].st \in {"ok", "error"}
    /\ \A c \in Calls : call[c].told \cap call[c].pend = {}
    /\ \A s \in Stores : \A i, j \in DOMAIN log[s] :
           log[s][i] \in before[log[s][j]] /\ s \in call[log[s][i]].told => i < j

IInv ==
    /\ TypeOK /\ Progress /\ Logged /\ LogOrder
    /\ AckedIsLoggedOnce /\ NotDenied /\ GetReadsItsKey

-----------------------------------------------------------------------------
(* The order of the keys.                                                  *)

(* In a finite set of texts there is a first one.                          *)
LEMMA FirstIsThere ==
    ASSUME NEW S, S \subseteq Text, IsFiniteSet(S), S # {}
    PROVE  FirstOf(S) \in S /\ \A j \in S : j = FirstOf(S) \/ Less(FirstOf(S), j)
<1> DEFINE Under(k) == {j \in S : Less(j, k)}
           T == {Cardinality(Under(k)) : k \in S}
<1>1. \A k \in S : IsFiniteSet(Under(k)) /\ Cardinality(Under(k)) \in Nat
  BY FS_Subset, FS_CardinalityType
<1>2. PICK k \in S : \A j \in S : Cardinality(Under(k)) <= Cardinality(Under(j))
  <2>1. T \subseteq Nat /\ T # {}
    BY <1>1
  <2>2. PICK x \in T : \A y \in T : x <= y
    <3> HIDE DEF T
    <3> QED
      BY <2>1, Smallest
  <2> QED
    BY <2>2
<1>3. ASSUME NEW j \in S, Less(j, k) PROVE FALSE
  <2>1. Under(j) \subseteq Under(k)
    BY <1>3, LessIsTransitive
  <2>2. j \in Under(k) /\ j \notin Under(j)
    BY <1>3, TextsAreOrdered
  <2>3. Cardinality(Under(j)) < Cardinality(Under(k))
    <3> HIDE DEF Under
    <3>1. Cardinality(Under(j)) <= Cardinality(Under(k)) /\ Under(j) # Under(k)
      BY <1>1, <2>1, <2>2, FS_Subset
    <3>2. Cardinality(Under(j)) # Cardinality(Under(k))
      BY <1>1, <2>1, <3>1, FS_Subset
    <3> QED
      BY <1>1, <3>1, <3>2
  <2> QED
    BY <1>1, <1>2, <2>3
<1>4. \A j \in S : j = k \/ Less(k, j)
  BY <1>3, TextsAreOrdered
<1> QED
  BY <1>4 DEF FirstOf

(* A set of places of a log has a last one.                                *)
LEMMA LastIsThere ==
    ASSUME NEW n \in Nat, NEW P, P \subseteq 1 .. n, P # {}
    PROVE  \E i \in P : \A j \in P : j <= i
<1> DEFINE T == {n - i : i \in P}
<1>1. T \subseteq Nat /\ T # {}
  OBVIOUS
<1>2. PICK x \in T : \A y \in T : x <= y
  <2> HIDE DEF T
  <2> QED
    BY <1>1, Smallest
<1>3. PICK i \in P : x = n - i
  BY <1>2
<1>4. \A j \in P : n - i <= n - j
  BY <1>2, <1>3
<1> QED
  BY <1>3, <1>4

-----------------------------------------------------------------------------
(* What is in a DB.                                                        *)

(* The keys of a DB are those of the writes its store executed; under each *)
(* there is the last of these writes.                                      *)
LEMMA DbHolds ==
    ASSUME NEW s \in Stores, log[s] \in Seq(Calls),
           \A c \in Executed(s) : KeyOf(c) \in BaseKey
    PROVE  /\ DOMAIN Db(s) = {Encode(KeyOf(c)) : c \in Executed(s)}
           /\ DOMAIN Db(s) \subseteq Text
           /\ IsFiniteSet(DOMAIN Db(s))
           /\ \A k \in DOMAIN Db(s) :
                Db(s)[k] \in Executed(s) /\ Encode(KeyOf(Db(s)[k])) = k
           /\ \A k \in DOMAIN Db(s) : \E i \in DOMAIN log[s] :
                /\ Db(s)[k] = log[s][i]
                /\ \A j \in DOMAIN log[s] : Encode(KeyOf(log[s][j])) = k => j <= i
<1> DEFINE w == log[s]
           D == DOMAIN w
           key(i) == Encode(KeyOf(w[i]))
           Last(k) == CHOOSE i \in D : key(i) = k /\ \A j \in D : key(j) = k => j <= i
           K == {key(i) : i \in D}
<1>1. Len(w) \in Nat /\ D = 1 .. Len(w)
  BY LenProperties
<1>2. Db(s) = [k \in K |-> w[Last(k)]]
  BY DEF Db
<1>3. K = {Encode(KeyOf(c)) : c \in Executed(s)} /\ K \subseteq Text
  BY EncodeIsText DEF Executed
<1>4. IsFiniteSet(K)
  <2>1. IsFiniteSet(D)
    BY <1>1, FS_Interval
  <2> DEFINE f == [i \in D |-> key(i)]
  <2>2. f \in Surjection(D, K)
    BY DEF Surjection
  <2> HIDE DEF f, K
  <2> QED
    BY <2>1, <2>2, FS_Surjection
<1>5. ASSUME NEW k \in K
      PROVE  /\ Last(k) \in D /\ key(Last(k)) = k
             /\ \A j \in D : key(j) = k => j <= Last(k)
  <2> DEFINE P == {i \in D : key(i) = k}
  <2>1. P \subseteq 1 .. Len(w) /\ P # {}
    BY <1>1
  <2>2. PICK i \in P : \A j \in P : j <= i
    <3> HIDE DEF P
    <3> QED
      BY <1>1, <2>1, LastIsThere
  <2> QED
    BY <2>2
<1> HIDE DEF K, Last
<1>6. DOMAIN Db(s) = K /\ \A k \in K : Db(s)[k] = w[Last(k)]
  BY <1>2
<1>7. \A k \in K : w[Last(k)] \in Executed(s) /\ Encode(KeyOf(w[Last(k)])) = k
  BY <1>5 DEF Executed
<1>8. ASSUME NEW k \in K
      PROVE  \E i \in DOMAIN log[s] :
                /\ Db(s)[k] = log[s][i]
                /\ \A j \in DOMAIN log[s] : Encode(KeyOf(log[s][j])) = k => j <= i
  BY <1>5, <1>6
<1> QED
  BY <1>3, <1>4, <1>6, <1>7, <1>8

(* A Get of a store finds what is under the encoded key, if the encoding   *)
(* is read back as the key; the iterator stops nowhere else.               *)
LEMMA SeekIs ==
    ASSUME NEW s \in Stores, log[s] \in Seq(Calls), NEW bk \in BaseKey,
           \A c \in Executed(s) : KeyOf(c) \in BaseKey
    PROVE  StoreGet(Db(s), bk) =
               IF Encode(bk) \in DOMAIN Db(s) /\ Decode(Encode(bk)) = bk
               THEN Db(s)[Encode(bk)] ELSE None
<1> DEFINE e == Encode(bk)
           past == {k \in DOMAIN Db(s) : ~ Less(k, e)}
<1>1. StoreGet(Db(s), bk) =
        IF past = {} \/ Decode(FirstOf(past)) # bk THEN None ELSE Db(s)[FirstOf(past)]
  BY DEF StoreGet
<1>2. past \subseteq Text /\ IsFiniteSet(past) /\ past \subseteq DOMAIN Db(s) /\ e \in Text
  BY DbHolds, EncodeIsText, FS_Subset
<1>3. past # {} => /\ FirstOf(past) \in past
                   /\ \A j \in past : j = FirstOf(past) \/ Less(FirstOf(past), j)
  <2> HIDE DEF past
  <2> QED
    BY <1>2, FirstIsThere
<1>4. ASSUME e \in DOMAIN Db(s) PROVE past # {} /\ FirstOf(past) = e
  <2>1. e \in past
    BY <1>2, <1>4, TextsAreOrdered
  <2>2. ~ Less(FirstOf(past), e)
    BY <1>3, <2>1
  <2> QED
    BY <1>3, <2>1, <2>2
<1>5. ASSUME past # {}, Decode(FirstOf(past)) = bk PROVE e \in DOMAIN Db(s)
  <2> DEFINE k == FirstOf(past)
  <2>1. k \in DOMAIN Db(s) /\ k \in Text
    BY <1>2, <1>3, <1>5
  <2>2. PICK c \in Executed(s) : k = Encode(KeyOf(c))
    <3> HIDE DEF past
    <3> QED
      BY <2>1, DbHolds
  <2>3. KeyOf(c).base \in Text /\ KeyOf(c).key \in Text
        /\ KeyOf(c) = BK(KeyOf(c).base, KeyOf(c).key)
    BY DEF BaseKey, BK
  <2>4. ~ CommaFree(k)
    BY <2>2, <2>3, EncodeHasComma
  <2>5. Encode(Decode(k)) = k
    <3> HIDE DEF past
    <3> QED
      BY <2>1, <2>4, DecodedIsWrittenBack
  <2> QED
    BY <1>5, <2>1, <2>5
<1> HIDE DEF past, e
<1> QED
  BY <1>1, <1>4, <1>5 DEF e

(* A Get of a store finds a write of its log, whose key was read as the    *)
(* key it looks for, and finds one if there is one.                        *)
LEMMA SeekFinds ==
    ASSUME NEW s \in Stores, log[s] \in Seq(Calls), NEW bk \in BaseKey,
           \A c \in Executed(s) : KeyOf(c) \in BaseKey,
           NEW w, w = StoreGet(Db(s), bk)
    PROVE  /\ w = None \/ (w \in Executed(s) /\ Decode(Encode(KeyOf(w))) = bk)
           /\ CommaFree(bk.base) /\ (\E c \in Executed(s) : KeyOf(c) = bk)
              => w \in Executed(s)
<1>1. w = IF Encode(bk) \in DOMAIN Db(s) /\ Decode(Encode(bk)) = bk
          THEN Db(s)[Encode(bk)] ELSE None
  BY SeekIs
<1>2. CommaFree(bk.base) => Decode(Encode(bk)) = bk
  BY KeyRoundTrip
<1>3. /\ DOMAIN Db(s) = {Encode(KeyOf(c)) : c \in Executed(s)}
      /\ \A k \in DOMAIN Db(s) : Db(s)[k] \in Executed(s) /\ Encode(KeyOf(Db(s)[k])) = k
  BY DbHolds
<1>4. CASE Encode(bk) \in DOMAIN Db(s) /\ Decode(Encode(bk)) = bk
  BY <1>1, <1>3, <1>4
<1>5. CASE ~ (Encode(bk) \in DOMAIN Db(s) /\ Decode(Encode(bk)) = bk)
  BY <1>1, <1>2, <1>3, <1>5
<1> QED
  BY <1>4, <1>5

-----------------------------------------------------------------------------
(* The steps.                                                              *)

(* The calls that have begun are about keys, and so are those in the logs. *)
LEMMA Keyed ==
    ASSUME TypeOK, Progress, Logged
    PROVE  /\ \A c \in Calls : call[c].st # "new" => KeyOf(c) \in BaseKey
           /\ \A s \in Stores : \A c \in Executed(s) : c \in Calls /\ KeyOf(c) \in BaseKey
<1>1. ASSUME NEW c \in Calls, call[c].st # "new" PROVE KeyOf(c) \in BaseKey
  <2>1. /\ c[1] \in Sessions /\ c[2] \in 1 .. MaxLines /\ script \in Plans
        /\ script[c[1]].lines \in Seq(BaseKey) /\ sess[c[1]].at \in 0 .. MaxLines
    BY PlansAssumption DEF TypeOK, Calls
  <2>2. c[2] \in 1 .. Len(script[c[1]].lines)
    BY <1>1, <2>1, PlansAssumption, LenProperties DEF Progress
  <2> QED
    BY <2>1, <2>2, ElementOfSeq DEF KeyOf
<1>2. \A s \in Stores : \A c \in Executed(s) : c \in Calls
  BY DEF TypeOK, Executed
<1> QED
  BY <1>1, <1>2 DEF Logged

(* A step keeps the commands.                                              *)
LEMMA ScriptStays == [Next]_vars => script' = script
<1>1. \A p \in Sessions, T \in SUBSET Stores : Begin(p, T) => script' = script
  BY DEF Begin
<1>2. ASSUME NEW c \in Calls, CallStep(c) PROVE script' = script
  <2>1. Reply(c) => script' = script
    BY DEF Reply
  <2>2. \A s \in Stores : Execute(c, s) \/ Answer(c, s) \/ Fail(c, s) => script' = script
    BY DEF Execute, Answer, Fail
  <2> QED
    BY <1>2, <2>1, <2>2 DEF CallStep
<1>3. \A s \in Stores : Crash(s) => script' = script
  BY DEF Crash
<1> QED
  BY <1>1, <1>2, <1>3 DEF Next, vars

(* What a store answers to a Get that runs.                                *)
LEMMA Answered ==
    ASSUME TypeOK, Progress, Logged, NEW c \in Calls, NEW s \in Stores,
           s \in call[c].waiting, NEW w, w = StoreGet(Db(s), KeyOf(c))
    PROVE  /\ call[c].st = "run" /\ KeyOf(c) \in BaseKey
           /\ w = None \/ (/\ w \in Executed(s) /\ w \in Calls
                           /\ Decode(Encode(KeyOf(w))) = KeyOf(c))
           /\ CommaFree(KeyOf(c).base) /\ (\E d \in Executed(s) : KeyOf(d) = KeyOf(c))
              => w # None
<1>1. call[c].st = "run"
  BY DEF Progress
<1>2. KeyOf(c) \in BaseKey /\ \A d \in Executed(s) : d \in Calls /\ KeyOf(d) \in BaseKey
  BY <1>1, Keyed
<1>3. log[s] \in Seq(Calls)
  BY DEF TypeOK
<1>4. None \notin Calls
  BY NoneAssumption DEF Calls
<1>5. /\ w = None \/ (w \in Executed(s) /\ Decode(Encode(KeyOf(w))) = KeyOf(c))
      /\ CommaFree(KeyOf(c).base) /\ (\E d \in Executed(s) : KeyOf(d) = KeyOf(c))
         => w \in Executed(s)
  BY <1>2, <1>3, SeekFinds
<1> QED
  BY <1>1, <1>2, <1>4, <1>5

(* The fields of a call that the stores and the gates change keep types.   *)
LEMMA CallKeepsType ==
    ASSUME NEW r \in CallType,
           NEW waiting \in SUBSET Stores, NEW pend \in SUBSET Stores,
           NEW told \in SUBSET Stores, NEW denied \in SUBSET Stores, NEW saw \in SUBSET Calls
    PROVE  /\ [r EXCEPT !.waiting = waiting] \in CallType
           /\ [r EXCEPT !.pend = pend, !.waiting = waiting, !.told = told] \in CallType
           /\ [r EXCEPT !.waiting = waiting, !.told = told, !.denied = denied, !.saw = saw]
                \in CallType
<1> DEFINE PS == SUBSET Stores
           PC == SUBSET Calls
           ST == {"new", "run", "ok", "error"}
           R == [st : ST, waiting : PS, pend : PS, told : PS, denied : PS, saw : PC]
<1>1. r \in R /\ R = CallType
  BY DEF CallType
<1>2. waiting \in PS /\ pend \in PS /\ told \in PS /\ denied \in PS /\ saw \in PC
  OBVIOUS
<1> HIDE DEF PS, PC, ST
<1>3. /\ [r EXCEPT !.waiting = waiting] \in R
      /\ [r EXCEPT !.pend = pend, !.waiting = waiting, !.told = told] \in R
      /\ [r EXCEPT !.waiting = waiting, !.told = told, !.denied = denied, !.saw = saw] \in R
  BY <1>1, <1>2
<1> QED
  BY <1>1, <1>3

(* The variables keep their types.                                         *)
LEMMA TypeStep == TypeOK /\ Progress /\ Logged /\ [Next]_vars => TypeOK'
<1> SUFFICES ASSUME TypeOK, Progress, Logged, [Next]_vars PROVE TypeOK'
  OBVIOUS
<1> USE DEF TypeOK
<1>0. CASE UNCHANGED vars
  BY <1>0 DEF vars
<1>1. ASSUME NEW p \in Sessions, NEW T \in SUBSET Stores, Begin(p, T) PROVE TypeOK'
  <2>1. /\ script \in Plans /\ Len(script[p].lines) \in 0 .. MaxLines /\ MaxLines \in Nat
        /\ sess[p].at \in 0 .. MaxLines
    BY PlansAssumption, LenProperties
  <2>2. sess[p].at + 1 \in 0 .. MaxLines
    BY <1>1, <2>1 DEF Begin
  <2>3. sess' \in [Sessions -> [st : {"run", "ok", "error"}, at : 0 .. MaxLines]]
    BY <1>1, <2>2 DEF Begin
  <2>4. call' \in [Calls -> CallType]
    BY <1>1 DEF Begin, New, CallType
  <2> QED
    BY <1>1, <2>3, <2>4 DEF Begin
<1>2. ASSUME NEW c \in Calls, Reply(c) PROVE TypeOK'
  <2>1. c[1] \in Sessions /\ call[c] \in CallType
    BY DEF Calls
  <2>2. PICK st \in {"ok", "error"}, ss \in {"run", "ok", "error"} :
            /\ call' = [call EXCEPT ![c].st = st]
            /\ sess' = [sess EXCEPT ![c[1]].st = ss]
            /\ UNCHANGED <<script, log, crashed, before>>
    BY <1>2 DEF Reply
  <2>3. [call[c] EXCEPT !.st = st] \in CallType
    BY <2>1 DEF CallType
  <2>4. [sess[c[1]] EXCEPT !.st = ss] \in [st : {"run", "ok", "error"}, at : 0 .. MaxLines]
    BY <2>1
  <2> QED
    BY <2>1, <2>2, <2>3, <2>4
<1>3. ASSUME NEW c \in Calls, NEW s \in Stores, Execute(c, s) PROVE TypeOK'
  <2>1. log[s] \in Seq(Calls) /\ Append(log[s], c) \in Seq(Calls)
    BY AppendProperties
  <2>2. PICK pend \in SUBSET Stores, waiting \in SUBSET Stores, told \in SUBSET Stores :
            /\ log' = [log EXCEPT ![s] = Append(@, c)]
            /\ call' = [call EXCEPT ![c].pend = pend, ![c].waiting = waiting, ![c].told = told]
            /\ UNCHANGED <<script, sess, crashed, before>>
    <3>1. call[c].pend \in SUBSET Stores /\ call[c].waiting \in SUBSET Stores
          /\ call[c].told \in SUBSET Stores
      BY DEF CallType
    <3> DEFINE pend == call[c].pend \ {s}
               waiting == call[c].waiting \ {s}
               told == IF s \in call[c].waiting THEN call[c].told \cup {s} ELSE call[c].told
    <3>2. pend \in SUBSET Stores /\ waiting \in SUBSET Stores /\ told \in SUBSET Stores
      BY <3>1
    <3> QED
      BY <1>3, <3>2 DEF Execute
  <2> DEFINE r == [call[c] EXCEPT !.pend = pend, !.waiting = waiting, !.told = told]
  <2>3. call' = [call EXCEPT ![c] = r]
    BY <2>2
  <2>4. call[c] \in CallType /\ {} \in SUBSET Stores /\ {} \in SUBSET Calls
    OBVIOUS
  <2>5. r \in CallType
    BY <2>4, CallKeepsType
  <2> HIDE DEF r
  <2> QED
    BY <2>1, <2>2, <2>3, <2>5
<1>4. ASSUME NEW c \in Calls, NEW s \in Stores, Answer(c, s) PROVE TypeOK'
  <2> DEFINE w == StoreGet(Db(s), KeyOf(c))
             waiting == call[c].waiting \ {s}
             told == IF w = None THEN call[c].told ELSE call[c].told \cup {s}
             denied == IF w = None THEN call[c].denied \cup {s} ELSE call[c].denied
             saw == IF w = None THEN call[c].saw ELSE call[c].saw \cup {w}
  <2>1. w = None \/ w \in Calls
    BY <1>4, Answered DEF Answer
  <2>2. /\ call' = [call EXCEPT ![c].waiting = waiting, ![c].told = told,
                                ![c].denied = denied, ![c].saw = saw]
        /\ UNCHANGED <<script, sess, log, crashed, before>>
    BY <1>4 DEF Answer
  <2>3. /\ waiting \in SUBSET Stores /\ told \in SUBSET Stores
        /\ denied \in SUBSET Stores /\ saw \in SUBSET Calls
    <3> HIDE DEF w
    <3> QED
      BY <2>1 DEF CallType
  <2> HIDE DEF w, waiting, told, denied, saw
  <2> DEFINE r == [call[c] EXCEPT !.waiting = waiting, !.told = told, !.denied = denied, !.saw = saw]
  <2>4. call' = [call EXCEPT ![c] = r]
    BY <2>2
  <2>5. call[c] \in CallType /\ {} \in SUBSET Stores
    OBVIOUS
  <2>6. r \in CallType
    BY <2>3, <2>5, CallKeepsType
  <2> HIDE DEF r
  <2>7. UNCHANGED <<script, sess, log, crashed, before>>
    BY <2>2
  <2> QED
    BY <2>4, <2>6, <2>7
<1>5. ASSUME NEW c \in Calls, NEW s \in Stores, Fail(c, s) PROVE TypeOK'
  <2>1. call[c].waiting \ {s} \in SUBSET Stores
    BY DEF CallType
  <2>2. call' = [call EXCEPT ![c] = [call[c] EXCEPT !.waiting = call[c].waiting \ {s}]]
    BY <1>5 DEF Fail
  <2>3. call[c] \in CallType /\ {} \in SUBSET Stores /\ {} \in SUBSET Calls
    OBVIOUS
  <2>4. [call[c] EXCEPT !.waiting = call[c].waiting \ {s}] \in CallType
    BY <2>1, <2>3, CallKeepsType
  <2> QED
    BY <1>5, <2>2, <2>4 DEF Fail
<1>6. ASSUME NEW s \in Stores, Crash(s) PROVE TypeOK'
  <2>1. PICK n \in 0 .. Len(log[s]) - 1 : /\ log' = [log EXCEPT ![s] = SubSeq(@, 1, n)]
                                          /\ crashed' = crashed \cup {s}
                                          /\ UNCHANGED <<script, sess, call, before>>
    BY <1>6 DEF Crash
  <2>2. log[s] \in Seq(Calls) /\ Len(log[s]) \in Nat
    BY LenProperties
  <2>3. \A i \in 1 .. n : log[s][i] \in Calls
    BY <2>2, ElementOfSeq
  <2>4. SubSeq(log[s], 1, n) \in Seq(Calls)
    BY <2>2, <2>3, SubSeqProperties
  <2> QED
    BY <2>1, <2>4
<1> QED
  BY <1>0, <1>1, <1>2, <1>3, <1>4, <1>5, <1>6 DEF Next, CallStep

(* What the calls and the logs are about does not change.                  *)
LEMMA SameCommands ==
    [Next]_vars => \A c \in Calls : IsWrite(c)' = IsWrite(c) /\ KeyOf(c)' = KeyOf(c)
BY ScriptStays DEF IsWrite, Cmd, KeyOf

(* What Begin does to the calls.                                           *)
LEMMA BeginDoes ==
    ASSUME TypeOK, Progress, NEW p \in Sessions, NEW T \in SUBSET Stores, Begin(p, T),
           NEW c, c = <<p, sess[p].at + 1>>
    PROVE  /\ c \in Calls /\ call[c].st = "new" /\ c[1] = p /\ c[2] = sess[p].at + 1
           /\ call'[c].st = "run" /\ call'[c].waiting = T
           /\ call'[c].pend = (IF IsWrite(c) THEN T ELSE {})
           /\ call'[c].told = {} /\ call'[c].denied = {} /\ call'[c].saw = {}
           /\ \A d \in Calls \ {c} : call'[d] = call[d] /\ before'[d] = before[d]
           /\ before'[c] = {d \in Calls : call[d].st \in {"ok", "error"}}
           /\ \A q \in Sessions : sess'[q].at = IF q = p THEN sess[p].at + 1 ELSE sess[q].at
           /\ sess[p].at + 1 <= Len(script[p].lines)
           /\ UNCHANGED <<script, log, crashed>>
<1> USE DEF TypeOK
<1>1. /\ script \in Plans /\ Len(script[p].lines) \in 0 .. MaxLines /\ MaxLines \in Nat
      /\ sess[p].at \in 0 .. MaxLines
  BY PlansAssumption, LenProperties
<1>2. /\ sess[p].at + 1 \in 1 .. MaxLines /\ sess[p].at + 1 <= Len(script[p].lines)
      /\ sess[p].at + 1 > sess[p].at
  BY <1>1 DEF Begin
<1>3. c \in Calls /\ c[1] = p /\ c[2] = sess[p].at + 1
  BY <1>2 DEF Calls
<1>4. call[c].st = "new"
  BY <1>2, <1>3 DEF Progress
<1>5. call' = [call EXCEPT ![c] = [New EXCEPT !.st = "run", !.waiting = T,
                                              !.pend = IF IsWrite(c) THEN T ELSE {}]]
  BY DEF Begin
<1>6. /\ before' = [before EXCEPT ![c] = {d \in Calls : call[d].st \in {"ok", "error"}}]
      /\ sess' = [sess EXCEPT ![p].at = sess[p].at + 1]
      /\ UNCHANGED <<script, log, crashed>>
  BY DEF Begin
<1> QED
  BY <1>2, <1>3, <1>4, <1>5, <1>6 DEF New

(* What Execute does to the calls and the logs.                            *)
LEMMA ExecuteDoes ==
    ASSUME TypeOK, NEW c \in Calls, NEW s \in Stores, Execute(c, s)
    PROVE  /\ s \in call[c].pend
           /\ \A d \in Calls \ {c} : call'[d] = call[d]
           /\ call'[c].st = call[c].st /\ call'[c].pend = call[c].pend \ {s}
           /\ call'[c].waiting = call[c].waiting \ {s}
           /\ call'[c].told =
                (IF s \in call[c].waiting THEN call[c].told \cup {s} ELSE call[c].told)
           /\ call'[c].denied = call[c].denied /\ call'[c].saw = call[c].saw
           /\ log' = [log EXCEPT ![s] = Append(@, c)]
           /\ UNCHANGED <<script, sess, crashed, before>>
BY DEF Execute, TypeOK, CallType

(* What Answer does to the calls, when the store finds w.                  *)
AnswerEffect(c, s, w) ==
    /\ w = StoreGet(Db(s), KeyOf(c))
    /\ call'[c].told = IF w = None THEN call[c].told ELSE call[c].told \cup {s}
    /\ call'[c].denied = IF w = None THEN call[c].denied \cup {s} ELSE call[c].denied
    /\ call'[c].saw = IF w = None THEN call[c].saw ELSE call[c].saw \cup {w}
    /\ s \in call[c].waiting /\ ~ IsWrite(c)
    /\ \A d \in Calls \ {c} : call'[d] = call[d]
    /\ call'[c].st = call[c].st /\ call'[c].pend = call[c].pend
    /\ call'[c].waiting = call[c].waiting \ {s}
    /\ UNCHANGED <<script, sess, log, crashed, before>>

(* Every answer is that of a w.                                            *)
LEMMA AnswerDoes ==
    ASSUME TypeOK, NEW c \in Calls, NEW s \in Stores, Answer(c, s)
    PROVE  \E w : AnswerEffect(c, s, w)
<1>1. PICK w : w = StoreGet(Db(s), KeyOf(c))
  OBVIOUS
<1>2. AnswerEffect(c, s, w)
  BY <1>1 DEF Answer, AnswerEffect, TypeOK, CallType
<1> QED
  BY <1>2

(* What Fail does to the calls.                                            *)
LEMMA FailDoes ==
    ASSUME TypeOK, NEW c \in Calls, NEW s \in Stores, Fail(c, s)
    PROVE  /\ s \in call[c].waiting
           /\ \A d \in Calls \ {c} : call'[d] = call[d]
           /\ call'[c].st = call[c].st /\ call'[c].pend = call[c].pend
           /\ call'[c].waiting = call[c].waiting \ {s}
           /\ call'[c].told = call[c].told /\ call'[c].denied = call[c].denied
           /\ call'[c].saw = call[c].saw
           /\ UNCHANGED <<script, sess, log, crashed, before>>
BY DEF Fail, TypeOK, CallType

(* What Reply does to a call.                                              *)
LEMMA ReplyDoes ==
    ASSUME TypeOK, NEW c \in Calls, Reply(c)
    PROVE  /\ call[c].st = "run" /\ call[c].waiting = {}
           /\ \A d \in Calls \ {c} : call'[d] = call[d]
           /\ call'[c].st = (IF call[c].told # {} THEN "ok" ELSE "error")
           /\ call'[c].pend = call[c].pend /\ call'[c].waiting = {}
           /\ call'[c].told = call[c].told /\ call'[c].denied = call[c].denied
           /\ call'[c].saw = call[c].saw
           /\ \A q \in Sessions : sess'[q].at = sess[q].at
           /\ UNCHANGED <<script, log, crashed, before>>
<1>1. c[1] \in Sessions
  BY DEF Calls
<1> QED
  BY <1>1 DEF Reply, TypeOK, CallType

-----------------------------------------------------------------------------
(* The calls begin in order.                                               *)
LEMMA ProgressStep == TypeOK /\ Progress /\ [Next]_vars => Progress'
<1> SUFFICES ASSUME TypeOK, Progress, [Next]_vars PROVE Progress'
  OBVIOUS
<1>0. /\ script' = script
      /\ \A c \in Calls : IsWrite(c)' = IsWrite(c)
      /\ \A c \in Calls : c[1] \in Sessions /\ c[2] \in Nat /\ c = <<c[1], c[2]>>
      /\ \A p \in Sessions : sess[p].at \in Nat
      /\ New.st = "new"
  BY ScriptStays, SameCommands DEF Calls, TypeOK, New
<1>1. CASE UNCHANGED vars
  BY <1>0, <1>1 DEF vars, Progress
<1>2. ASSUME NEW p \in Sessions, NEW T \in SUBSET Stores, Begin(p, T) PROVE Progress'
  <2> DEFINE c == <<p, sess[p].at + 1>>
  <2>1. /\ c \in Calls /\ c[1] = p /\ c[2] = sess[p].at + 1
        /\ call'[c].st = "run" /\ call'[c].pend = (IF IsWrite(c) THEN T ELSE {})
        /\ \A d \in Calls \ {c} : call'[d] = call[d]
        /\ \A q \in Sessions : sess'[q].at = IF q = p THEN sess[p].at + 1 ELSE sess[q].at
        /\ sess[p].at + 1 <= Len(script[p].lines)
    BY <1>2, BeginDoes
  <2>2. \A d \in Calls \ {c} : d[1] = p => d[2] # sess[p].at + 1
    BY <1>0
  <2> HIDE DEF c
  <2>3. \A d \in Calls : d[2] > sess'[d[1]].at <=> call'[d].st = "new"
    BY <1>0, <2>1, <2>2 DEF Progress
  <2> QED
    BY <1>0, <2>1, <2>3 DEF Progress
<1>3. ASSUME NEW c \in Calls, Reply(c) PROVE Progress'
  BY <1>0, <1>3, ReplyDoes DEF Progress
<1>4. ASSUME NEW c \in Calls, NEW s \in Stores, Execute(c, s) \/ Answer(c, s) \/ Fail(c, s)
      PROVE  Progress'
  <2>1. /\ \A d \in Calls \ {c} : call'[d] = call[d]
        /\ call'[c].st = call[c].st /\ call'[c].pend \subseteq call[c].pend
        /\ call'[c].waiting = call[c].waiting \ {s}
        /\ sess' = sess
        /\ s \in call[c].pend \/ s \in call[c].waiting
    BY <1>4, ExecuteDoes, AnswerDoes, FailDoes DEF AnswerEffect
  <2>2. call[c].st # "new"
    BY <2>1 DEF Progress, New
  <2> QED
    BY <1>0, <2>1, <2>2 DEF Progress
<1>5. ASSUME NEW s \in Stores, Crash(s) PROVE Progress'
  BY <1>0, <1>5 DEF Crash, Progress
<1> QED
  BY <1>1, <1>2, <1>3, <1>4, <1>5 DEF Next, CallStep

(* What Execute does to a log.                                             *)
LEMMA LogAppended ==
    ASSUME TypeOK, NEW c \in Calls, NEW s \in Stores, log' = [log EXCEPT ![s] = Append(@, c)]
    PROVE  /\ \A t \in Stores \ {s} : log'[t] = log[t] /\ Executed(t)' = Executed(t)
           /\ Executed(s)' = Executed(s) \cup {c}
           /\ Len(log[s]) \in Nat /\ DOMAIN log[s] = 1 .. Len(log[s])
           /\ DOMAIN log'[s] = 1 .. Len(log[s]) + 1
           /\ \A i \in 1 .. Len(log[s]) : log'[s][i] = log[s][i]
           /\ log'[s][Len(log[s]) + 1] = c
<1>1. log[s] \in Seq(Calls) /\ log'[s] = Append(log[s], c)
  BY DEF TypeOK
<1>2. /\ Len(log[s]) \in Nat /\ DOMAIN log[s] = 1 .. Len(log[s])
      /\ DOMAIN log'[s] = 1 .. Len(log[s]) + 1
      /\ \A i \in 1 .. Len(log[s]) : log'[s][i] = log[s][i]
      /\ log'[s][Len(log[s]) + 1] = c
  <2>1. Len(log[s]) \in Nat /\ DOMAIN log[s] = 1 .. Len(log[s])
    BY <1>1, LenProperties
  <2>2. log'[s] \in Seq(Calls) /\ Len(log'[s]) = Len(log[s]) + 1
    BY <1>1, AppendProperties
  <2>3. DOMAIN log'[s] = 1 .. Len(log'[s])
    BY <2>2, LenProperties
  <2>4. (\A i \in 1 .. Len(log[s]) : log'[s][i] = log[s][i]) /\ log'[s][Len(log[s]) + 1] = c
    BY <1>1, AppendProperties
  <2> QED
    BY <2>1, <2>2, <2>3, <2>4
<1>3. Executed(s)' = Executed(s) \cup {c}
  <2>1. 1 .. Len(log[s]) + 1 = 1 .. Len(log[s]) \cup {Len(log[s]) + 1}
    BY <1>2
  <2> QED
    BY <1>2, <2>1 DEF Executed
<1>4. \A t \in Stores \ {s} : log'[t] = log[t] /\ Executed(t)' = Executed(t)
  BY DEF TypeOK, Executed
<1> QED
  BY <1>2, <1>3, <1>4

(* What Crash does to a log.                                               *)
LEMMA LogCut ==
    ASSUME TypeOK, NEW s \in Stores, Crash(s)
    PROVE  /\ \A t \in Stores \ {s} : log'[t] = log[t] /\ Executed(t)' = Executed(t)
           /\ Executed(s)' \subseteq Executed(s)
           /\ DOMAIN log'[s] \subseteq DOMAIN log[s]
           /\ \A i \in DOMAIN log'[s] : log'[s][i] = log[s][i]
           /\ crashed' = crashed \cup {s}
           /\ UNCHANGED <<script, sess, call, before>>
<1>1. PICK n \in 0 .. Len(log[s]) - 1 : /\ log' = [log EXCEPT ![s] = SubSeq(@, 1, n)]
                                        /\ crashed' = crashed \cup {s}
                                        /\ UNCHANGED <<script, sess, call, before>>
  BY DEF Crash
<1>2. log[s] \in Seq(Calls) /\ log'[s] = SubSeq(log[s], 1, n)
  BY <1>1 DEF TypeOK
<1>3. Len(log[s]) \in Nat /\ DOMAIN log[s] = 1 .. Len(log[s])
  BY <1>2, LenProperties
<1>4. \A i \in 1 .. n : log[s][i] \in Calls
  BY <1>2, <1>3, ElementOfSeq
<1>5. /\ log'[s] \in Seq(Calls) /\ Len(log'[s]) = n
      /\ \A i \in 1 .. n : log'[s][i] = log[s][i]
  BY <1>2, <1>3, <1>4, SubSeqProperties
<1>6. DOMAIN log'[s] = 1 .. n /\ 1 .. n \subseteq DOMAIN log[s]
  BY <1>3, <1>5, LenProperties
<1>7. \A t \in Stores \ {s} : log'[t] = log[t] /\ Executed(t)' = Executed(t)
  BY <1>1 DEF TypeOK, Executed
<1>8. Executed(s)' \subseteq Executed(s)
  BY <1>5, <1>6 DEF Executed
<1> QED
  BY <1>1, <1>5, <1>6, <1>7, <1>8

(* What is logged was sent, once.                                          *)
LEMMA LoggedStep == TypeOK /\ Progress /\ Logged /\ [Next]_vars => Logged'
<1> SUFFICES ASSUME TypeOK, Progress, Logged, [Next]_vars PROVE Logged'
  OBVIOUS
<1>0. /\ \A c \in Calls : IsWrite(c)' = IsWrite(c)
      /\ \A s \in Stores : \A c \in Executed(s) : c \in Calls
  BY SameCommands, Keyed
<1>s. log' = log => \A s \in Stores : Executed(s)' = Executed(s)
  BY DEF Executed
<1>1. CASE UNCHANGED vars
  BY <1>0, <1>1, <1>s DEF vars, Logged
<1>2. ASSUME NEW p \in Sessions, NEW T \in SUBSET Stores, Begin(p, T) PROVE Logged'
  <2> DEFINE c == <<p, sess[p].at + 1>>
  <2>1. call[c].st = "new" /\ log' = log /\ \A d \in Calls \ {c} : call'[d] = call[d]
    BY <1>2, BeginDoes
  <2> HIDE DEF c
  <2> QED
    BY <1>0, <1>s, <2>1 DEF Logged
<1>3. ASSUME NEW c \in Calls, Reply(c) PROVE Logged'
  BY <1>0, <1>s, <1>3, ReplyDoes DEF Logged
<1>4. ASSUME NEW c \in Calls, NEW s \in Stores, Execute(c, s) PROVE Logged'
  <2>1. /\ s \in call[c].pend /\ \A d \in Calls \ {c} : call'[d] = call[d]
        /\ call'[c].st = call[c].st /\ call'[c].pend = call[c].pend \ {s}
        /\ log' = [log EXCEPT ![s] = Append(@, c)]
    BY <1>4, ExecuteDoes
  <2>2. /\ \A t \in Stores \ {s} : Executed(t)' = Executed(t)
        /\ Executed(s)' = Executed(s) \cup {c}
    BY <2>1, LogAppended
  <2>3. IsWrite(c) /\ call[c].st # "new"
    BY <2>1 DEF Progress, New
  <2> QED
    BY <1>0, <2>1, <2>2, <2>3 DEF Logged
<1>5. ASSUME NEW c \in Calls, NEW s \in Stores, Answer(c, s) \/ Fail(c, s) PROVE Logged'
  <2>1. /\ \A d \in Calls \ {c} : call'[d] = call[d]
        /\ call'[c].st = call[c].st /\ call'[c].pend = call[c].pend /\ log' = log
    BY <1>5, AnswerDoes, FailDoes DEF AnswerEffect
  <2> QED
    BY <1>0, <1>s, <2>1 DEF Logged
<1>6. ASSUME NEW s \in Stores, Crash(s) PROVE Logged'
  BY <1>0, <1>6, LogCut DEF Logged
<1> QED
  BY <1>1, <1>2, <1>3, <1>4, <1>5, <1>6 DEF Next, CallStep

(* A step keeps a log in the order of the calls.                           *)
LEMMA OrderStep == TypeOK /\ Progress /\ Logged /\ LogOrder /\ [Next]_vars => LogOrder'
<1> SUFFICES ASSUME TypeOK, Progress, Logged, LogOrder, [Next]_vars PROVE LogOrder'
  OBVIOUS
<1>0. /\ \A d \in Calls : before[d] \subseteq Calls
      /\ \A s \in Stores : \A i \in DOMAIN log[s] :
            log[s][i] \in Calls /\ log[s][i] \in Executed(s)
  BY Keyed DEF TypeOK, Executed
<1>1. CASE UNCHANGED vars
  BY <1>1 DEF vars, LogOrder
<1>2. ASSUME NEW p \in Sessions, NEW T \in SUBSET Stores, Begin(p, T) PROVE LogOrder'
  <2> DEFINE c == <<p, sess[p].at + 1>>
  <2>1. /\ c \in Calls /\ call[c].st = "new" /\ call'[c].told = {} /\ log' = log
        /\ \A d \in Calls \ {c} : call'[d] = call[d] /\ before'[d] = before[d]
        /\ before'[c] = {d \in Calls : call[d].st \in {"ok", "error"}}
    BY <1>2, BeginDoes
  <2> HIDE DEF c
  <2>2. \A s \in Stores : \A i \in DOMAIN log[s] : log[s][i] # c
    BY <1>0, <2>1 DEF Logged
  <2>3. \A d \in Calls : \A x \in before'[d] : x # c /\ call'[x].st \in {"ok", "error"}
    BY <1>0, <2>1 DEF LogOrder
  <2>4. \A d \in Calls : call'[d].told \cap call'[d].pend = {}
    BY <2>1 DEF LogOrder
  <2>5. \A s \in Stores : \A i, j \in DOMAIN log'[s] :
            log'[s][i] \in before'[log'[s][j]] /\ s \in call'[log'[s][i]].told => i < j
    BY <1>0, <2>1, <2>2 DEF LogOrder
  <2> QED
    BY <2>3, <2>4, <2>5 DEF LogOrder
<1>3. ASSUME NEW c \in Calls, Reply(c) PROVE LogOrder'
  <2>1. /\ call[c].st = "run" /\ call'[c].st \in {"ok", "error"}
        /\ \A d \in Calls \ {c} : call'[d] = call[d]
        /\ call'[c].told = call[c].told /\ call'[c].pend = call[c].pend
        /\ UNCHANGED <<log, before>>
    BY <1>3, ReplyDoes
  <2>2. \A d \in Calls : call'[d].told = call[d].told /\ call'[d].pend = call[d].pend
    BY <2>1
  <2> QED
    BY <1>0, <2>1, <2>2 DEF LogOrder
<1>4. ASSUME NEW c \in Calls, NEW s \in Stores, Execute(c, s) PROVE LogOrder'
  <2>1. /\ s \in call[c].pend /\ \A d \in Calls \ {c} : call'[d] = call[d]
        /\ call'[c].st = call[c].st /\ call'[c].pend = call[c].pend \ {s}
        /\ call'[c].told =
             (IF s \in call[c].waiting THEN call[c].told \cup {s} ELSE call[c].told)
        /\ log' = [log EXCEPT ![s] = Append(@, c)]
        /\ before' = before
    BY <1>4, ExecuteDoes
  <2>2. /\ \A t \in Stores \ {s} : log'[t] = log[t]
        /\ Len(log[s]) \in Nat /\ DOMAIN log[s] = 1 .. Len(log[s])
        /\ DOMAIN log'[s] = 1 .. Len(log[s]) + 1
        /\ \A i \in 1 .. Len(log[s]) : log'[s][i] = log[s][i]
        /\ log'[s][Len(log[s]) + 1] = c
    BY <2>1, LogAppended
  <2>3. \A d \in Calls : \A x \in before'[d] : call'[x].st \in {"ok", "error"}
    BY <1>0, <2>1 DEF LogOrder
  <2>4. \A d \in Calls : call'[d].told \cap call'[d].pend = {}
    BY <2>1 DEF LogOrder
  <2>5. call[c].st \in {"ok", "error"} => call'[c].told = call[c].told /\ s \notin call[c].told
    BY <2>1 DEF Progress, LogOrder
  <2>6. \A d \in Calls : \A x \in before'[d] :
            call'[x].told = call[x].told /\ (x = c => s \notin call[x].told)
    BY <1>0, <2>1, <2>5 DEF LogOrder
  <2>7. \A t \in Stores : \A i \in DOMAIN log'[t] : log'[t][i] \in Calls
    BY <1>0, <2>2
  <2>8. ASSUME NEW i \in DOMAIN log'[s], NEW j \in DOMAIN log'[s],
               log'[s][i] \in before'[log'[s][j]], s \in call'[log'[s][i]].told
        PROVE  i < j
    <3>1. log'[s][i] # c
      BY <2>6, <2>7, <2>8
    <3>2. i \in 1 .. Len(log[s]) /\ log'[s][i] = log[s][i]
      BY <2>2, <3>1
    <3>3. CASE j = Len(log[s]) + 1
      BY <2>2, <3>2, <3>3
    <3>4. CASE j \in 1 .. Len(log[s])
      <4>1. log'[s][j] = log[s][j] /\ log[s][j] \in Calls
        BY <1>0, <2>2, <3>4
      <4>2. s \in call[log[s][i]].told /\ log[s][i] \in before[log[s][j]]
        BY <2>1, <2>6, <2>8, <3>2, <4>1
      <4> QED
        BY <2>2, <3>2, <3>4, <4>2 DEF LogOrder
    <3> QED
      BY <2>2, <3>3, <3>4
  <2>9. ASSUME NEW t \in Stores \ {s}, NEW i \in DOMAIN log'[t], NEW j \in DOMAIN log'[t],
               log'[t][i] \in before'[log'[t][j]], t \in call'[log'[t][i]].told
        PROVE  i < j
    BY <1>0, <2>1, <2>2, <2>6, <2>9 DEF LogOrder
  <2> QED
    BY <2>3, <2>4, <2>8, <2>9 DEF LogOrder
<1>5. ASSUME NEW c \in Calls, NEW s \in Stores, Answer(c, s) \/ Fail(c, s) PROVE LogOrder'
  <2>1. /\ \A d \in Calls \ {c} : call'[d] = call[d]
        /\ call'[c].st = call[c].st /\ call'[c].pend = call[c].pend
        /\ s \in call[c].waiting
        /\ ~ IsWrite(c) \/ call'[c].told = call[c].told
        /\ UNCHANGED <<log, before>>
    BY <1>5, AnswerDoes, FailDoes DEF AnswerEffect
  <2>2. \A d \in Calls : \A x \in before[d] : x # c
    BY <1>0, <2>1 DEF LogOrder, Progress
  <2>3. call'[c].told \cap call'[c].pend = {}
    BY <2>1 DEF LogOrder, Progress
  <2> QED
    BY <1>0, <2>1, <2>2, <2>3 DEF LogOrder
<1>6. ASSUME NEW s \in Stores, Crash(s) PROVE LogOrder'
  <2>1. /\ \A t \in Stores \ {s} : log'[t] = log[t]
        /\ DOMAIN log'[s] \subseteq DOMAIN log[s]
        /\ \A i \in DOMAIN log'[s] : log'[s][i] = log[s][i]
        /\ UNCHANGED <<call, before>>
    BY <1>6, LogCut
  <2>2. \A t \in Stores : \A i \in DOMAIN log'[t] :
            i \in DOMAIN log[t] /\ log'[t][i] = log[t][i]
    BY <2>1
  <2> QED
    BY <2>1, <2>2 DEF LogOrder
<1> QED
  BY <1>1, <1>2, <1>3, <1>4, <1>5, <1>6 DEF Next, CallStep

(* What was acknowledged is logged, once.                                  *)
LEMMA AckedStep ==
    TypeOK /\ Progress /\ Logged /\ AckedIsLoggedOnce /\ [Next]_vars => AckedIsLoggedOnce'
<1> SUFFICES ASSUME TypeOK, Progress, Logged, AckedIsLoggedOnce, [Next]_vars
             PROVE  AckedIsLoggedOnce'
  OBVIOUS
<1>0. \A c \in Calls : IsWrite(c)' = IsWrite(c)
  BY SameCommands
<1>s. log' = log => \A s \in Stores : Executed(s)' = Executed(s)
  BY DEF Executed
<1>1. CASE UNCHANGED vars
  BY <1>0, <1>1, <1>s DEF vars, AckedIsLoggedOnce
<1>2. ASSUME NEW p \in Sessions, NEW T \in SUBSET Stores, Begin(p, T) PROVE AckedIsLoggedOnce'
  <2> DEFINE c == <<p, sess[p].at + 1>>
  <2>1. /\ call'[c].told = {} /\ call'[c].st = "run" /\ UNCHANGED <<log, crashed>>
        /\ \A d \in Calls \ {c} : call'[d] = call[d]
    BY <1>2, BeginDoes
  <2> HIDE DEF c
  <2> QED
    BY <1>0, <1>s, <2>1 DEF AckedIsLoggedOnce
<1>3. ASSUME NEW c \in Calls, Reply(c) PROVE AckedIsLoggedOnce'
  BY <1>0, <1>s, <1>3, ReplyDoes DEF AckedIsLoggedOnce
<1>4. ASSUME NEW c \in Calls, NEW s \in Stores, Execute(c, s) PROVE AckedIsLoggedOnce'
  <2>1. /\ s \in call[c].pend /\ \A d \in Calls \ {c} : call'[d] = call[d]
        /\ call'[c].st = call[c].st /\ crashed' = crashed
        /\ call[c].told \subseteq call'[c].told /\ call'[c].told \subseteq call[c].told \cup {s}
        /\ log' = [log EXCEPT ![s] = Append(@, c)]
    BY <1>4, ExecuteDoes
  <2>2. /\ \A t \in Stores \ {s} : log'[t] = log[t] /\ Executed(t)' = Executed(t)
        /\ Executed(s)' = Executed(s) \cup {c}
        /\ Len(log[s]) \in Nat /\ DOMAIN log[s] = 1 .. Len(log[s])
        /\ DOMAIN log'[s] = 1 .. Len(log[s]) + 1
        /\ \A i \in 1 .. Len(log[s]) : log'[s][i] = log[s][i]
        /\ log'[s][Len(log[s]) + 1] = c
    BY <2>1, LogAppended
  <2>3. \A i \in 1 .. Len(log[s]) : log[s][i] # c
    BY <2>1, <2>2 DEF Logged, Executed
  <2>4. ASSUME NEW d \in Calls, NEW i \in DOMAIN log'[s], NEW j \in DOMAIN log'[s],
               log'[s][i] = d, log'[s][j] = d
        PROVE  i = j
    <3>1. \A k \in DOMAIN log'[s] : k \in 1 .. Len(log[s]) \/ k = Len(log[s]) + 1
      BY <2>2
    <3> QED
      BY <2>2, <2>3, <2>4, <3>1 DEF AckedIsLoggedOnce
  <2>5. ASSUME NEW d \in Calls, NEW t \in Stores
        PROVE  /\ IsWrite(d) /\ t \in call'[d].told \ crashed' => d \in Executed(t)'
               /\ IsWrite(d) /\ call'[d].st = "ok" => call'[d].told # {}
    BY <2>1, <2>2 DEF AckedIsLoggedOnce
  <2>6. \A t \in Stores \ {s}, d \in Calls :
            \A i, j \in DOMAIN log'[t] : log'[t][i] = d /\ log'[t][j] = d => i = j
    BY <2>2 DEF AckedIsLoggedOnce
  <2> QED
    BY <1>0, <2>4, <2>5, <2>6 DEF AckedIsLoggedOnce
<1>5. ASSUME NEW c \in Calls, NEW s \in Stores, Answer(c, s) \/ Fail(c, s)
      PROVE  AckedIsLoggedOnce'
  <2>1. /\ \A d \in Calls \ {c} : call'[d] = call[d]
        /\ call'[c].st = call[c].st /\ UNCHANGED <<log, crashed>>
        /\ IsWrite(c) => call'[c].told = call[c].told
    BY <1>5, AnswerDoes, FailDoes DEF AnswerEffect
  <2> QED
    BY <1>0, <1>s, <2>1 DEF AckedIsLoggedOnce
<1>6. ASSUME NEW s \in Stores, Crash(s) PROVE AckedIsLoggedOnce'
  <2>1. /\ \A t \in Stores \ {s} : log'[t] = log[t] /\ Executed(t)' = Executed(t)
        /\ DOMAIN log'[s] \subseteq DOMAIN log[s]
        /\ \A i \in DOMAIN log'[s] : log'[s][i] = log[s][i]
        /\ crashed' = crashed \cup {s} /\ call' = call
    BY <1>6, LogCut
  <2> QED
    BY <1>0, <2>1 DEF AckedIsLoggedOnce
<1> QED
  BY <1>1, <1>2, <1>3, <1>4, <1>5, <1>6 DEF Next, CallStep

(* What a Get reads is of its key.                                         *)
LEMMA ReadsStep ==
    TypeOK /\ Progress /\ Logged /\ GetReadsItsKey /\ [Next]_vars => GetReadsItsKey'
<1> SUFFICES ASSUME TypeOK, Progress, Logged, GetReadsItsKey, [Next]_vars
             PROVE  GetReadsItsKey'
  OBVIOUS
<1>0. /\ \A c \in Calls : KeyOf(c)' = KeyOf(c)
      /\ \A g \in Calls : call[g].saw \subseteq Calls
  BY SameCommands DEF TypeOK, CallType
<1>1. CASE \A g \in Calls : call'[g].saw \subseteq call[g].saw
  BY <1>0, <1>1 DEF GetReadsItsKey
<1>2. ASSUME NEW g \in Calls, NEW s \in Stores, Answer(g, s) PROVE GetReadsItsKey'
  <2>0. PICK w : AnswerEffect(g, s, w)
    BY <1>2, AnswerDoes
  <2>1. /\ w = StoreGet(Db(s), KeyOf(g))
        /\ s \in call[g].waiting /\ \A d \in Calls \ {g} : call'[d] = call[d]
        /\ call'[g].saw = IF w = None THEN call[g].saw ELSE call[g].saw \cup {w}
    BY <2>0 DEF AnswerEffect
  <2>2. /\ w = None \/ (w \in Executed(s) /\ w \in Calls
                        /\ Decode(Encode(KeyOf(w))) = KeyOf(g))
    BY <2>1, Answered
  <2>3. w # None => KeyOf(w) = KeyOf(g) \/ ~ CommaFree(KeyOf(w).base)
    BY <2>2, Keyed, KeyRoundTrip
  <2> QED
    BY <1>0, <2>1, <2>2, <2>3 DEF GetReadsItsKey
<1>3. ASSUME NEW p \in Sessions, NEW T \in SUBSET Stores, Begin(p, T)
      PROVE  \A g \in Calls : call'[g].saw \subseteq call[g].saw
  BY <1>3, BeginDoes
<1>4. ASSUME NEW c \in Calls, NEW s \in Stores, Execute(c, s) \/ Fail(c, s)
      PROVE  \A g \in Calls : call'[g].saw \subseteq call[g].saw
  BY <1>4, ExecuteDoes, FailDoes
<1>5. ASSUME NEW c \in Calls, Reply(c)
      PROVE  \A g \in Calls : call'[g].saw \subseteq call[g].saw
  BY <1>5, ReplyDoes
<1>6. ASSUME NEW s \in Stores, Crash(s) PROVE \A g \in Calls : call'[g].saw \subseteq call[g].saw
  BY <1>6 DEF Crash
<1>7. CASE UNCHANGED vars
  BY <1>1, <1>7 DEF vars
<1> QED
  BY <1>1, <1>2, <1>3, <1>4, <1>5, <1>6, <1>7 DEF Next, CallStep

(* No store that took a write that was acknowledged denies it to a Get.    *)
LEMMA DeniedStep == IInv /\ [Next]_vars => NotDenied'
<1> SUFFICES ASSUME IInv, [Next]_vars PROVE NotDenied'
  OBVIOUS
<1> USE DEF IInv
<1>0. /\ \A c \in Calls : KeyOf(c)' = KeyOf(c) /\ IsWrite(c)' = IsWrite(c)
      /\ \A g \in Calls : before[g] \subseteq Calls
  BY SameCommands DEF TypeOK
<1>1. CASE UNCHANGED vars
  BY <1>0, <1>1 DEF vars, NotDenied
<1>2. ASSUME NEW p \in Sessions, NEW T \in SUBSET Stores, Begin(p, T) PROVE NotDenied'
  <2> DEFINE c == <<p, sess[p].at + 1>>
  <2>1. /\ c \in Calls /\ call[c].st = "new" /\ call'[c].denied = {} /\ crashed' = crashed
        /\ \A d \in Calls \ {c} : call'[d] = call[d] /\ before'[d] = before[d]
        /\ before'[c] = {d \in Calls : call[d].st \in {"ok", "error"}}
    BY <1>2, BeginDoes
  <2> HIDE DEF c
  <2>2. ASSUME NEW g \in Calls, ~ IsWrite(g), NEW d \in before'[g]
        PROVE  /\ d \in Calls /\ d # c /\ call'[d].st \in {"ok", "error"}
               /\ IsWrite(d) /\ KeyOf(d) = KeyOf(g) /\ CommaFree(KeyOf(d).base)
                  => (call'[d].told \ crashed') \cap call'[g].denied = {}
    <3>1. CASE g = c
      BY <2>1, <3>1
    <3>2. CASE g # c
      BY <1>0, <2>1, <2>2, <3>2 DEF NotDenied
    <3> QED
      BY <3>1, <3>2
  <2> QED
    BY <1>0, <2>2 DEF NotDenied
<1>3. ASSUME NEW c \in Calls, Reply(c) PROVE NotDenied'
  <2>1. /\ call[c].st = "run" /\ \A d \in Calls \ {c} : call'[d] = call[d]
        /\ call'[c].told = call[c].told /\ call'[c].denied = call[c].denied
        /\ UNCHANGED <<crashed, before>>
    BY <1>3, ReplyDoes
  <2> QED
    BY <1>0, <2>1 DEF NotDenied
<1>4. ASSUME NEW c \in Calls, NEW s \in Stores, Execute(c, s) \/ Fail(c, s) PROVE NotDenied'
  <2>1. /\ \A d \in Calls \ {c} : call'[d] = call[d]
        /\ call'[c].st = call[c].st /\ call'[c].denied = call[c].denied
        /\ s \notin call[c].waiting => call'[c].told = call[c].told
        /\ UNCHANGED <<crashed, before>>
    BY <1>4, ExecuteDoes, FailDoes
  <2>2. call[c].st \in {"ok", "error"} => call'[c].told = call[c].told
    BY <2>1 DEF Progress
  <2> QED
    BY <1>0, <2>1, <2>2 DEF NotDenied
<1>5. ASSUME NEW c \in Calls, NEW s \in Stores, Answer(c, s) PROVE NotDenied'
  <2>0. PICK w : AnswerEffect(c, s, w)
    BY <1>5, AnswerDoes
  <2>1. /\ w = StoreGet(Db(s), KeyOf(c))
        /\ call'[c].denied = IF w = None THEN call[c].denied \cup {s} ELSE call[c].denied
        /\ s \in call[c].waiting /\ ~ IsWrite(c)
        /\ \A d \in Calls \ {c} : call'[d] = call[d]
        /\ call'[c].st = call[c].st
        /\ UNCHANGED <<crashed, before>>
    BY <2>0 DEF AnswerEffect
  <2>2. CommaFree(KeyOf(c).base) /\ (\E d \in Executed(s) : KeyOf(d) = KeyOf(c)) => w # None
    BY <2>1, Answered
  <2>3. ASSUME NEW d \in before[c], IsWrite(d), KeyOf(d) = KeyOf(c), CommaFree(KeyOf(d).base),
               s \in call[d].told \ crashed
        PROVE  w # None
    BY <1>0, <2>2, <2>3 DEF AckedIsLoggedOnce
  <2>4. ASSUME NEW g \in Calls, ~ IsWrite(g), NEW d \in before[g]
        PROVE  /\ d \in Calls /\ call'[d].st \in {"ok", "error"}
               /\ IsWrite(d) /\ KeyOf(d) = KeyOf(g) /\ CommaFree(KeyOf(d).base)
                  => (call'[d].told \ crashed) \cap call'[g].denied = {}
    <3>1. d \in Calls /\ call'[d].st \in {"ok", "error"}
      BY <1>0, <2>1, <2>4 DEF NotDenied
    <3>2. IsWrite(d) => call'[d] = call[d]
      BY <2>1, <3>1
    <3>3. CASE g = c
      BY <2>1, <2>3, <2>4, <3>1, <3>2, <3>3 DEF NotDenied
    <3>4. CASE g # c
      BY <2>1, <2>4, <3>1, <3>2, <3>4 DEF NotDenied
    <3> QED
      BY <3>3, <3>4
  <2> QED
    BY <1>0, <2>1, <2>4 DEF NotDenied
<1>6. ASSUME NEW s \in Stores, Crash(s) PROVE NotDenied'
  <2>1. crashed' = crashed \cup {s} /\ UNCHANGED <<call, before>>
    BY <1>6, LogCut
  <2> QED
    BY <1>0, <2>1 DEF NotDenied
<1> QED
  BY <1>1, <1>2, <1>3, <1>4, <1>5, <1>6 DEF Next, CallStep

(* The invariant holds at first.                                           *)
LEMMA Initially == Init => IInv
<1> SUFFICES ASSUME Init PROVE IInv
  OBVIOUS
<1>1. \A p \in Sessions : Len(script[p].lines) \in 0 .. MaxLines /\ MaxLines \in Nat
  BY PlansAssumption, LenProperties DEF Init
<1>2. TypeOK
  <2>1. New \in CallType
    BY DEF New, CallType
  <2>2. \A s \in Stores : log[s] = <<>> /\ <<>> \in Seq(Calls)
    BY DEF Init
  <2> QED
    BY <2>1, <2>2, PlansAssumption DEF Init, TypeOK
<1>3. \A c \in Calls : c[1] \in Sessions /\ c[2] \in 1 .. MaxLines
  BY DEF Calls
<1>4. Progress
  BY <1>1, <1>3 DEF Init, Progress, New
<1>5. \A s \in Stores : DOMAIN log[s] = {} /\ Executed(s) = {}
  BY DEF Init, Executed
<1> QED
  BY <1>2, <1>4, <1>5
     DEF Init, IInv, Logged, LogOrder, AckedIsLoggedOnce, NotDenied, GetReadsItsKey, New

(* ... and always.                                                         *)
LEMMA Invariance == Spec => []IInv
<1>1. IInv /\ [Next]_vars => IInv'
  BY TypeStep, ProgressStep, LoggedStep, OrderStep, AckedStep, ReadsStep, DeniedStep DEF IInv
<1> QED
  BY Initially, <1>1, PTL DEF Spec

-----------------------------------------------------------------------------
(* The variables keep their types: what the iterator of a store finds is a *)
(* write that store executed.                                              *)
THEOREM TypeCorrect == Spec => []TypeOK
BY Invariance, PTL DEF IInv

(* Whatever the tables of the gates, the failures, the late requests and   *)
(* the crashes, a store that acknowledged a write and did not crash has    *)
(* it, once, and an acknowledged write has such a store or had one.        *)
THEOREM AcknowledgedIsLogged == Spec => []AckedIsLoggedOnce
BY Invariance, PTL DEF IInv

(* A Get reads a value that was put under its key, unless a base has a     *)
(* comma.                                                                  *)
THEOREM ReadsAreOfTheKey == Spec => []GetReadsItsKey
BY Invariance, PTL DEF IInv

(* A Get that fails heard of no store that took an acknowledged Put of its *)
(* key and did not crash, when the key was not removed.                    *)
THEOREM FailedGetsAreExcused == Spec => []GetFindsAcked
<1>1. ASSUME IInv PROVE GetFindsAcked
  <2> SUFFICES ASSUME NEW g \in Calls, ~ IsWrite(g), NEW c \in before[g],
                      IsPut(c), KeyOf(c) = KeyOf(g), CommaFree(KeyOf(c).base)
               PROVE  (call[c].told \ crashed) \cap call[g].denied = {}
    BY DEF GetFindsAcked
  <2>1. IsWrite(c)
    BY DEF IsPut, IsWrite
  <2> QED
    BY <1>1, <2>1 DEF IInv, NotDenied
<1> QED
  BY <1>1, Invariance, PTL

(* Two stores that took all the writes to a key agree on it.               *)
LEMMA LastWriteIsTheSame ==
    ASSUME IInv, NEW bk \in BaseKey,
           NEW W, W = {c \in Begun : IsWrite(c) /\ Encode(KeyOf(c)) = Encode(bk)},
           \A c \in W : call[c].told = Stores,
           \A c, d \in W : c = d \/ c \in before[d] \/ d \in before[c],
           NEW s \in Stores \ crashed, NEW t \in Stores \ crashed
    PROVE  StoreGet(Db(s), bk) = StoreGet(Db(t), bk)
<1> DEFINE e == Encode(bk)
<1>1. \A u \in Stores : log[u] \in Seq(Calls) /\ \A c \in Executed(u) : c \in Calls /\ KeyOf(c) \in BaseKey
  BY Keyed DEF IInv, TypeOK
<1>2. ASSUME NEW u \in Stores \ crashed
      PROVE  \A c \in Calls : c \in Executed(u) /\ Encode(KeyOf(c)) = e <=> c \in W
  BY DEF IInv, Logged, AckedIsLoggedOnce, Begun
<1>3. W \subseteq Calls
  BY DEF Begun
<1>4. ASSUME NEW u \in Stores \ crashed
      PROVE  /\ e \in DOMAIN Db(u) <=> W # {}
             /\ e \in DOMAIN Db(u) => \E i \in DOMAIN log[u] :
                   /\ Db(u)[e] = log[u][i] /\ log[u][i] \in W
                   /\ \A j \in DOMAIN log[u] : log[u][j] \in W => j <= i
  <2>1. /\ DOMAIN Db(u) = {Encode(KeyOf(c)) : c \in Executed(u)}
        /\ \A k \in DOMAIN Db(u) : Db(u)[k] \in Executed(u) /\ Encode(KeyOf(Db(u)[k])) = k
        /\ \A k \in DOMAIN Db(u) : \E i \in DOMAIN log[u] :
              /\ Db(u)[k] = log[u][i]
              /\ \A j \in DOMAIN log[u] : Encode(KeyOf(log[u][j])) = k => j <= i
    BY <1>1, DbHolds
  <2>2. e \in DOMAIN Db(u) <=> W # {}
    BY <1>1, <1>2, <1>3, <2>1
  <2>3. ASSUME e \in DOMAIN Db(u)
        PROVE  \E i \in DOMAIN log[u] :
                   /\ Db(u)[e] = log[u][i] /\ log[u][i] \in W
                   /\ \A j \in DOMAIN log[u] : log[u][j] \in W => j <= i
    <3>1. PICK i \in DOMAIN log[u] :
              /\ Db(u)[e] = log[u][i]
              /\ \A j \in DOMAIN log[u] : Encode(KeyOf(log[u][j])) = e => j <= i
      BY <2>1, <2>3
    <3>2. log[u][i] \in Executed(u) /\ Encode(KeyOf(log[u][i])) = e
      BY <2>1, <2>3, <3>1
    <3>3. log[u][i] \in W
      BY <1>1, <1>2, <3>2
    <3>4. \A j \in DOMAIN log[u] : log[u][j] \in W => j <= i
      BY <3>1
    <3> QED
      BY <3>1, <3>3, <3>4
  <2> QED
    BY <2>2, <2>3
<1>5. ASSUME NEW u \in Stores \ crashed, NEW c \in W, NEW d \in W, c \in before[d],
             NEW i \in DOMAIN log[u], log[u][i] = c,
             \A j \in DOMAIN log[u] : log[u][j] \in W => j <= i
      PROVE  FALSE
  <2>1. d \in Executed(u) /\ u \in call[c].told
    BY <1>2, <1>3
  <2>2. PICK j \in DOMAIN log[u] : log[u][j] = d
    BY <2>1 DEF Executed
  <2>3. i < j /\ j <= i
    BY <1>5, <2>1, <2>2 DEF IInv, LogOrder
  <2>4. i \in Nat /\ j \in Nat
    BY <1>1, LenProperties
  <2> QED
    BY <2>3, <2>4
<1>6. ASSUME W # {} PROVE Db(s)[e] = Db(t)[e]
  <2>1. PICK i \in DOMAIN log[s] : /\ Db(s)[e] = log[s][i] /\ log[s][i] \in W
                                   /\ \A j \in DOMAIN log[s] : log[s][j] \in W => j <= i
    BY <1>4, <1>6
  <2>2. PICK i2 \in DOMAIN log[t] : /\ Db(t)[e] = log[t][i2] /\ log[t][i2] \in W
                                    /\ \A j \in DOMAIN log[t] : log[t][j] \in W => j <= i2
    BY <1>4, <1>6
  <2>3. log[s][i] \notin before[log[t][i2]]
    BY <1>5, <2>1, <2>2
  <2>4. log[t][i2] \notin before[log[s][i]]
    BY <1>5, <2>1, <2>2
  <2> QED
    BY <2>1, <2>2, <2>3, <2>4
<1>7. \A u \in Stores : StoreGet(Db(u), bk) = IF e \in DOMAIN Db(u) /\ Decode(e) = bk
                                             THEN Db(u)[e] ELSE None
  BY <1>1, SeekIs
<1> HIDE DEF e
<1> QED
  BY <1>4, <1>6, <1>7

(* Writes to a key that were made one after the other and reached all the  *)
(* stores leave the same value in every store that did not crash.          *)
THEOREM SequentialWritesAgree == Spec => []AgreeWhenSequential
<1>1. ASSUME IInv PROVE AgreeWhenSequential
  <2>1. \A c \in Begun : KeyOf(c) \in BaseKey
    BY <1>1, Keyed DEF IInv, Begun
  <2> SUFFICES ASSUME NEW bk \in {KeyOf(c) : c \in Begun},
                      NEW W, W = {c \in Begun : IsWrite(c) /\ Encode(KeyOf(c)) = Encode(bk)},
                      \A c \in W : call[c].told = Stores,
                      \A c, d \in W : c = d \/ c \in before[d] \/ d \in before[c],
                      NEW s \in Stores \ crashed, NEW t \in Stores \ crashed
               PROVE  StoreGet(Db(s), bk) = StoreGet(Db(t), bk)
    BY DEF AgreeWhenSequential
  <2> QED
    BY <1>1, <2>1, LastWriteIsTheSame
<1> QED
  BY <1>1, Invariance, PTL

-----------------------------------------------------------------------------
(* The listing of a store.                                                 *)

(* Less, as a set of pairs                                                 *)
Before == {x \in Text \X Text : Less(x[1], x[2])}

(* Texts in order are in the order of their ranks.                         *)
LEMMA TextsByRank ==
    ASSUME NEW S, S \subseteq Text, IsFiniteSet(S)
    PROVE  /\ Orders(Before, S)
           /\ \A x, y \in S : <<x, y>> \in Before <=> Less(x, y)
           /\ TextsInOrder(S) = ByRank(Before, S)
<1>1. \A x, y \in S : <<x, y>> \in Before <=> Less(x, y)
  BY DEF Before
<1>2. Orders(Before, S)
  <2>1. \A x, y \in S : x = y \/ Less(x, y) \/ Less(y, x)
    BY TextsAreOrdered
  <2>2. \A x, y \in S : ~ (Less(x, y) /\ Less(y, x))
    BY TextsAreOrdered
  <2>3. \A x, y, z \in S : Less(x, y) /\ Less(y, z) => Less(x, z)
    BY LessIsTransitive
  <2> QED
    BY <1>1, <2>1, <2>2, <2>3 DEF Orders
<1>3. \A k \in S : {j \in S : <<j, k>> \in Before} = {j \in S : Less(j, k)}
  BY <1>1
<1>4. \A k \in S : Rank(Before, S, k) = Cardinality({j \in S : Less(j, k)})
  BY <1>3 DEF Rank
<1>5. ASSUME NEW i \in 1 .. Cardinality(S)
      PROVE  (CHOOSE k \in S : Rank(Before, S, k) = i - 1) =
             (CHOOSE k \in S : Cardinality({j \in S : Less(j, k)}) = i - 1)
  BY <1>4
<1> QED
  BY <1>1, <1>2, <1>5 DEF TextsInOrder, ByRank

(* The texts N begin with those of the keys A of the base b, in the order  *)
(* of the keys: after the first of another base there is none              *)
ComesFirst(b, A, N) ==
    /\ IsFiniteSet(A) /\ A \subseteq Text /\ IsFiniteSet(N) /\ N \subseteq Text
    /\ Cardinality(A) \in Nat /\ Cardinality(N) \in Nat
    /\ Cardinality(A) <= Cardinality(N)
    /\ \A i \in 1 .. Cardinality(A) :
         TextsInOrder(N)[i] = Encode(BK(b, TextsInOrder(A)[i]))
    /\ \A i \in 1 .. Cardinality(N) :
         i > Cardinality(A) => Decode(TextsInOrder(N)[i]).base # b

(* So do the keys of a DB past a marker.                                   *)
LEMMA BaseComesFirst ==
    ASSUME NEW b \in Text, CommaFree(b), NEW marker \in Text,
           NEW D, D \subseteq BaseKey, IsFiniteSet(D), \A bk \in D : CommaFree(bk.base),
           NEW A, A = {x \in {bk.key : bk \in {d \in D : d.base = b}} : Less(marker, x)},
           NEW N, N = {k \in {Encode(bk) : bk \in D} : Less(Encode(BK(b, marker)), k)}
    PROVE  ComesFirst(b, A, N)
<1> DEFINE e(x) == Encode(BK(b, x))
           m == e(marker)
           q == TextsInOrder(A)
           next == TextsInOrder(N)
           n == Cardinality(A)
           r == Cardinality(N)
<1>1. /\ \A bk \in D : /\ bk.base \in Text /\ bk.key \in Text /\ bk = BK(bk.base, bk.key)
                        /\ Encode(bk) \in Text /\ Decode(Encode(bk)) = bk
      /\ \A x \in Text : e(x) \in Text /\ Decode(e(x)) = BK(b, x)
  <2>1. \A bk \in BaseKey : bk.base \in Text /\ bk.key \in Text /\ bk = BK(bk.base, bk.key)
    BY DEF BaseKey, BK
  <2>2. \A x \in Text : BK(b, x) \in BaseKey /\ BK(b, x).base = b
    BY DEF BaseKey, BK
  <2> QED
    BY <2>1, <2>2, EncodeIsText, KeyRoundTrip
<1>2. IsFiniteSet(A) /\ A \subseteq Text
  <2> DEFINE f == [bk \in D |-> bk.key]
             K == {bk.key : bk \in D}
  <2>1. f \in Surjection(D, K)
    BY DEF Surjection
  <2>2. IsFiniteSet(K)
    <3> HIDE DEF f, K
    <3> QED
      BY <2>1, FS_Surjection
  <2>3. A \subseteq K /\ K \subseteq Text
    BY <1>1
  <2> QED
    BY <2>2, <2>3, FS_Subset
<1>3. IsFiniteSet(N) /\ N \subseteq Text
  <2> DEFINE f == [bk \in D |-> Encode(bk)]
             K == {Encode(bk) : bk \in D}
  <2>1. f \in Surjection(D, K)
    BY DEF Surjection
  <2>2. IsFiniteSet(K)
    <3> HIDE DEF f, K
    <3> QED
      BY <2>1, FS_Surjection
  <2>3. N \subseteq K /\ K \subseteq Text
    BY <1>1
  <2> QED
    BY <2>2, <2>3, FS_Subset
<1>4. \A x \in A : e(x) \in N
  <2> TAKE x \in A
  <2>1. PICK bk \in D : bk.base = b /\ x = bk.key
    OBVIOUS
  <2>2. e(x) = Encode(bk) /\ x \in Text
    BY <1>1, <2>1
  <2>3. Less(m, e(x))
    BY <2>2, KeysOfABaseAreOrdered
  <2> QED
    BY <2>2, <2>3
<1>5. ASSUME NEW k \in N, Decode(k).base = b PROVE \E x \in A : k = e(x)
  <2>1. PICK bk \in D : k = Encode(bk)
    OBVIOUS
  <2>2. bk = BK(b, bk.key) /\ bk.key \in Text /\ bk.base = b
    BY <1>1, <1>5, <2>1
  <2>3. k = e(bk.key)
    BY <2>1, <2>2
  <2>4. Less(marker, bk.key)
    BY <2>2, <2>3, KeysOfABaseAreOrdered
  <2> QED
    BY <2>2, <2>3, <2>4
<1>6. ASSUME NEW k \in N, Decode(k).base # b, NEW x \in A PROVE Less(e(x), k)
  <2>1. PICK bk \in D : k = Encode(bk)
    OBVIOUS
  <2>2. /\ bk.base \in Text /\ bk.key \in Text /\ k = Encode(BK(bk.base, bk.key))
        /\ bk.base # b /\ CommaFree(bk.base)
    BY <1>1, <1>6, <2>1
  <2>3. Less(m, k) /\ x \in Text
    BY <1>2
  <2> QED
    BY <2>2, <2>3, BasesAreTogether
<1> HIDE DEF e, m
<1>7. /\ Orders(Before, A) /\ \A x, y \in A : <<x, y>> \in Before <=> Less(x, y)
      /\ q = ByRank(Before, A)
  BY <1>2, TextsByRank
<1> HIDE DEF q
<1>8. /\ Orders(Before, N) /\ \A x, y \in N : <<x, y>> \in Before <=> Less(x, y)
      /\ next = ByRank(Before, N)
  BY <1>3, TextsByRank
<1> HIDE DEF next
<1>n. Lists(Before, A, q, n) /\ Lists(Before, N, next, r)
  BY <1>2, <1>3, <1>7, <1>8, SequenceByRank
<1> HIDE DEF n, r
<1>9. /\ n \in Nat /\ \A i \in 1 .. n : q[i] \in A
      /\ \A k \in A : \E i \in 1 .. n : q[i] = k
      /\ \A i, j \in 1 .. n : i < j <=> <<q[i], q[j]>> \in Before
  BY <1>n DEF Lists
<1>10. /\ r \in Nat /\ \A i \in 1 .. r : next[i] \in N /\ Rank(Before, N, next[i]) = i - 1
       /\ \A i \in 1 .. r : \A k \in N : Rank(Before, N, k) = i - 1 => next[i] = k
  BY <1>n DEF Lists
<1>11. \A x, y \in A : Less(e(x), e(y)) <=> Less(x, y)
  BY <1>2, KeysOfABaseAreOrdered DEF e
<1> DEFINE p == [i \in 1 .. n |-> e(q[i])]
<1>12. \A i \in 1 .. n : Rank(Before, N, p[i]) = i - 1
  <2>1. \A i \in 1 .. n : p[i] \in N
    BY <1>4, <1>9
  <2>2. ASSUME NEW i \in 1 .. n, NEW j \in 1 .. n, i < j PROVE <<p[i], p[j]>> \in Before
    <3>1. p[i] = e(q[i]) /\ p[j] = e(q[j]) /\ q[i] \in A /\ q[j] \in A
      BY <1>9
    <3>2. Less(q[i], q[j])
      BY <1>7, <1>9, <2>2, <3>1
    <3>3. Less(p[i], p[j])
      BY <1>11, <3>1, <3>2
    <3> HIDE DEF p
    <3> QED
      BY <1>8, <2>1, <3>3
  <2>3. ASSUME NEW i \in 1 .. n, NEW k \in N, <<k, p[i]>> \in Before
        PROVE  \E j \in 1 .. n : k = p[j]
    <3>1. Less(k, p[i]) /\ p[i] = e(q[i]) /\ q[i] \in A /\ p[i] \in Text /\ k \in Text
      BY <1>3, <1>8, <1>9, <2>1, <2>3
    <3>2. Decode(k).base = b
      BY <1>6, <3>1, TextsAreOrdered
    <3>3. PICK x \in A : k = e(x)
      BY <1>5, <3>2
    <3> QED
      BY <1>9, <3>3
  <2> HIDE DEF p
  <2>4. Begins(Before, N, p, n)
    BY <1>9, <2>1, <2>2, <2>3 DEF Begins
  <2> QED
    BY <1>3, <1>8, <2>4, RankIsPlace
<1>13. n <= r /\ \A i \in 1 .. n : next[i] = e(q[i])
  <2>1. \A i \in 1 .. n : p[i] \in N /\ Rank(Before, N, p[i]) = i - 1
    BY <1>4, <1>9, <1>12
  <2>2. \A k \in N : Rank(Before, N, k) \in 0 .. r - 1
    BY <1>3, <1>8, RanksAreOrdered DEF r
  <2>3. n <= r
    <3>1. CASE n = 0
      BY <1>10, <3>1
    <3>2. CASE n # 0
      <4>1. n \in 1 .. n
        BY <1>9, <3>2
      <4>2. n - 1 \in 0 .. r - 1
        BY <2>1, <2>2, <4>1
      <4> QED
        BY <1>9, <1>10, <4>2
    <3> QED
      BY <3>1, <3>2
  <2>4. ASSUME NEW i \in 1 .. n PROVE next[i] = e(q[i])
    <3>1. i \in 1 .. r
      BY <1>9, <1>10, <2>3
    <3>2. next[i] = p[i]
      BY <1>10, <2>1, <3>1
    <3> QED
      BY <3>2
  <2> QED
    BY <2>3, <2>4
<1>14. ASSUME NEW i \in 1 .. r, i > n PROVE Decode(next[i]).base # b
  <2> SUFFICES ASSUME Decode(next[i]).base = b PROVE FALSE
    OBVIOUS
  <2>1. next[i] \in N /\ Rank(Before, N, next[i]) = i - 1
    BY <1>10
  <2>2. PICK x \in A : next[i] = e(x)
    BY <1>5, <2>1
  <2>3. PICK j \in 1 .. n : q[j] = x
    BY <1>9
  <2>4. Rank(Before, N, e(x)) = j - 1
    BY <1>12, <2>3
  <2> QED
    BY <1>9, <1>14, <2>1, <2>2, <2>4
<1> QED
  BY <1>2, <1>3, <1>9, <1>10, <1>13, <1>14 DEF n, r, q, next, e, ComesFirst

(* The keys of the base b past a marker that a store has                   *)
KeysPast(s, b, marker) ==
    {k \in {KeyOf(c).key : c \in {d \in Executed(s) : KeyOf(d).base = b}} : Less(marker, k)}

(* The listing of a store is the beginning of these keys.                  *)
LEMMA ListIs ==
    ASSUME NEW s \in Stores, log[s] \in Seq(Calls),
           \A c \in Executed(s) : KeyOf(c) \in BaseKey /\ CommaFree(KeyOf(c).base),
           NEW b \in Text, b # <<>>, CommaFree(b), NEW marker \in Text, NEW max \in Nat,
           NEW all, all = TextsInOrder(KeysPast(s, b, marker))
    PROVE  StoreList(Db(s), b, marker, max) =
               IF Len(all) <= Limit(max) + 1 THEN all ELSE SubSeq(all, 1, Limit(max) + 1)
<1> DEFINE lim == Limit(max)
           D == {KeyOf(c) : c \in Executed(s)}
           A == KeysPast(s, b, marker)
           N == {k \in DOMAIN Db(s) : Less(Encode(BK(b, marker)), k)}
           next == TextsInOrder(N)
           n == Cardinality(A)
           r == Cardinality(N)
           taken == {i \in DOMAIN next :
                        i <= lim + 1 /\ \A j \in 1 .. i : Decode(next[j]).base = b}
<1>0. lim \in Nat
  BY ListHardMaxAssumption DEF Limit
<1>1. IsFiniteSet(D) /\ D \subseteq BaseKey /\ \A bk \in D : CommaFree(bk.base)
  <2>1. Len(log[s]) \in Nat /\ DOMAIN log[s] = 1 .. Len(log[s])
    BY LenProperties
  <2>2. IsFiniteSet(DOMAIN log[s])
    BY <2>1, FS_Interval
  <2> DEFINE f == [i \in DOMAIN log[s] |-> KeyOf(log[s][i])]
  <2>3. f \in Surjection(DOMAIN log[s], D)
    BY DEF Surjection, Executed
  <2> HIDE DEF f, D
  <2>4. IsFiniteSet(D)
    BY <2>2, <2>3, FS_Surjection
  <2> QED
    BY <2>4 DEF D
<1>2. A = {x \in {bk.key : bk \in {d \in D : d.base = b}} : Less(marker, x)}
  BY DEF KeysPast
<1>3. N = {k \in {Encode(bk) : bk \in D} : Less(Encode(BK(b, marker)), k)}
  <2>1. DOMAIN Db(s) = {Encode(KeyOf(c)) : c \in Executed(s)}
    BY DbHolds
  <2>2. {Encode(KeyOf(c)) : c \in Executed(s)} = {Encode(bk) : bk \in D}
    OBVIOUS
  <2> QED
    BY <2>1, <2>2
<1>4. all = TextsInOrder(A)
  OBVIOUS
<1>5. StoreList(Db(s), b, marker, max) = [i \in taken |-> Decode(next[i]).key]
  BY DEF StoreList
<1> HIDE DEF lim, D, A, N
<1>6. /\ IsFiniteSet(A) /\ A \subseteq Text /\ IsFiniteSet(N) /\ N \subseteq Text
      /\ n \in Nat /\ r \in Nat /\ n <= r
      /\ \A i \in 1 .. n : next[i] = Encode(BK(b, all[i]))
      /\ \A i \in 1 .. r : i > n => Decode(next[i]).base # b
  <2>1. ComesFirst(b, A, N)
    BY <1>1, <1>2, <1>3, BaseComesFirst, Zenon
  <2> QED
    BY <1>4, <2>1 DEF ComesFirst
<1> HIDE DEF next
<1>7. Lists(Before, A, all, n) /\ Lists(Before, N, next, r)
  BY <1>4, <1>6, TextsByRank, SequenceByRank DEF next
<1> HIDE DEF n, r
<1>8. /\ all \in Seq(Text) /\ Len(all) = n /\ all \in [1 .. n -> Text] /\ DOMAIN next = 1 .. r
  <2>1. all \in Seq(A) /\ Len(all) = n /\ next \in Seq(N) /\ Len(next) = r
    BY <1>7 DEF Lists
  <2>2. all \in Seq(Text) /\ DOMAIN next = 1 .. r
    BY <1>6, <2>1, SeqMonotonic, LenProperties
  <2> QED
    BY <2>1, <2>2, LenProperties
<1>9. \A i \in 1 .. n : Decode(next[i]).base = b /\ Decode(next[i]).key = all[i]
  <2> TAKE i \in 1 .. n
  <2>1. all[i] \in Text
    BY <1>8
  <2>2. BK(b, all[i]) \in BaseKey /\ BK(b, all[i]).base = b /\ BK(b, all[i]).key = all[i]
    BY <2>1 DEF BaseKey, BK
  <2>3. Decode(next[i]) = BK(b, all[i])
    BY <1>6, <2>2, KeyRoundTrip
  <2> QED
    BY <2>2, <2>3
<1>10. taken = {i \in 1 .. n : i <= lim + 1}
  <2>1. ASSUME NEW i \in taken PROVE i \in 1 .. n
    <3>1. i \in 1 .. r /\ i \in 1 .. i /\ Decode(next[i]).base = b
      BY <1>8
    <3> QED
      BY <1>6, <3>1
  <2>2. ASSUME NEW i \in 1 .. n, i <= lim + 1 PROVE i \in taken
    <3>1. i \in DOMAIN next /\ \A j \in 1 .. i : j \in 1 .. n
      BY <1>6, <1>8
    <3> QED
      BY <1>9, <2>2, <3>1
  <2>3. \A i \in taken : i <= lim + 1
    OBVIOUS
  <2> HIDE DEF taken
  <2> QED
    BY <2>1, <2>2, <2>3
<1>11. [i \in taken |-> Decode(next[i]).key] = [i \in taken |-> all[i]]
  <2> HIDE DEF taken
  <2> QED
    BY <1>9, <1>10
<1> HIDE DEF taken
<1>12. CASE n <= lim + 1
  <2>1. taken = 1 .. n
    BY <1>0, <1>6, <1>10, <1>12
  <2>2. [i \in taken |-> all[i]] = all
    BY <1>8, <2>1
  <2> QED
    BY <1>5, <1>8, <1>11, <1>12, <2>2 DEF lim
<1>13. CASE ~ (n <= lim + 1)
  <2>1. taken = 1 .. lim + 1 /\ lim + 1 \in 0 .. Len(all)
    BY <1>0, <1>6, <1>8, <1>10, <1>13
  <2>2. SubSeq(all, 1, lim + 1) = [i \in 1 .. lim + 1 |-> all[i]]
    BY <1>8, <2>1, SubSeqRestrict DEF Restrict
  <2> QED
    BY <1>5, <1>8, <1>11, <1>13, <2>1, <2>2 DEF lim
<1> QED
  BY <1>12, <1>13

(* A store lists the keys of a base it holds past the marker, in order,    *)
(* and nothing else, as long as no base has a comma: whatever the base,    *)
(* the marker and the number of items it is asked for.                     *)
THEOREM AnyListingIsExact == Spec => []ListsExactly(Text, Text, Nat)
<1>1. ASSUME IInv PROVE ListsExactly(Text, Text, Nat)
  <2>1. \A s \in Stores : log[s] \in Seq(Calls) /\ \A c \in Executed(s) : KeyOf(c) \in BaseKey
    BY <1>1, Keyed DEF IInv, TypeOK
  <2> SUFFICES ASSUME NEW s \in Stores, \A c \in Executed(s) : CommaFree(KeyOf(c).base),
                      NEW base \in Text, NEW marker \in Text, NEW max \in Nat,
                      CommaFree(base)
               PROVE  LET mine == {KeyOf(c).key :
                                       c \in {d \in Executed(s) : KeyOf(d).base = base}}
                          all  == TextsInOrder({k \in mine : Less(marker, k)})
                      IN  StoreList(Db(s), base, marker, max) =
                              IF base = <<>> THEN None
                              ELSE IF Len(all) <= Limit(max) + 1 THEN all
                              ELSE SubSeq(all, 1, Limit(max) + 1)
    BY DEF ListsExactly
  <2> DEFINE all == TextsInOrder(KeysPast(s, base, marker))
  <2>a. all = TextsInOrder(KeysPast(s, base, marker))
    OBVIOUS
  <2> HIDE DEF all
  <2>2. CASE base = <<>>
    BY <2>2 DEF StoreList
  <2>3. CASE base # <<>>
    <3>1. StoreList(Db(s), base, marker, max) =
              IF Len(all) <= Limit(max) + 1 THEN all ELSE SubSeq(all, 1, Limit(max) + 1)
      BY <2>1, <2>3, <2>a, ListIs
    <3> QED
      BY <2>3, <3>1 DEF all, KeysPast
  <2> QED
    BY <2>2, <2>3
<1> QED
  BY <1>1, Invariance, PTL

(* So it does for the bases, the keys and the numbers in use.              *)
THEOREM ListingsAreExact == Spec => []StoreListIsExact
<1>1. ASSUME IInv, ListsExactly(Text, Text, Nat) PROVE StoreListIsExact
  <2>1. \A c \in Begun : KeyOf(c).base \in Text /\ KeyOf(c).key \in Text
    BY <1>1, Keyed DEF IInv, Begun, BaseKey
  <2>2. <<>> \in Text /\ 0 .. ListHardMax + 1 \subseteq Nat
    BY ListHardMaxAssumption DEF Text
  <2> DEFINE bases == {<<>>} \cup {KeyOf(c).base : c \in Begun}
             markers == {<<>>} \cup {KeyOf(c).key : c \in Begun}
  <2>3. bases \subseteq Text /\ markers \subseteq Text
    BY <2>1, <2>2
  <2> HIDE DEF bases, markers
  <2>4. ListsExactly(bases, markers, 0 .. ListHardMax + 1)
    BY <1>1, <2>2, <2>3 DEF ListsExactly
  <2> QED
    BY <2>4 DEF StoreListIsExact, bases, markers
<1> QED
  BY <1>1, Invariance, AnyListingIsExact, PTL
=============================================================================
