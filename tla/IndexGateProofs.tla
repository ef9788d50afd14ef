---------------------------- MODULE IndexGateProofs ----------------------------
(* Theorems about IndexGate, for any number of addresses and of requests.  *)
EXTENDS IndexGate, FiniteSetTheorems, TLAPS

(* Who holds the lock srv.rw, and who waits for it.                        *)
LockDiscipline ==
    /\ \A r \in Requests :
        /\ r \in readers <=> \/ st[r] = "locked"
                             \/ Locked(kind[r]) /\ st[r] \in {"counted", "range", "gather"}
        /\ st[r] = "free" => ~Locked(kind[r])
    /\ reload \in {"list", "dial"} => readers = {}

(* A request under the lock counted and ranged over the table as it is;    *)
(* one without the lock, over a table that could only grow since.          *)
CountedTable ==
    \A r \in Requests :
        /\ st[r] \in {"counted", "range", "gather"} =>
            IF Locked(kind[r]) THEN cap[r] = Cardinality(Known)
                               ELSE cap[r] <= Cardinality(Known)
        /\ st[r] \in {"range", "gather"} =>
            /\ targets[r] \subseteq Known
            /\ Locked(kind[r]) => targets[r] = Known
            /\ cap[r] <= Cardinality(targets[r])

(* What was written is in the table, and a range that started covers it.   *)
WritesKnown ==
    /\ written \subseteq Known
    /\ \A r \in Requests :
        /\ must[r] \subseteq Known
        /\ st[r] \in {"range", "gather"} => must[r] \subseteq targets[r]

IInv == TypeOK /\ LockDiscipline /\ CountedTable /\ WritesKnown

-----------------------------------------------------------------------------
(* A set of addresses is finite.                                           *)
LEMMA FiniteCount ==
    ASSUME NEW S \in SUBSET Addrs, NEW T \in SUBSET S
    PROVE  /\ Cardinality(S) \in Nat /\ Cardinality(T) \in Nat
           /\ Cardinality(T) <= Cardinality(S)
<1>1. IsFiniteSet(S)
  BY AddrsAssumption, FS_Subset
<1> QED
  BY <1>1, FS_Subset, FS_CardinalityType

(* The default of the variable kind is one of the handlers.                *)
LEMMA AnyKindIsKind == AnyKind \in Kinds
BY KindsAssumption DEF AnyKind

(* A process that starts, for the first time or again, is in a state that  *)
(* satisfies the invariant.                                                *)
LEMMA Initial == Init => IInv
BY AnyKindIsKind DEF Init, IInv, TypeOK, Each, Steps, LockDiscipline, CountedTable,
                     WritesKnown, Known

(* A crash leads back to a state that satisfies the invariant.             *)
LEMMA CrashInductive == TypeOK /\ Crash => IInv'
<1> SUFFICES ASSUME TypeOK, Crash PROVE IInv'
  OBVIOUS
<1>1. TypeOK'
  BY AnyKindIsKind DEF Crash, TypeOK, Each, Steps
<1>2. \A r \in Requests : st'[r] = "idle" /\ must'[r] = {}
  BY DEF Crash, Each
<1>3. readers' = {} /\ written' = {}
  BY DEF Crash
<1>4. LockDiscipline' /\ CountedTable' /\ WritesKnown'
  BY <1>2, <1>3 DEF LockDiscipline, CountedTable, WritesKnown
<1> QED
  BY <1>1, <1>4 DEF IInv

-----------------------------------------------------------------------------
(* The types, one step per action.                                         *)
LEMMA TypeInductive == TypeOK /\ [Next]_vars => TypeOK'
<1> SUFFICES ASSUME TypeOK, [Next]_vars PROVE TypeOK'
  OBVIOUS
<1> USE DEF TypeOK, reqVars, tableVars
<1>1. CASE Restart
  BY <1>1 DEF Restart
<1>2. ASSUME NEW a \in Addrs, Declare(a) PROVE TypeOK'
  BY <1>2 DEF Declare
<1>3. CASE Tick
  BY <1>3 DEF Tick
<1>4. CASE Lock
  BY <1>4 DEF Lock
<1>5. CASE Unlock
  BY <1>5 DEF Unlock, Steps
<1>6. ASSUME NEW L \in SUBSET declared, ListIndexStore(L) PROVE TypeOK'
  BY <1>6 DEF ListIndexStore
<1>7. ASSUME NEW a \in Addrs, Keep(a) PROVE TypeOK'
  BY <1>7 DEF Keep
<1>8. ASSUME NEW a \in Addrs, NEW ok \in BOOLEAN, Dial(a, ok) PROVE TypeOK'
  BY <1>8 DEF Dial
<1>9. ASSUME NEW r \in Requests, NEW k \in Kinds, Arrive(r, k) PROVE TypeOK'
  BY <1>9 DEF Arrive, Steps
<1>10. ASSUME NEW r \in Requests, ReleaseEarly(r) PROVE TypeOK'
  BY <1>10 DEF ReleaseEarly, Steps
<1>11. ASSUME NEW r \in Requests, Count(r) PROVE TypeOK'
  <2>1. Cardinality(Known) \in Nat
    BY FiniteCount DEF Known
  <2> QED
    BY <1>11, <2>1 DEF Count, Steps
<1>12. ASSUME NEW r \in Requests, RangeBegin(r) PROVE TypeOK'
  BY <1>12 DEF RangeBegin, Known, ToNil, Steps
<1>13. ASSUME NEW r \in Requests, NEW late \in SUBSET Addrs,
              NEW stale \in SUBSET nils[r], RangeEnd(r, late, stale)
       PROVE  TypeOK'
  BY <1>13 DEF RangeEnd, Known, ToNil, Steps
<1>14. ASSUME NEW r \in Requests, NEW a \in Addrs, Answer(r, a) PROVE TypeOK'
  BY <1>14 DEF Answer
<1>15. ASSUME NEW r \in Requests, Reply(r) PROVE TypeOK'
  BY <1>15, AnyKindIsKind DEF Reply, Steps
<1>16. CASE Crash
  BY <1>16, CrashInductive DEF IInv
<1>17. CASE UNCHANGED vars
  BY <1>17 DEF vars
<1> QED
  BY <1>1, <1>2, <1>3, <1>4, <1>5, <1>6, <1>7, <1>8, <1>9, <1>10, <1>11,
     <1>12, <1>13, <1>14, <1>15, <1>16, <1>17
     DEF Next, ReloadStep, EndReload, ListError, RequestStep, HandlerStep,
         NilCall, RacyRange

-----------------------------------------------------------------------------
(* The lock: whoever holds it for writing is alone.                        *)
LEMMA LockInductive ==
    ASSUME TypeOK, LockDiscipline, [Next]_vars PROVE LockDiscipline'
<1> USE DEF TypeOK, LockDiscipline, reqVars, tableVars
<1>1. CASE Restart
  BY <1>1 DEF Restart
<1>2. ASSUME NEW a \in Addrs, Declare(a) PROVE LockDiscipline'
  BY <1>2 DEF Declare
<1>3. CASE Tick
  BY <1>3 DEF Tick
<1>4. CASE Lock
  BY <1>4 DEF Lock
<1>5. CASE EndReload \/ ListError
  BY <1>5 DEF EndReload, ListError, Unlock
<1>6. ASSUME NEW L \in SUBSET declared, ListIndexStore(L) PROVE LockDiscipline'
  BY <1>6 DEF ListIndexStore
<1>7. ASSUME NEW a \in Addrs, Keep(a) PROVE LockDiscipline'
  BY <1>7 DEF Keep
<1>8. ASSUME NEW a \in Addrs, NEW ok \in BOOLEAN, Dial(a, ok) PROVE LockDiscipline'
  BY <1>8 DEF Dial
<1>9. ASSUME NEW r \in Requests, NEW k \in Kinds, Arrive(r, k) PROVE LockDiscipline'
  BY <1>9 DEF Arrive, WriterAhead
<1>10. ASSUME NEW r \in Requests, ReleaseEarly(r) PROVE LockDiscipline'
  BY <1>10 DEF ReleaseEarly
<1>11. ASSUME NEW r \in Requests, Count(r) PROVE LockDiscipline'
  BY <1>11 DEF Count
<1>12. ASSUME NEW r \in Requests, RangeBegin(r) PROVE LockDiscipline'
  BY <1>12 DEF RangeBegin
<1>13. ASSUME NEW r \in Requests, NEW late \in SUBSET Addrs,
              NEW stale \in SUBSET nils[r], RangeEnd(r, late, stale)
       PROVE  LockDiscipline'
  BY <1>13 DEF RangeEnd
<1>14. ASSUME NEW r \in Requests, NEW a \in Addrs, Answer(r, a) PROVE LockDiscipline'
  BY <1>14 DEF Answer
<1>15. ASSUME NEW r \in Requests, Reply(r) PROVE LockDiscipline'
  BY <1>15 DEF Reply
<1>16. CASE Crash
  BY <1>16, CrashInductive DEF IInv
<1>17. CASE UNCHANGED vars
  BY <1>17 DEF vars
<1> QED
  BY <1>1, <1>2, <1>3, <1>4, <1>5, <1>6, <1>7, <1>8, <1>9, <1>10, <1>11,
     <1>12, <1>13, <1>14, <1>15, <1>16, <1>17
     DEF Next, ReloadStep, RequestStep, HandlerStep, NilCall, RacyRange

-----------------------------------------------------------------------------
(* The table and the requests that work on it.                             *)
TableInv == CountedTable /\ WritesKnown

(* A step that leaves the table and the ranges alone.                      *)
LEMMA SameTable ==
    ASSUME TableInv,
           UNCHANGED <<table, written, cap, targets, must>>,
           \A r \in Requests : \/ kind'[r] = kind[r] /\ st'[r] = st[r]
                             \/ st'[r] \notin {"counted", "range", "gather"}
    PROVE  TableInv'
<1>1. Known' = Known
  BY DEF Known
<1> QED
  BY <1>1 DEF TableInv, CountedTable, WritesKnown

(* A dial that adds to the table: no request holds the lock.               *)
LEMMA DialKeepsTable ==
    ASSUME TypeOK, LockDiscipline, TableInv,
           NEW a \in Addrs, NEW ok \in BOOLEAN, Dial(a, ok)
    PROVE  TableInv'
<1>1. Known \subseteq Known' /\ Known' \subseteq Addrs
  BY DEF TypeOK, Dial, Known
<1>2. /\ Cardinality(Known) \in Nat /\ Cardinality(Known') \in Nat
      /\ Cardinality(Known) <= Cardinality(Known')
  BY <1>1, FiniteCount
<1>3. UNCHANGED <<written, st, kind, cap, targets, must>>
  BY DEF Dial, reqVars
<1>4. \A r \in Requests : st[r] \in {"counted", "range", "gather"} => ~Locked(kind[r])
  BY DEF Dial, LockDiscipline
<1>5. \A r \in Requests : cap[r] \in Nat
  BY DEF TypeOK
<1>6. CountedTable'
  BY <1>1, <1>2, <1>3, <1>4, <1>5 DEF TableInv, CountedTable
<1>7. WritesKnown'
  BY <1>1, <1>3 DEF TableInv, WritesKnown
<1> QED
  BY <1>6, <1>7 DEF TableInv

(* What the requests counted and ranged over stays in the table, and is    *)
(* all of it for those that hold the lock.                                 *)
LEMMA TableInductive ==
    ASSUME TypeOK, LockDiscipline, TableInv, [Next]_vars PROVE TableInv'
<1> USE DEF reqVars, tableVars
<1>1. CASE Restart
  BY <1>1, SameTable DEF Restart
<1>2. ASSUME NEW a \in Addrs, Declare(a) PROVE TableInv'
  BY <1>2, SameTable DEF Declare
<1>3. CASE Tick
  BY <1>3, SameTable DEF Tick
<1>4. CASE Lock
  BY <1>4, SameTable DEF Lock
<1>5. CASE Unlock
  BY <1>5, SameTable DEF Unlock
<1>6. ASSUME NEW L \in SUBSET declared, ListIndexStore(L) PROVE TableInv'
  BY <1>6, SameTable DEF ListIndexStore
<1>7. ASSUME NEW a \in Addrs, Keep(a) PROVE TableInv'
  BY <1>7, SameTable DEF Keep
<1>8. ASSUME NEW a \in Addrs, NEW ok \in BOOLEAN, Dial(a, ok) PROVE TableInv'
  BY <1>8, DialKeepsTable
<1>9. ASSUME NEW r \in Requests, NEW k \in Kinds, Arrive(r, k) PROVE TableInv'
  <2>1. Known' = Known
    BY <1>9 DEF Arrive, Known
  <2>2. CountedTable'
    BY <1>9, <2>1 DEF Arrive, TableInv, CountedTable, TypeOK
  <2>3. WritesKnown'
    BY <1>9, <2>1 DEF Arrive, TableInv, WritesKnown, TypeOK
  <2> QED
    BY <2>2, <2>3 DEF TableInv
<1>10. ASSUME NEW r \in Requests, ReleaseEarly(r) PROVE TableInv'
  BY <1>10, SameTable DEF ReleaseEarly, TypeOK
<1>11. ASSUME NEW r \in Requests, Count(r) PROVE TableInv'
  <2>1. Known' = Known /\ Cardinality(Known) \in Nat
    BY <1>11, FiniteCount DEF Count, Known
  <2>2. CountedTable'
    BY <1>11, <2>1 DEF Count, TableInv, CountedTable, TypeOK
  <2>3. WritesKnown'
    BY <1>11, <2>1 DEF Count, TableInv, WritesKnown, TypeOK
  <2> QED
    BY <2>2, <2>3 DEF TableInv
<1>12. ASSUME NEW r \in Requests, RangeBegin(r) PROVE TableInv'
  <2>1. Known' = Known /\ Cardinality(Known) \in Nat
    BY <1>12, FiniteCount DEF RangeBegin, Known
  <2>2. CountedTable'
    BY <1>12, <2>1 DEF RangeBegin, TableInv, CountedTable, TypeOK
  <2>3. WritesKnown'
    BY <1>12, <2>1 DEF RangeBegin, TableInv, WritesKnown, TypeOK
  <2> QED
    BY <2>2, <2>3 DEF TableInv
<1>13. ASSUME NEW r \in Requests, NEW late \in SUBSET Addrs,
              NEW stale \in SUBSET nils[r], RangeEnd(r, late, stale)
       PROVE  TableInv'
  <2>1. Known' = Known /\ Known \subseteq Addrs
    BY <1>13 DEF RangeEnd, Known
  <2>2. /\ targets[r] \subseteq targets'[r] /\ targets'[r] \subseteq Known
        /\ st[r] = "range"
        /\ \A q \in Requests \ {r} : targets'[q] = targets[q] /\ st'[q] = st[q]
        /\ UNCHANGED <<written, kind, cap, must>>
    BY <1>13 DEF RangeEnd, TypeOK, TableInv, CountedTable
  <2>3. /\ Cardinality(targets[r]) \in Nat /\ Cardinality(targets'[r]) \in Nat
        /\ Cardinality(targets[r]) <= Cardinality(targets'[r])
        /\ cap[r] \in Nat
    BY <2>1, <2>2, FiniteCount DEF TypeOK
  <2>4. CountedTable'
    <3>1. /\ IF Locked(kind[r]) THEN cap[r] = Cardinality(Known)
                               ELSE cap[r] <= Cardinality(Known)
          /\ Locked(kind[r]) => targets[r] = Known
          /\ cap[r] <= Cardinality(targets[r])
      BY <2>2 DEF TableInv, CountedTable
    <3>2. cap[r] <= Cardinality(targets'[r])
      BY <2>3, <3>1
    <3>3. Locked(kind[r]) => targets'[r] = Known
      BY <2>2, <3>1
    <3>4. \A q \in Requests : UNCHANGED <<kind[q], cap[q]>>
      BY <2>2
    <3> QED
      BY <2>1, <2>2, <3>1, <3>2, <3>3, <3>4 DEF TableInv, CountedTable
  <2>5. WritesKnown'
    BY <2>1, <2>2 DEF TableInv, WritesKnown
  <2> QED
    BY <2>4, <2>5 DEF TableInv
<1>14. ASSUME NEW r \in Requests, NEW a \in Addrs, Answer(r, a) PROVE TableInv'
  BY <1>14, SameTable DEF Answer
<1>15. ASSUME NEW r \in Requests, Reply(r) PROVE TableInv'
  <2>1. Known' = Known
    BY <1>15 DEF Reply, Known
  <2>2. CountedTable'
    BY <1>15, <2>1 DEF Reply, TableInv, CountedTable, TypeOK
  <2>3. WritesKnown'
    BY <1>15, <2>1 DEF Reply, TableInv, WritesKnown, CountedTable, TypeOK
  <2> QED
    BY <2>2, <2>3 DEF TableInv
<1>16. CASE Crash
  BY <1>16, CrashInductive DEF IInv, TableInv
<1>17. CASE UNCHANGED vars
  BY <1>17, SameTable DEF vars
<1> QED
  BY <1>1, <1>2, <1>3, <1>4, <1>5, <1>6, <1>7, <1>8, <1>9, <1>10, <1>11,
     <1>12, <1>13, <1>14, <1>15, <1>16, <1>17
     DEF Next, ReloadStep, EndReload, ListError, RequestStep, HandlerStep,
         NilCall, RacyRange

-----------------------------------------------------------------------------
(* The three parts of the invariant, together.                             *)
LEMMA Inductive == IInv /\ [Next]_vars => IInv'
BY TypeInductive, LockInductive, TableInductive DEF IInv, TableInv

(* The invariant holds in every reachable state.                           *)
LEMMA Invariance == Spec => []IInv
BY Initial, Inductive, PTL DEF Spec

(* The variables of the gate keep their types, across crashes and restarts *)
(* of the process.                                                         *)
THEOREM TypeCorrect == Spec => []TypeOK
BY Invariance, PTL DEF IInv

(* srv.rw does what Put and Delete hold it for: whatever the reloads and   *)
(* the other requests, they count and range over one and the same table.   *)
THEOREM LockedRangesAreWhole == Spec => []LockedSeesWholeTable
<1>1. IInv => LockedSeesWholeTable
  BY DEF IInv, CountedTable, LockedSeesWholeTable
<1> QED
  BY <1>1, Invariance, PTL

(* The channel in of a request is never larger than its range, also when   *)
(* the table grows in between: what GateFanout takes for granted.          *)
THEOREM CountsAreAtMostRanges == Spec => []CountIsAtMostRange
<1>1. IInv => CountIsAtMostRange
  BY DEF IInv, CountedTable, CountIsAtMostRange
<1> QED
  BY <1>1, Invariance, PTL

(* A backend that a Put was sent to before a request arrived is asked by   *)
(* that request.                                                           *)
THEOREM ReadsAskWriters == Spec => []ReadsCoverWrites
<1>1. IInv => ReadsCoverWrites
  BY DEF IInv, WritesKnown, ReadsCoverWrites
<1> QED
  BY <1>1, Invariance, PTL

(* The reload goroutine writes the table only when no Put and no Delete    *)
(* works on it.                                                            *)
THEOREM TableIsStableUnderLock == Spec => NoWriteUnderReader
<1>1. ASSUME IInv, [Next]_vars, up', table' # table, NEW r \in Requests, Locked(kind[r])
      PROVE  st[r] \in {"idle", "blocked"}
  <2>1. PICK a \in Addrs, ok \in BOOLEAN : Dial(a, ok)
    BY <1>1 DEF Next, Restart, Declare, ReloadStep, Tick, Lock, ListError, EndReload,
       Unlock, ListIndexStore, Keep, RequestStep, HandlerStep, Arrive, ReleaseEarly,
       Count, RangeBegin, RangeEnd, Answer, Reply, NilCall, RacyRange, Crash,
       vars, tableVars, reqVars
  <2>2. r \notin readers
    BY <1>1, <2>1 DEF IInv, LockDiscipline, Dial
  <2> QED
    BY <1>1, <2>2 DEF IInv, LockDiscipline, TypeOK, Steps
<1>2. IInv /\ [Next]_vars =>
        [up' /\ table' # table =>
           \A r \in Requests : Locked(kind[r]) => st[r] \in {"idle", "blocked"}]_vars
  BY <1>1
<1> QED
  BY <1>2, Invariance, PTL DEF Spec, NoWriteUnderReader

(* "We avoid closing/reopening connections to stable backends": neither a  *)
(* reload nor a request closes a connection or opens a second one.         *)
THEOREM ConnectionsAreStable == Spec => NeverRedials
<1>1. ASSUME IInv, [Next]_vars, up', NEW a \in Addrs, table[a] = "open"
      PROVE  table'[a] = "open" /\ dials'[a] = dials[a]
  <2>1. ASSUME NEW b \in Addrs, NEW ok \in BOOLEAN, Dial(b, ok)
        PROVE  table'[a] = "open" /\ dials'[a] = dials[a]
    BY <1>1, <2>1 DEF IInv, TypeOK, Dial
  <2>2. CASE UNCHANGED <<table, dials>>
    BY <1>1, <2>2
  <2> QED
    BY <1>1, <2>1, <2>2 DEF Next, Restart, Declare, ReloadStep, Tick, Lock, ListError,
       EndReload, Unlock, ListIndexStore, Keep, RequestStep, HandlerStep, Arrive,
       ReleaseEarly, Count, RangeBegin, RangeEnd, Answer, Reply, NilCall, RacyRange,
       Crash, vars, tableVars, reqVars
<1>2. IInv /\ [Next]_vars =>
        [up' => \A a \in Addrs : table[a] = "open" =>
                   table'[a] = "open" /\ dials'[a] = dials[a]]_vars
  BY <1>1
<1> QED
  BY <1>2, Invariance, PTL DEF Spec, NeverRedials

(* The process dies of a nil connection, or of a Get or a List that ranges *)
(* over the table while the reload writes it, and of nothing else.         *)
THEOREM DiesOfTwoThings == Spec => OnlyWaysToDie
<1> DEFINE Cause ==
             \E r \in Requests :
                 \/ st[r] = "gather" /\ nils[r] # {}
                 \/ st[r] = "range" /\ kind[r] \in {"Get", "List"}
<1>1. ASSUME IInv, [Next]_vars, up, ~up' PROVE Cause
  <2>1. ASSUME NEW r \in Requests, NilCall(r) PROVE Cause
    <3>1. st[r] = "gather" /\ nils[r] \ answered[r] # {}
      BY <2>1 DEF NilCall
    <3>2. nils[r] # {}
      BY <3>1
    <3> QED
      BY <3>1, <3>2
  <2>2. ASSUME NEW r \in Requests, RacyRange(r) PROVE Cause
    <3>1. kind[r] \in {"Put", "Delete", "Get", "List"}
      BY <1>1, KindsAssumption DEF IInv, TypeOK
    <3> QED
      BY <1>1, <2>2, <3>1 DEF RacyRange, IInv, LockDiscipline, Locked
  <2> QED
    BY <1>1, <2>1, <2>2
       DEF Next, Restart, Declare, ReloadStep, Tick, Lock, ListError, EndReload,
           Unlock, ListIndexStore, Keep, Dial, RequestStep, HandlerStep, Arrive,
           ReleaseEarly, Count, RangeBegin, RangeEnd, Answer, Reply, vars
<1>2. IInv /\ [Next]_vars => [up /\ ~up' => Cause]_vars
  BY <1>1
<1> QED
  BY <1>2, Invariance, PTL DEF Spec, OnlyWaysToDie

-----------------------------------------------------------------------------
(* Where dials never fail, no connection is nil; where only Put and Delete *)
(* are called, no range goes without the lock: the gate stays up.          *)
NoNil == /\ up
         /\ \A a \in Addrs : table[a] # "nil"
         /\ \A r \in Requests : nils[r] = {}

(* A gate that serves Puts and Deletes, and whose dials succeed, never     *)
(* dies.                                                                   *)
THEOREM NeverDiesOfWrites ==
    ASSUME Kinds \subseteq {"Put", "Delete"}, ~DialMayFail
    PROVE  Spec => []StaysUp
<1>1. Init => NoNil
  BY DEF Init, NoNil, Each
<1>2. ASSUME IInv, NoNil, [Next]_vars PROVE NoNil'
  <2> USE <1>2 DEF NoNil, reqVars, tableVars
  <2>1. ASSUME NEW r \in Requests, NilCall(r) PROVE FALSE
    BY <2>1 DEF NilCall
  <2>2. ASSUME NEW r \in Requests, RacyRange(r) PROVE FALSE
    <3>1. kind[r] \in {"Put", "Delete"}
      BY <1>2 DEF IInv, TypeOK
    <3> QED
      BY <2>2, <3>1 DEF RacyRange, IInv, LockDiscipline, Locked
  <2>3. ASSUME NEW a \in Addrs, NEW ok \in BOOLEAN, Dial(a, ok) PROVE NoNil'
    BY <2>3 DEF Dial, IInv, TypeOK
  <2>4. ASSUME NEW r \in Requests, RangeBegin(r) PROVE NoNil'
    BY <2>4 DEF RangeBegin, ToNil, IInv, TypeOK
  <2>5. ASSUME NEW r \in Requests, NEW late \in SUBSET Addrs,
               NEW stale \in SUBSET nils[r], RangeEnd(r, late, stale)
        PROVE  NoNil'
    BY <2>5 DEF RangeEnd, ToNil, IInv, TypeOK
  <2>6. ASSUME NEW r \in Requests, Reply(r) PROVE NoNil'
    BY <2>6 DEF Reply, IInv, TypeOK
  <2>7. CASE UNCHANGED <<up, table, nils>>
    BY <2>7
  <2>8. CASE Restart
    BY <2>8 DEF Restart
  <2> QED
    BY <2>1, <2>2, <2>3, <2>4, <2>5, <2>6, <2>7, <2>8
       DEF Next, Declare, ReloadStep, Tick, Lock, ListError, EndReload, Unlock,
           ListIndexStore, Keep, RequestStep, HandlerStep, Arrive, ReleaseEarly,
           Count, Answer, vars
<1>3. NoNil => StaysUp
  BY DEF NoNil, StaysUp
<1> QED
  BY <1>1, <1>2, <1>3, Invariance, PTL DEF Spec

-----------------------------------------------------------------------------
(* The requests that the table outgrew.                                    *)

(* Only a Get or a List is ever stuck, and then without the lock: the      *)
(* reloads and the other requests go on.                                   *)
THEOREM StuckHoldsNoLock ==
    Spec => [](\A r \in Requests : Stuck(r) => kind[r] \in {"Get", "List"} /\ r \notin readers)
<1>1. ASSUME IInv, NEW r \in Requests, Stuck(r)
      PROVE  kind[r] \in {"Get", "List"} /\ r \notin readers
  <2>1. st[r] = "gather" /\ ~ (Cardinality(targets[r]) <= cap[r] + Absorb)
    BY <1>1 DEF Stuck, Fits
  <2>2. kind[r] \in {"Put", "Delete", "Get", "List"} /\ cap[r] \in Nat
    BY <1>1, KindsAssumption DEF IInv, TypeOK
  <2>3. ~ Locked(kind[r])
    <3> SUFFICES ASSUME Locked(kind[r]) PROVE FALSE
      OBVIOUS
    <3>1. cap[r] = Cardinality(Known) /\ targets[r] = Known
      BY <1>1, <2>1 DEF IInv, CountedTable
    <3> QED
      BY <2>1, <2>2, <3>1, AbsorbAssumption
  <2> QED
    BY <1>1, <2>1, <2>2, <2>3 DEF IInv, LockDiscipline, Locked
<1>2. IInv => \A r \in Requests : Stuck(r) => kind[r] \in {"Get", "List"} /\ r \notin readers
  BY <1>1
<1> QED
  BY <1>2, Invariance, PTL

(* Nothing but the end of the process frees a request that is stuck: the   *)
(* table never shrinks, and nobody reads its pipeline.                     *)
THEOREM StuckForEver ==
    Spec => [][up' => \A r \in Requests : Stuck(r) => Stuck(r)']_vars
<1>1. ASSUME IInv, [Next]_vars, up', NEW r \in Requests, Stuck(r) PROVE Stuck(r)'
  <2>1. /\ st[r] = "gather" /\ ~ Fits(r)
        /\ st \in [Requests -> Steps] /\ targets \in [Requests -> SUBSET Addrs]
        /\ cap \in [Requests -> Nat]
    BY <1>1 DEF Stuck, IInv, TypeOK
  <2>2. CASE st'[r] = st[r] /\ targets'[r] = targets[r] /\ cap'[r] = cap[r]
    BY <2>1, <2>2 DEF Stuck, Fits
  <2>3. ASSUME NEW q \in Requests, NEW k \in Kinds, Arrive(q, k)
        PROVE  st'[r] = st[r] /\ targets'[r] = targets[r] /\ cap'[r] = cap[r]
    BY <2>1, <2>3 DEF Arrive
  <2>4. ASSUME NEW q \in Requests, ReleaseEarly(q) \/ Count(q) \/ RangeBegin(q)
        PROVE  st'[r] = st[r] /\ targets'[r] = targets[r] /\ cap'[r] = cap[r]
    BY <2>1, <2>4 DEF ReleaseEarly, Count, RangeBegin
  <2>5. ASSUME NEW q \in Requests, NEW late \in SUBSET Addrs, NEW stale \in SUBSET nils[q],
               RangeEnd(q, late, stale)
        PROVE  st'[r] = st[r] /\ targets'[r] = targets[r] /\ cap'[r] = cap[r]
    BY <2>1, <2>5 DEF RangeEnd
  <2>6. ASSUME NEW q \in Requests, Reply(q)
        PROVE  st'[r] = st[r] /\ targets'[r] = targets[r] /\ cap'[r] = cap[r]
    BY <2>1, <2>6 DEF Reply
  <2>7. CASE Unlock
    BY <2>1, <2>2, <2>7 DEF Unlock
  <2>8. CASE UNCHANGED <<st, targets, cap>>
    BY <2>2, <2>8
  <2>9. ASSUME NEW q \in Requests, NilCall(q) \/ RacyRange(q) PROVE FALSE
    BY <1>1, <2>9 DEF NilCall, RacyRange, Crash
  <2> QED
    BY <1>1, <2>2, <2>3, <2>4, <2>5, <2>6, <2>7, <2>8, <2>9
       DEF Next, Restart, Declare, ReloadStep, Tick, Lock, ListError, EndReload,
           ListIndexStore, Keep, Dial, RequestStep, HandlerStep, Answer, vars, reqVars, tableVars
<1>2. IInv /\ [Next]_vars => [up' => \A r \in Requests : Stuck(r) => Stuck(r)']_vars
  BY <1>1
<1> QED
  BY <1>2, Invariance, PTL DEF Spec
=============================================================================
