--------------------------- MODULE GateFanoutProofs ---------------------------
(* Theorems about GateFanout, for any number of backends and of workers.   *)
EXTENDS GateFanout, FiniteSetTheorems, TLAPS

(* A worker holds a backend while it calls it and sends the answer.        *)
JobIsHeld ==
    \A w \in Workers : Full(job[w]) <=> wpc[w] \in {"call", "send"}

(* The order in which the stages of the pipeline are closed: the range,    *)
(* the channel in, the workers, the consumers, the merged channel.         *)
ClosedInOrder ==
    /\ main # "enqueue" => todo = {}
    /\ \A w \in Workers : wpc[w] = "exit" => main # "enqueue" /\ in = {}
    /\ \A w \in left : wpc[w] = "exit" /\ ~Full(out[w]) /\ ~Full(relay[w])
    /\ closed => left = Workers
    /\ main = "done" => closed
    /\ main # "done" <=> reply = "pending"
    /\ main = "done" => reply = Verdict(answers)

CountedUnderLock == Locked(op) => cap = Cardinality(Targets)

IInv == /\ TypeOK
        /\ OneAnswerPerBackend
        /\ NoBackendLost
        /\ JobIsHeld
        /\ ClosedInOrder
        /\ CountedUnderLock

-----------------------------------------------------------------------------
(* A set of backends that is part of the range is finite, and counted.     *)
LEMMA FiniteCount ==
    ASSUME NEW S \in SUBSET Targets
    PROVE  IsFiniteSet(S) /\ Cardinality(S) \in Nat
BY TargetsAssumption, FS_Subset, FS_CardinalityType

(* The handler starts with everything in its range.                        *)
LEMMA Initial == Init => IInv
<1> SUFFICES ASSUME Init PROVE IInv
  OBVIOUS
<1>1. TypeOK
  <2>1. Cardinality({}) = 0 /\ Cardinality(Targets) \in Nat
    BY FS_EmptySet, FiniteCount
  <2>2. in = {} /\ cap \in 0 .. Cardinality(Targets)
    BY <2>1 DEF Init, Counts
  <2>3. Cardinality(in) <= cap
    BY <2>1, <2>2
  <2> QED
    BY <2>2, <2>3 DEF Init, TypeOK, Slot, Empty
<1>2. \A s \in Stages, w \in Workers : Held(s, w) = None
  BY DEF Init, Stages, Held, Empty
<1>3. OneAnswerPerBackend /\ NoBackendLost
  BY <1>2 DEF Init, OneAnswerPerBackend, NoBackendLost, Answered
<1>4. JobIsHeld /\ ClosedInOrder /\ CountedUnderLock
  BY DEF Init, Counts, JobIsHeld, ClosedInOrder, CountedUnderLock, Full, Empty
<1> QED
  BY <1>1, <1>3, <1>4 DEF IInv

-----------------------------------------------------------------------------
(* The type of every variable is kept by every action.                     *)
LEMMA TypeInductive == TypeOK /\ [Next]_vars => TypeOK'
<1> SUFFICES ASSUME TypeOK, [Next]_vars PROVE TypeOK'
  OBVIOUS
<1> USE TargetsAssumption DEF TypeOK, Slot, Empty, Full, Answer
<1>1. ASSUME NEW a \in Targets, Enqueue(a) PROVE TypeOK'
  <2>1. Cardinality(in \cup {a}) <= cap
    <3>1. IsFiniteSet(in) /\ Cardinality(in) \in Nat /\ Cardinality(Targets) \in Nat
      BY FiniteCount
    <3>2. Cardinality(in \cup {a}) = IF a \in in THEN Cardinality(in)
                                     ELSE Cardinality(in) + 1
      BY <3>1, FS_AddElement
    <3> QED
      BY <1>1, <3>1, <3>2 DEF Enqueue
  <2> QED
    BY <1>1, <2>1 DEF Enqueue
<1>2. ASSUME NEW a \in Targets, NEW w \in Workers, EnqueueHandoff(a, w)
      PROVE  TypeOK'
  BY <1>2 DEF EnqueueHandoff
<1>3. CASE CloseIn
  BY <1>3 DEF CloseIn
<1>4. ASSUME NEW w \in Workers, Gather(w) PROVE TypeOK'
  BY <1>4 DEF Gather
<1>5. CASE Reply
  BY <1>5 DEF Reply, Verdict
<1>6. ASSUME NEW w \in Workers, NEW a \in Targets, Take(w, a) PROVE TypeOK'
  <2>1. Cardinality(in \ {a}) <= cap
    <3>1. IsFiniteSet(in) /\ Cardinality(in) \in Nat /\ Cardinality(Targets) \in Nat
      BY FiniteCount
    <3>2. Cardinality(in \ {a}) = IF a \in in THEN Cardinality(in) - 1
                                  ELSE Cardinality(in)
      BY <3>1, FS_RemoveElement
    <3> QED
      BY <3>1, <3>2
  <2> QED
    BY <1>6, <2>1 DEF Take
<1>7. ASSUME NEW w \in Workers, NEW ok \in BOOLEAN, Call(w, ok) PROVE TypeOK'
  BY <1>7 DEF Call
<1>8. ASSUME NEW w \in Workers, Send(w) PROVE TypeOK'
  BY <1>8 DEF Send
<1>9. ASSUME NEW w \in Workers, SendHandoff(w) PROVE TypeOK'
  BY <1>9 DEF SendHandoff
<1>10. ASSUME NEW w \in Workers, WorkerExit(w) PROVE TypeOK'
  BY <1>10 DEF WorkerExit
<1>11. ASSUME NEW w \in Workers, Relay(w) PROVE TypeOK'
  BY <1>11 DEF Relay
<1>12. ASSUME NEW w \in Workers, ConsumerExit(w) PROVE TypeOK'
  BY <1>12 DEF ConsumerExit
<1>13. CASE CloseOut
  BY <1>13 DEF CloseOut
<1>14. CASE UNCHANGED vars
  BY <1>14 DEF vars
<1> QED
  BY <1>1, <1>2, <1>3, <1>4, <1>5, <1>6, <1>7, <1>8, <1>9, <1>10, <1>11,
     <1>12, <1>13, <1>14 DEF Next, HandlerStep, WorkerStep, ConsumerStep

-----------------------------------------------------------------------------
(* What an action does to the places of the pipeline, in one formula: the  *)
(* place (s, w) receives x, and the others keep what they had.             *)
Puts(s, w, x) ==
    \A t \in Stages, v \in Workers :
        Held(t, v)' = IF t = s /\ v = w THEN x ELSE Held(t, v)

Moves(s, t, w) ==
    \A u \in Stages, v \in Workers :
        Held(u, v)' = IF v # w THEN Held(u, v)
                      ELSE IF u = t THEN Held(s, w)
                      ELSE IF u = s THEN None
                      ELSE Held(u, v)

Still == \A s \in Stages, w \in Workers : Held(s, w)' = Held(s, w)

(* What the pipeline holds after a worker took a backend.                  *)
LEMMA PutsInJob ==
    ASSUME NEW w \in Workers, NEW a, TypeOK,
           job' = [job EXCEPT ![w] = [addr |-> a, ok |-> FALSE]],
           UNCHANGED <<out, relay>>
    PROVE  Puts("job", w, a)
BY DEF TypeOK, Puts, Held, Stages

(* The return of an RPC moves nothing.                                     *)
LEMMA AnswersInJob ==
    ASSUME NEW w \in Workers, NEW ok, TypeOK, job' = [job EXCEPT ![w].ok = ok],
           UNCHANGED <<out, relay>>
    PROVE  Still
BY DEF TypeOK, Still, Held, Stages, Slot

(* A worker that sends moves its answer into its own channel...            *)
LEMMA JobMovesToOut ==
    ASSUME NEW w \in Workers, TypeOK, out' = [out EXCEPT ![w] = job[w]],
           job' = [job EXCEPT ![w] = Empty], UNCHANGED relay
    PROVE  Moves("job", "out", w)
BY DEF TypeOK, Moves, Held, Stages, Empty

(* ... or, without a buffer, hands it to its consumer.                     *)
LEMMA JobMovesToRelay ==
    ASSUME NEW w \in Workers, TypeOK, relay' = [relay EXCEPT ![w] = job[w]],
           job' = [job EXCEPT ![w] = Empty], UNCHANGED out
    PROVE  Moves("job", "relay", w)
BY DEF TypeOK, Moves, Held, Stages, Empty

(* A consumer takes the answer out of the channel of its worker.           *)
LEMMA OutMovesToRelay ==
    ASSUME NEW w \in Workers, TypeOK, relay' = [relay EXCEPT ![w] = out[w]],
           out' = [out EXCEPT ![w] = Empty], UNCHANGED job
    PROVE  Moves("out", "relay", w)
BY DEF TypeOK, Moves, Held, Stages, Empty

-----------------------------------------------------------------------------
(* The backends are shared out between the range, the channel in, the      *)
(* places of the pipeline and the answers: each kind of move keeps it so.  *)
Partition == OneAnswerPerBackend /\ NoBackendLost

(* An answer that moves from one stage of a worker to a free one keeps     *)
(* every backend in one place.                                             *)
LEMMA MoveKeepsPartition ==
    ASSUME Partition, NEW w \in Workers, NEW s \in Stages, NEW t \in Stages,
           s # t, Held(t, w) = None, Moves(s, t, w),
           UNCHANGED <<todo, in, answers>>
    PROVE  Partition'
<1>1. Answered' = Answered
  BY DEF Answered
<1>2. OneAnswerPerBackend'
  <2>1. (todo \cap in = {} /\ (todo \cup in) \cap Answered = {})'
    BY <1>1 DEF Partition, OneAnswerPerBackend
  <2>2. ASSUME NEW u \in Stages, NEW v \in Workers, Held(u, v)' # None
        PROVE  /\ Held(u, v)' \notin todo \cup in \cup Answered
               /\ \A x \in Stages, y \in Workers :
                      Held(x, y)' = Held(u, v)' => x = u /\ y = v
    BY <2>2 DEF Partition, OneAnswerPerBackend, Moves
  <2> QED
    BY <1>1, <2>1, <2>2 DEF OneAnswerPerBackend
<1>3. ASSUME NEW a \in Targets \ (todo \cup in \cup Answered), a # None
      PROVE  \E u \in Stages, v \in Workers : Held(u, v)' = a
  <2>1. PICK u \in Stages, v \in Workers : Held(u, v) = a
    BY DEF Partition, NoBackendLost
  <2>2. CASE v # w \/ u \notin {s, t}
    BY <2>1, <2>2 DEF Moves
  <2>3. CASE v = w /\ u = s
    BY <2>1, <2>3 DEF Moves
  <2> QED
    BY <1>3, <2>1, <2>2, <2>3
<1> QED
  BY <1>1, <1>2, <1>3, TargetsAssumption DEF Partition, NoBackendLost

(* A worker that holds nothing takes the backend a of the range or of in.  *)
LEMMA TakeKeepsPartition ==
    ASSUME TypeOK, Partition, NEW w \in Workers, NEW a \in todo \cup in,
           Held("job", w) = None, Puts("job", w, a),
           todo' = todo \ {a}, in' = in \ {a}, UNCHANGED answers
    PROVE  Partition'
<1>1. Answered' = Answered
  BY DEF Answered
<1>2. (todo \cap in = {} /\ (todo \cup in) \cap Answered = {})'
  BY <1>1 DEF Partition, OneAnswerPerBackend
<1>3. \A u \in Stages, v \in Workers : Held(u, v) # a
  BY TargetsAssumption DEF Partition, OneAnswerPerBackend, TypeOK
<1>4. a \notin Answered
  BY DEF Partition, OneAnswerPerBackend
<1>5. ASSUME NEW u \in Stages, NEW v \in Workers, Held(u, v)' # None
      PROVE  /\ Held(u, v)' \notin (todo \cup in \cup Answered)'
             /\ \A x \in Stages, y \in Workers :
                    Held(x, y)' = Held(u, v)' => x = u /\ y = v
  <2>1. CASE u = "job" /\ v = w
    BY <1>1, <1>3, <1>4, <2>1 DEF Puts
  <2>2. CASE ~(u = "job" /\ v = w)
    BY <1>1, <1>3, <1>5, <2>2 DEF Puts, Partition, OneAnswerPerBackend
  <2> QED
    BY <2>1, <2>2
<1>6. ASSUME NEW b \in Targets \ (todo \cup in \cup Answered)'
      PROVE  \E u \in Stages, v \in Workers : Held(u, v)' = b
  <2>1. CASE b = a
    BY <2>1 DEF Puts, Stages
  <2>2. CASE b # a
    <3>1. PICK u \in Stages, v \in Workers : Held(u, v) = b
      BY <1>1, <2>2 DEF Partition, NoBackendLost
    <3>2. b # None
      BY TargetsAssumption
    <3> QED
      BY <3>1, <3>2 DEF Puts
  <2> QED
    BY <2>1, <2>2
<1> QED
  BY <1>2, <1>5, <1>6 DEF Partition, OneAnswerPerBackend, NoBackendLost

(* The handler gathers the answer that the consumer w holds.               *)
LEMMA GatherKeepsPartition ==
    ASSUME TypeOK, Partition, NEW w \in Workers, Held("relay", w) # None,
           Puts("relay", w, None), UNCHANGED <<todo, in>>,
           Answered' = Answered \cup {Held("relay", w)}
    PROVE  Partition'
<1>1. (todo \cap in = {} /\ (todo \cup in) \cap Answered = {})'
  BY DEF Partition, OneAnswerPerBackend, Stages
<1>2. ASSUME NEW u \in Stages, NEW v \in Workers, Held(u, v)' # None
      PROVE  /\ Held(u, v)' \notin (todo \cup in \cup Answered)'
             /\ \A x \in Stages, y \in Workers :
                    Held(x, y)' = Held(u, v)' => x = u /\ y = v
  BY <1>2 DEF Puts, Partition, OneAnswerPerBackend, Stages
<1>3. ASSUME NEW b \in Targets \ (todo \cup in \cup Answered)'
      PROVE  \E u \in Stages, v \in Workers : Held(u, v)' = b
  <2>1. PICK u \in Stages, v \in Workers : Held(u, v) = b
    BY DEF Partition, NoBackendLost
  <2> QED
    BY <2>1 DEF Puts
<1> QED
  BY <1>1, <1>2, <1>3 DEF Partition, OneAnswerPerBackend, NoBackendLost

(* The backend a goes from the range into the channel in.                  *)
LEMMA EnqueueKeepsPartition ==
    ASSUME Partition, NEW a \in todo, Still,
           todo' = todo \ {a}, in' = in \cup {a}, UNCHANGED answers
    PROVE  Partition'
<1>1. Answered' = Answered
  BY DEF Answered
<1> QED
  BY <1>1 DEF Still, Partition, OneAnswerPerBackend, NoBackendLost

(* Nothing moves.                                                          *)
LEMMA StillKeepsPartition ==
    ASSUME Partition, Still, UNCHANGED <<todo, in, answers>>
    PROVE  Partition'
<1>1. Answered' = Answered
  BY DEF Answered
<1> QED
  BY <1>1 DEF Still, Partition, OneAnswerPerBackend, NoBackendLost

(* A step that leaves the slots alone leaves alone what they hold.         *)
LEMMA SameSlotsAreStill ==
    ASSUME UNCHANGED <<job, out, relay>> PROVE Still
BY DEF Still, Held, Stages

(* Every action keeps every backend in one place, and loses none.          *)
LEMMA PartitionInductive ==
    ASSUME TypeOK, Partition, JobIsHeld, [Next]_vars PROVE Partition'
<1>1. ASSUME NEW a \in Targets, Enqueue(a) PROVE Partition'
  BY <1>1, SameSlotsAreStill, EnqueueKeepsPartition DEF Enqueue
<1>2. ASSUME NEW a \in Targets, NEW w \in Workers, EnqueueHandoff(a, w)
      PROVE  Partition'
  <2>1. Held("job", w) = None
    BY <1>2 DEF EnqueueHandoff, JobIsHeld, Held, Full
  <2>2. Puts("job", w, a)
    BY <1>2, PutsInJob DEF EnqueueHandoff
  <2>3. in = in \ {a}
    BY <1>2 DEF EnqueueHandoff, Partition, OneAnswerPerBackend
  <2> QED
    BY <1>2, <2>1, <2>2, <2>3, TakeKeepsPartition DEF EnqueueHandoff
<1>3. CASE CloseIn
  BY <1>3, SameSlotsAreStill, StillKeepsPartition DEF CloseIn
<1>4. ASSUME NEW w \in Workers, Gather(w) PROVE Partition'
  <2>1. Held("relay", w) # None
    BY <1>4 DEF Gather, Full, Held
  <2>2. Puts("relay", w, None)
    BY <1>4 DEF Gather, TypeOK, Puts, Held, Stages, Empty
  <2>3. Answered' = Answered \cup {Held("relay", w)}
    BY <1>4 DEF Gather, Answered, Held
  <2> QED
    BY <1>4, <2>1, <2>2, <2>3, GatherKeepsPartition DEF Gather
<1>5. CASE Reply
  BY <1>5, SameSlotsAreStill, StillKeepsPartition DEF Reply
<1>6. ASSUME NEW w \in Workers, NEW a \in Targets, Take(w, a) PROVE Partition'
  <2>1. Held("job", w) = None
    BY <1>6 DEF Take, JobIsHeld, Held, Full
  <2>2. Puts("job", w, a)
    BY <1>6, PutsInJob DEF Take
  <2>3. todo = todo \ {a}
    BY <1>6 DEF Take, Partition, OneAnswerPerBackend
  <2> QED
    BY <1>6, <2>1, <2>2, <2>3, TakeKeepsPartition DEF Take
<1>7. ASSUME NEW w \in Workers, NEW ok \in BOOLEAN, Call(w, ok) PROVE Partition'
  BY <1>7, AnswersInJob, StillKeepsPartition DEF Call
<1>8. ASSUME NEW w \in Workers, Send(w) PROVE Partition'
  <2>1. Held("out", w) = None
    BY <1>8 DEF Send, Held, Full
  <2>2. Moves("job", "out", w)
    BY <1>8, JobMovesToOut DEF Send
  <2> QED
    BY <1>8, <2>1, <2>2, MoveKeepsPartition DEF Send, Stages
<1>9. ASSUME NEW w \in Workers, SendHandoff(w) PROVE Partition'
  <2>1. Held("relay", w) = None
    BY <1>9 DEF SendHandoff, Held, Full
  <2>2. Moves("job", "relay", w)
    BY <1>9, JobMovesToRelay DEF SendHandoff
  <2> QED
    BY <1>9, <2>1, <2>2, MoveKeepsPartition DEF SendHandoff, Stages
<1>10. ASSUME NEW w \in Workers, WorkerExit(w) PROVE Partition'
  BY <1>10, SameSlotsAreStill, StillKeepsPartition DEF WorkerExit
<1>11. ASSUME NEW w \in Workers, Relay(w) PROVE Partition'
  <2>1. Held("relay", w) = None
    BY <1>11 DEF Relay, Held, Full
  <2>2. Moves("out", "relay", w)
    BY <1>11, OutMovesToRelay DEF Relay
  <2> QED
    BY <1>11, <2>1, <2>2, MoveKeepsPartition DEF Relay, Stages
<1>12. ASSUME NEW w \in Workers, ConsumerExit(w) PROVE Partition'
  BY <1>12, SameSlotsAreStill, StillKeepsPartition DEF ConsumerExit
<1>13. CASE CloseOut
  BY <1>13, SameSlotsAreStill, StillKeepsPartition DEF CloseOut
<1>14. CASE UNCHANGED vars
  BY <1>14, SameSlotsAreStill, StillKeepsPartition DEF vars
<1> QED
  BY <1>1, <1>2, <1>3, <1>4, <1>5, <1>6, <1>7, <1>8, <1>9, <1>10, <1>11,
     <1>12, <1>13, <1>14 DEF Next, HandlerStep, WorkerStep, ConsumerStep

-----------------------------------------------------------------------------
(* The pipeline is closed from its head to its tail.                       *)
LEMMA OrderInductive ==
    ASSUME TypeOK, JobIsHeld, ClosedInOrder, CountedUnderLock, [Next]_vars
    PROVE  JobIsHeld' /\ ClosedInOrder' /\ CountedUnderLock'
<1> DEFINE Goal == JobIsHeld /\ ClosedInOrder /\ CountedUnderLock
<1> USE TargetsAssumption DEF TypeOK, JobIsHeld, ClosedInOrder, CountedUnderLock, Full, Empty
<1>1. ASSUME NEW a \in Targets, Enqueue(a) PROVE Goal'
  BY <1>1 DEF Enqueue
<1>2. ASSUME NEW a \in Targets, NEW w \in Workers, EnqueueHandoff(a, w)
      PROVE  Goal'
  BY <1>2 DEF EnqueueHandoff
<1>3. CASE CloseIn
  BY <1>3 DEF CloseIn
<1>4. ASSUME NEW w \in Workers, Gather(w) PROVE Goal'
  BY <1>4 DEF Gather
<1>5. CASE Reply
  BY <1>5 DEF Reply, Verdict
<1>6. ASSUME NEW w \in Workers, NEW a \in Targets, Take(w, a) PROVE Goal'
  BY <1>6 DEF Take
<1>7. ASSUME NEW w \in Workers, NEW ok \in BOOLEAN, Call(w, ok) PROVE Goal'
  BY <1>7 DEF Call, Slot
<1>8. ASSUME NEW w \in Workers, Send(w) PROVE Goal'
  BY <1>8 DEF Send
<1>9. ASSUME NEW w \in Workers, SendHandoff(w) PROVE Goal'
  BY <1>9 DEF SendHandoff
<1>10. ASSUME NEW w \in Workers, WorkerExit(w) PROVE Goal'
  BY <1>10 DEF WorkerExit
<1>11. ASSUME NEW w \in Workers, Relay(w) PROVE Goal'
  BY <1>11 DEF Relay
<1>12. ASSUME NEW w \in Workers, ConsumerExit(w) PROVE Goal'
  BY <1>12 DEF ConsumerExit
<1>13. CASE CloseOut
  BY <1>13 DEF CloseOut
<1>14. CASE UNCHANGED vars
  BY <1>14 DEF vars, Verdict
<1> QED
  BY <1>1, <1>2, <1>3, <1>4, <1>5, <1>6, <1>7, <1>8, <1>9, <1>10, <1>11,
     <1>12, <1>13, <1>14 DEF Next, HandlerStep, WorkerStep, ConsumerStep

-----------------------------------------------------------------------------
(* The invariant holds in every reachable state.                           *)
LEMMA Invariance == Spec => []IInv
<1>1. IInv /\ [Next]_vars => IInv'
  BY TypeInductive, PartitionInductive, OrderInductive DEF IInv, Partition
<1> QED
  BY Initial, <1>1, PTL DEF Spec

(* The variables of the pipeline keep their types, and the channel in      *)
(* never holds more than its capacity.                                     *)
THEOREM TypeCorrect == Spec => []TypeOK
BY Invariance, PTL DEF IInv

(* No backend is called twice, or counted twice, by the goroutines of one  *)
(* request, whatever their number.                                         *)
THEOREM CountedOnce == Spec => []OneAnswerPerBackend
BY Invariance, PTL DEF IInv

(* No answer is lost between a worker and the handler.                     *)
THEOREM NoneLost == Spec => []NoBackendLost
BY Invariance, PTL DEF IInv

(* The merged channel is closed after the last answer was gathered.        *)
LEMMA ClosedIsDrained == IInv /\ closed => Answered = Targets
<1> SUFFICES ASSUME IInv, closed PROVE Answered = Targets
  OBVIOUS
<1> USE DEF IInv
<1>1. \A w \in Workers : wpc[w] = "exit" /\ ~Full(out[w]) /\ ~Full(relay[w])
  BY DEF ClosedInOrder
<1>2. in = {} /\ todo = {}
  BY <1>1, WorkersAssumption DEF ClosedInOrder
<1>3. \A s \in Stages, w \in Workers : Held(s, w) = None
  BY <1>1 DEF JobIsHeld, Held, Stages, Full
<1>4. Targets \subseteq Answered
  BY <1>2, <1>3, TargetsAssumption DEF NoBackendLost
<1>5. Answered \subseteq Targets
  BY DEF TypeOK, Answered, Answer
<1> QED
  BY <1>4, <1>5

(* The handler replies what the answers of all the backends say.           *)
THEOREM RepliesAreComplete == Spec => []ReplyIsComplete
<1>1. ASSUME IInv PROVE ReplyIsComplete
  BY <1>1, ClosedIsDrained DEF IInv, ClosedInOrder, ReplyIsComplete
<1> QED
  BY <1>1, Invariance, PTL

(* Under the read lock the channel in has a place for each backend of the  *)
(* table: Put and Delete never wait while they hand the work out.          *)
THEOREM LockedIsRoomy == Spec => []LockedNeverWaits
<1>1. ASSUME IInv PROVE LockedNeverWaits
  <2> SUFFICES ASSUME Locked(op), todo # {} PROVE Cardinality(in) < cap
    BY DEF LockedNeverWaits
  <2> USE <1>1 DEF IInv
  <2>1. in \subseteq Targets /\ in # Targets
    BY DEF TypeOK, OneAnswerPerBackend
  <2>2. /\ Cardinality(in) <= Cardinality(Targets)
        /\ Cardinality(in) # Cardinality(Targets)
        /\ Cardinality(in) \in Nat /\ Cardinality(Targets) \in Nat
    BY <2>1, TargetsAssumption, FS_Subset, FS_CardinalityType
  <2> QED
    BY <2>2 DEF CountedUnderLock
<1> QED
  BY <1>1, Invariance, PTL

-----------------------------------------------------------------------------
(* The room of the pipeline.                                               *)

(* Until the range is over nothing is gathered, and the channels without   *)
(* buffer hold nothing: all that was pushed is in the channel in, or in    *)
(* one of the places that Room counts.  The range is over only if it fits. *)
Jammed ==
    /\ main = "enqueue" => answers = {}
    /\ OutCap(op) = 0 => \A w \in Workers : ~Full(out[w])
    /\ main # "enqueue" => Fits

(* A pipeline has 2 or 3 places per worker: when the range is over, every  *)
(* backend is in one of them or in the channel in.                         *)
LEMMA RangeOverFits ==
    ASSUME IInv, Jammed, main = "enqueue", todo = {} PROVE Fits
<1> DEFINE P == IF OutCap(op) = 0 THEN {"job", "relay"} ELSE {"job", "out", "relay"}
           n == IF OutCap(op) = 0 THEN 2 ELSE 3
           H == {Held(p[1], p[2]) : p \in P \X Workers}
           f == [p \in P \X Workers |-> Held(p[1], p[2])]
<1> USE DEF IInv
<1>1. Targets \subseteq in \cup H
  <2>1. Answered = {}
    BY DEF Jammed, Answered
  <2> SUFFICES ASSUME NEW a \in Targets \ in PROVE a \in H
    OBVIOUS
  <2>2. PICK s \in Stages, w \in Workers : Held(s, w) = a
    BY <2>1 DEF NoBackendLost
  <2>3. s \in P
    BY <2>2, TargetsAssumption DEF Jammed, Stages, Full, Held
  <2>4. <<s, w>> \in P \X Workers /\ <<s, w>>[1] = s /\ <<s, w>>[2] = w
    BY <2>3
  <2> HIDE DEF P
  <2> QED
    BY <2>2, <2>4
<1>2. IsFiniteSet(P) /\ Cardinality(P) = n
  <2>1. IsFiniteSet({"job"}) /\ Cardinality({"job"}) = 1
    BY FS_Singleton
  <2>2. IsFiniteSet({"job"} \cup {"relay"}) /\ Cardinality({"job"} \cup {"relay"}) = 2
    BY <2>1, FS_AddElement
  <2>3. /\ IsFiniteSet(({"job"} \cup {"relay"}) \cup {"out"})
        /\ Cardinality(({"job"} \cup {"relay"}) \cup {"out"}) = 3
    BY <2>2, FS_AddElement
  <2>4. /\ {"job", "relay"} = {"job"} \cup {"relay"}
        /\ {"job", "out", "relay"} = ({"job"} \cup {"relay"}) \cup {"out"}
    OBVIOUS
  <2> QED
    BY <2>2, <2>3, <2>4
<1>3. /\ IsFiniteSet(P \X Workers) /\ Cardinality(P \X Workers) = n * Cardinality(Workers)
      /\ Cardinality(Workers) \in Nat
  BY <1>2, WorkersAssumption, FS_Product, FS_CardinalityType
<1>4. IsFiniteSet(H) /\ Cardinality(H) <= n * Cardinality(Workers)
  <2>1. f \in Surjection(P \X Workers, H)
    BY DEF Surjection
  <2> HIDE DEF P, n, H, f
  <2> QED
    BY <1>3, <2>1, FS_Surjection
<1>5. Cardinality(Targets) <= Cardinality(in) + Cardinality(H)
  <2>1. IsFiniteSet(in) /\ Cardinality(in) \in Nat
    BY FiniteCount DEF TypeOK
  <2> HIDE DEF H
  <2>2. /\ IsFiniteSet(in \cup H) /\ IsFiniteSet(in \cap H)
        /\ Cardinality(in \cup H) = Cardinality(in) + Cardinality(H) - Cardinality(in \cap H)
    BY <1>4, <2>1, FS_Union, FS_Intersection
  <2>3. Cardinality(in \cap H) \in Nat /\ Cardinality(H) \in Nat /\ Cardinality(in \cup H) \in Nat
    BY <1>4, <2>2, FS_CardinalityType
  <2>4. Cardinality(Targets) <= Cardinality(in \cup H)
    BY <1>1, <2>2, FS_Subset
  <2>5. Cardinality(Targets) \in Nat
    BY FiniteCount
  <2> QED
    BY <2>1, <2>2, <2>3, <2>4, <2>5
<1>6. n * Cardinality(Workers) = Room
  BY <1>3 DEF Room, OutCap
<1>7. /\ Cardinality(in) <= cap /\ cap \in Nat /\ Cardinality(in) \in Nat
      /\ Cardinality(Targets) \in Nat /\ Cardinality(H) \in Nat /\ Room \in Nat
  <2>1. Cardinality(Targets) \in Nat /\ Cardinality(in) \in Nat
    BY FiniteCount DEF TypeOK
  <2>2. Cardinality(H) \in Nat
    BY <1>4, FS_CardinalityType
  <2>3. n * Cardinality(Workers) \in Nat
    BY <1>3
  <2> QED
    BY <1>6, <2>1, <2>2, <2>3 DEF TypeOK
<1> HIDE DEF n, H
<1> QED
  BY <1>4, <1>5, <1>6, <1>7 DEF Fits

(* Only the end of the range has to fit: the other steps leave the count   *)
(* and the handler as they are, or come after it.                          *)
LEMMA JammedInductive == IInv /\ Jammed /\ [Next]_vars => Jammed'
<1> SUFFICES ASSUME IInv, Jammed, [Next]_vars PROVE Jammed'
  OBVIOUS
<1>1. CASE CloseIn
  <2>1. Fits
    BY <1>1, RangeOverFits DEF CloseIn
  <2>2. Fits' /\ UNCHANGED <<op, out, answers>> /\ main' = "drain"
    BY <1>1, <2>1 DEF CloseIn, Fits, Room, OutCap
  <2> QED
    BY <2>2 DEF Jammed, OutCap
<1>2. ASSUME UNCHANGED <<op, cap>>, main' = "enqueue" <=> main = "enqueue",
             main = "enqueue" => answers' = answers,
             OutCap(op) = 0 => \A w \in Workers : Full(out'[w]) => Full(out[w])
      PROVE  Jammed'
  <2>1. Fits' <=> Fits
    BY <1>2 DEF Fits, Room, OutCap
  <2> QED
    BY <1>2, <2>1 DEF Jammed, OutCap
<1>3. CASE HandlerStep /\ ~ CloseIn
  <2>1. /\ UNCHANGED <<op, cap, out>> /\ (main' = "enqueue" <=> main = "enqueue")
        /\ main = "enqueue" => answers' = answers
    BY <1>3 DEF HandlerStep, Enqueue, EnqueueHandoff, Gather, Reply
  <2> QED
    BY <1>2, <2>1
<1>4. ASSUME NEW w \in Workers, WorkerStep(w) \/ ConsumerStep(w) PROVE Jammed'
  <2>1. UNCHANGED <<op, cap, main, answers>>
    BY <1>4 DEF WorkerStep, ConsumerStep, Take, Call, Send, SendHandoff, WorkerExit, Relay,
                ConsumerExit
  <2>2. ASSUME OutCap(op) = 0 PROVE \A v \in Workers : Full(out'[v]) => Full(out[v])
    BY <1>4, <2>2 DEF WorkerStep, ConsumerStep, Take, Call, Send, SendHandoff, WorkerExit,
                      Relay, ConsumerExit, IInv, TypeOK, Full, Empty
  <2> QED
    BY <1>2, <2>1, <2>2
<1>5. CASE CloseOut \/ UNCHANGED vars
  <2>1. UNCHANGED <<op, cap, main, answers, out>>
    BY <1>5 DEF CloseOut, vars
  <2> QED
    BY <1>2, <2>1
<1> QED
  BY <1>1, <1>3, <1>4, <1>5 DEF Next

(* A request whose table outgrew its count by more than the pipeline holds *)
(* never leaves its range, whatever the backends answer.                   *)
THEOREM OutgrownIsStuck == Spec => []StuckWhenOutgrown
<1>1. Init => Jammed
  BY DEF Init, Jammed, Full, Empty
<1>2. Jammed => StuckWhenOutgrown
  BY DEF Jammed, StuckWhenOutgrown
<1> QED
  BY <1>1, <1>2, Invariance, JammedInductive, PTL DEF Spec

-----------------------------------------------------------------------------
(* The pipeline implements the contract of one request: gathering is       *)
(* Contract!Collect, replying is Contract!Reply, and all the rest is       *)
(* invisible.                                                              *)
THEOREM PipelineImplementsContract == Spec => ImplementsContract
<1> USE DEF Contract!vars, Contract!Answered, Contract!Verdict, Contract!Answer
<1>1. Init => Contract!Init
  BY DEF Init, Contract!Init
<1>2. ASSUME IInv, IInv', [Next]_vars PROVE [Contract!Next]_(Contract!vars)
  <2> USE <1>2
  <2>1. ASSUME NEW w \in Workers, Gather(w) PROVE Contract!Next
    <3>1. relay[w] \in Contract!Answer
      BY <2>1 DEF IInv, TypeOK, Gather, Full, Slot
    <3>2. relay[w].addr \notin Answered
      BY <2>1 DEF IInv, OneAnswerPerBackend, Held, Stages, Gather, Full
    <3>3. reply = "pending"
      BY <2>1 DEF IInv, ClosedInOrder, Gather
    <3>4. Contract!Collect(relay[w])
      BY <2>1, <3>2, <3>3 DEF Gather, Contract!Collect, Answered
    <3> QED
      BY <3>1, <3>4 DEF Contract!Next
  <2>2. CASE Reply
    <3>1. Answered = Targets /\ reply = "pending"
      BY <2>2, ClosedIsDrained DEF Reply, IInv, ClosedInOrder
    <3>2. reply' = Verdict(answers) /\ answers' = answers
      BY <2>2 DEF Reply
    <3>3. Verdict(answers) = Contract!Verdict(answers)
      BY DEF Verdict
    <3>4. Contract!Reply
      BY <3>1, <3>2, <3>3 DEF Contract!Reply, Answered
    <3> QED
      BY <3>4 DEF Contract!Next
  <2>3. CASE UNCHANGED <<answers, reply>>
    BY <2>3
  <2> QED
    BY <2>1, <2>2, <2>3 DEF Next, HandlerStep, WorkerStep, ConsumerStep,
       Enqueue, EnqueueHandoff, CloseIn, Take, Call, Send, SendHandoff,
       WorkerExit, Relay, ConsumerExit, CloseOut, vars
<1> QED
  BY <1>1, <1>2, Invariance, PTL DEF Spec, ImplementsContract, Contract!SafeSpec
=============================================================================
