------------------------------ MODULE GateFanout ------------------------------
(***************************************************************************)
(* One request of the index gate, goroutine by goroutine: the handlers     *)
(* Put, Delete, Get and List of internal/cmd-index-gate/service.go share   *)
(* this pipeline.                                                          *)
(*                                                                         *)
(*   handler --in--> worker --out--> consumer --merged out--> handler      *)
(*                   (one pair per unit of parallelism)                    *)
(*                                                                         *)
(* The handler makes the channel in with one place per backend it counted  *)
(* (cap), starts the workers and the consumers of mergeTarget*, THEN       *)
(* pushes every backend of the table into in, closes it, and only then     *)
(* reads the merged channel.  Each worker calls one backend at a time and  *)
(* pushes the answer into its own channel; its consumer moves answers one  *)
(* by one to the merged channel, that the last consumer to leave closes.   *)
(*                                                                         *)
(* Abstractions.  The order in which a Go map is ranged over is random, so *)
(* the channel in is kept as a set.  A slot that holds one item of the     *)
(* pipeline is a record whose addr is None when it is empty.  Connections  *)
(* are usable here: what a nil connection does to the gate is in           *)
(* IndexGate, which also says how cap and Targets come to differ.          *)
(***************************************************************************)
EXTENDS Naturals, FiniteSets

CONSTANTS Targets,        \* the backends the range over srv.back yields
          Workers,        \* the worker / consumer pairs (parallelismPut...)
          None            \* the address of an empty slot

ASSUME TargetsAssumption == IsFiniteSet(Targets) /\ None \notin Targets
ASSUME WorkersAssumption == IsFiniteSet(Workers) /\ Workers # {}

VARIABLES op,             \* which handler runs
          cap,            \* capacity of the channel in
          main,           \* the handler: "enqueue", "drain", "done"
          todo,           \* backends the range has not yielded yet
          in,             \* content of the channel in
          wpc,            \* worker: "recv", "call", "send", "exit"
          job,            \* what the worker is calling or about to send
          out,            \* content of the worker's own channel
          relay,          \* what the consumer holds for the merged channel
          left,           \* consumers that called wg.Done()
          closed,         \* the merged channel is closed
          answers,        \* what the handler received
          reply           \* "pending", then "ok" or "error"

vars == <<op, cap, main, todo, in, wpc, job, out, relay, left, closed,
          answers, reply>>

Ops == {"Put", "Delete", "Get", "List"}

(* Put and Delete keep the read lock from the count to the end of the      *)
(* gathering; Get and List release it before they count.                   *)
Locked(o) == o \in {"Put", "Delete"}

(* The workers' channels hold one answer, except Delete's, unbuffered.     *)
OutCap(o) == IF o = "Delete" THEN 0 ELSE 1

Answer == [addr : Targets, ok : BOOLEAN]
Slot   == [addr : Targets \cup {None}, ok : BOOLEAN]
Empty  == [addr |-> None, ok |-> FALSE]
Full(s) == s.addr # None

Verdict(as) == IF \E a \in as : a.ok THEN "ok" ELSE "error"

-----------------------------------------------------------------------------
(* A bug to tell apart: Put counts too early.                              *)
CountsBeforeLock(o) == 0 .. Cardinality(Targets)

(* The table only grows (IndexGate), so a count taken without the lock is  *)
(* at most the number of backends the range yields, and a count taken      *)
(* under the lock is that number.                                          *)
Counts(o) ==
    IF Locked(o) THEN {Cardinality(Targets)} ELSE 0 .. Cardinality(Targets)

Init ==
    /\ op \in Ops
    /\ cap \in Counts(op)
    /\ main = "enqueue"
    /\ todo = Targets
    /\ in = {}
    /\ wpc = [w \in Workers |-> "recv"]
    /\ job = [w \in Workers |-> Empty]
    /\ out = [w \in Workers |-> Empty]
    /\ relay = [w \in Workers |-> Empty]
    /\ left = {}
    /\ closed = FALSE
    /\ answers = {}
    /\ reply = "pending"

-----------------------------------------------------------------------------
(* The handler.                                                            *)

(* A bug to tell apart: a channel that never makes its sender wait.        *)
EnqueueUnbounded(a) ==
    /\ main = "enqueue"
    /\ a \in todo
    /\ todo' = todo \ {a}
    /\ in' = in \cup {a}
    /\ UNCHANGED <<op, cap, main, wpc, job, out, relay, left, closed, answers,
                   reply>>

(* in <- targetInput{addr, cnx}, a free place in the buffer                *)
Enqueue(a) ==
    /\ main = "enqueue"
    /\ a \in todo
    /\ Cardinality(in) < cap
    /\ todo' = todo \ {a}
    /\ in' = in \cup {a}
    /\ UNCHANGED <<op, cap, main, wpc, job, out, relay, left, closed, answers,
                   reply>>

(* in <- targetInput{addr, cnx}, on a channel without buffer: the handler  *)
(* waits for an idle worker                                                *)
EnqueueHandoff(a, w) ==
    /\ main = "enqueue"
    /\ cap = 0
    /\ a \in todo
    /\ wpc[w] = "recv"
    /\ todo' = todo \ {a}
    /\ wpc' = [wpc EXCEPT ![w] = "call"]
    /\ job' = [job EXCEPT ![w] = [addr |-> a, ok |-> FALSE]]
    /\ UNCHANGED <<op, cap, main, in, out, relay, left, closed, answers, reply>>

(* close(in), at the end of the range                                      *)
CloseIn ==
    /\ main = "enqueue"
    /\ todo = {}
    /\ main' = "drain"
    /\ UNCHANGED <<op, cap, todo, in, wpc, job, out, relay, left, closed,
                   answers, reply>>

(* for x := range out, fed by the consumer w                               *)
Gather(w) ==
    /\ main = "drain"
    /\ Full(relay[w])
    /\ answers' = answers \cup {relay[w]}
    /\ relay' = [relay EXCEPT ![w] = Empty]
    /\ UNCHANGED <<op, cap, main, todo, in, wpc, job, out, left, closed, reply>>

(* The merged channel is closed: the loop ends and the handler returns     *)
Reply ==
    /\ main = "drain"
    /\ closed
    /\ main' = "done"
    /\ reply' = Verdict(answers)
    /\ UNCHANGED <<op, cap, todo, in, wpc, job, out, relay, left, closed,
                   answers>>

-----------------------------------------------------------------------------
(* The workers.                                                            *)

(* A bug to tell apart: each worker ranges over a list of its own.         *)
TakeShared(w, a) ==
    /\ wpc[w] = "recv"
    /\ a \in in
    /\ wpc' = [wpc EXCEPT ![w] = "call"]
    /\ job' = [job EXCEPT ![w] = [addr |-> a, ok |-> FALSE]]
    /\ UNCHANGED <<op, cap, main, todo, in, out, relay, left, closed, answers,
                   reply>>

(* A bug to tell apart: the workers are started after the range.           *)
TakeAfterClose(w, a) ==
    /\ main # "enqueue"
    /\ wpc[w] = "recv"
    /\ a \in in
    /\ in' = in \ {a}
    /\ wpc' = [wpc EXCEPT ![w] = "call"]
    /\ job' = [job EXCEPT ![w] = [addr |-> a, ok |-> FALSE]]
    /\ UNCHANGED <<op, cap, main, todo, out, relay, left, closed, answers,
                   reply>>

(* for i := range input, an item                                           *)
Take(w, a) ==
    /\ wpc[w] = "recv"
    /\ a \in in
    /\ in' = in \ {a}
    /\ wpc' = [wpc EXCEPT ![w] = "call"]
    /\ job' = [job EXCEPT ![w] = [addr |-> a, ok |-> FALSE]]
    /\ UNCHANGED <<op, cap, main, todo, out, relay, left, closed, answers,
                   reply>>

(* The RPC to the backend returns, well or not                             *)
Call(w, ok) ==
    /\ wpc[w] = "call"
    /\ wpc' = [wpc EXCEPT ![w] = "send"]
    /\ job' = [job EXCEPT ![w].ok = ok]
    /\ UNCHANGED <<op, cap, main, todo, in, out, relay, left, closed, answers,
                   reply>>

(* A bug to tell apart: the worker does not wait for a place in its        *)
(* channel.                                                                *)
SendLossy(w) ==
    /\ wpc[w] = "send"
    /\ out' = [out EXCEPT ![w] = job[w]]
    /\ job' = [job EXCEPT ![w] = Empty]
    /\ wpc' = [wpc EXCEPT ![w] = "recv"]
    /\ UNCHANGED <<op, cap, main, todo, in, relay, left, closed, answers, reply>>

(* out <- targetError{...}, a free place in the buffer                     *)
Send(w) ==
    /\ wpc[w] = "send"
    /\ OutCap(op) = 1
    /\ ~Full(out[w])
    /\ out' = [out EXCEPT ![w] = job[w]]
    /\ job' = [job EXCEPT ![w] = Empty]
    /\ wpc' = [wpc EXCEPT ![w] = "recv"]
    /\ UNCHANGED <<op, cap, main, todo, in, relay, left, closed, answers, reply>>

(* out <- targetError{...}, on Delete's channel: the consumer must be idle *)
SendHandoff(w) ==
    /\ wpc[w] = "send"
    /\ OutCap(op) = 0
    /\ ~Full(relay[w])
    /\ relay' = [relay EXCEPT ![w] = job[w]]
    /\ job' = [job EXCEPT ![w] = Empty]
    /\ wpc' = [wpc EXCEPT ![w] = "recv"]
    /\ UNCHANGED <<op, cap, main, todo, in, out, left, closed, answers, reply>>

(* A bug to tell apart: close(in) is forgotten, the range of the worker    *)
(* never ends.                                                             *)
WorkerStays(w) == FALSE

(* for i := range input, closed and drained; close(out)                    *)
WorkerExit(w) ==
    /\ wpc[w] = "recv"
    /\ main # "enqueue"
    /\ in = {}
    /\ wpc' = [wpc EXCEPT ![w] = "exit"]
    /\ UNCHANGED <<op, cap, main, todo, in, job, out, relay, left, closed,
                   answers, reply>>

-----------------------------------------------------------------------------
(* The consumers of mergeTarget*, and the goroutine that waits for them.   *)

(* for i := range input, an answer                                         *)
Relay(w) ==
    /\ Full(out[w])
    /\ ~Full(relay[w])
    /\ relay' = [relay EXCEPT ![w] = out[w]]
    /\ out' = [out EXCEPT ![w] = Empty]
    /\ UNCHANGED <<op, cap, main, todo, in, wpc, job, left, closed, answers,
                   reply>>

(* for i := range input, closed and drained; wg.Done()                     *)
ConsumerExit(w) ==
    /\ w \notin left
    /\ wpc[w] = "exit"
    /\ ~Full(out[w])
    /\ ~Full(relay[w])
    /\ left' = left \cup {w}
    /\ UNCHANGED <<op, cap, main, todo, in, wpc, job, out, relay, closed,
                   answers, reply>>

(* wg.Wait(); close(out)                                                   *)
CloseOut ==
    /\ ~closed
    /\ left = Workers
    /\ closed' = TRUE
    /\ UNCHANGED <<op, cap, main, todo, in, wpc, job, out, relay, left,
                   answers, reply>>

-----------------------------------------------------------------------------
WorkerStep(w) ==
    \/ \E a \in Targets : Take(w, a)
    \/ \E ok \in BOOLEAN : Call(w, ok)
    \/ Send(w)
    \/ SendHandoff(w)
    \/ WorkerExit(w)

HandlerStep ==
    \/ \E a \in Targets : Enqueue(a)
    \/ \E a \in Targets, w \in Workers : EnqueueHandoff(a, w)
    \/ CloseIn
    \/ \E w \in Workers : Gather(w)
    \/ Reply

ConsumerStep(w) == Relay(w) \/ ConsumerExit(w)

Next ==
    \/ HandlerStep
    \/ \E w \in Workers : WorkerStep(w) \/ ConsumerStep(w)
    \/ CloseOut

Spec == Init /\ [][Next]_vars

(* Goroutines that can run are run, and the RPC returns: it carries the    *)
(* context of the caller, which ends.                                      *)
Fairness ==
    /\ WF_vars(HandlerStep)
    /\ WF_vars(CloseOut)
    /\ \A w \in Workers : WF_vars(WorkerStep(w)) /\ WF_vars(ConsumerStep(w))

FairSpec == Spec /\ Fairness

-----------------------------------------------------------------------------
(* Properties.                                                             *)

(* The values of the variables, the channel in within its capacity.        *)
TypeOK ==
    /\ op \in Ops
    /\ cap \in 0 .. Cardinality(Targets)
    /\ main \in {"enqueue", "drain", "done"}
    /\ todo \subseteq Targets
    /\ in \subseteq Targets
    /\ Cardinality(in) <= cap
    /\ wpc \in [Workers -> {"recv", "call", "send", "exit"}]
    /\ job \in [Workers -> Slot]
    /\ out \in [Workers -> Slot]
    /\ relay \in [Workers -> Slot]
    /\ left \subseteq Workers
    /\ closed \in BOOLEAN
    /\ answers \subseteq Answer
    /\ reply \in {"pending", "ok", "error"}

(* Where a backend is while it is in the pipeline of a worker.             *)
Stages == {"job", "out", "relay"}

Held(s, w) ==
    CASE s = "job"   -> job[w].addr
      [] s = "out"   -> out[w].addr
      [] s = "relay" -> relay[w].addr

Answered == {a.addr : a \in answers}

(* A backend is in one place at a time: not pushed twice into in, not      *)
(* taken by two workers, not relayed by a consumer after the handler       *)
(* already counted it.                                                     *)
OneAnswerPerBackend ==
    /\ todo \cap in = {}
    /\ (todo \cup in) \cap Answered = {}
    /\ \A s \in Stages, w \in Workers : Held(s, w) # None =>
        /\ Held(s, w) \notin todo \cup in \cup Answered
        /\ \A t \in Stages, v \in Workers :
               Held(t, v) = Held(s, w) => t = s /\ v = w

(* No answer is dropped between the call and the handler: what is neither  *)
(* waiting nor gathered is held by a worker, a channel or a consumer.      *)
NoBackendLost ==
    \A a \in Targets \ (todo \cup in \cup Answered) :
        \E s \in Stages, w \in Workers : Held(s, w) = a

(* The reply says what all the backends of the table answered: the merged  *)
(* channel is not closed while an answer is still under way.               *)
ReplyIsComplete ==
    reply # "pending" => Answered = Targets /\ reply = Verdict(answers)

(* Under the lock the channel in is large enough for the whole table: a    *)
(* Put or a Delete never waits for a backend while it is pushing.          *)
LockedNeverWaits ==
    Locked(op) /\ main = "enqueue" /\ todo # {} => Cardinality(in) < cap

(* The answers the pipeline can hold before the handler starts to read.    *)
Room == Cardinality(Workers) * (2 + OutCap(op))
Fits == Cardinality(Targets) <= cap + Room

(* A Get or a List that counted the table before it grew by more than the  *)
(* pipeline holds is stuck for ever in its range: the workers wait for the *)
(* consumers, the consumers for the handler, the handler for the workers.  *)
StuckWhenOutgrown == ~Fits => main = "enqueue"

(* That is the only way a request is stuck: below that limit the handler   *)
(* replies once the RPCs have returned.                                    *)
RepliesWhenItFits == Fits => <>(reply # "pending")

(* The pipeline implements the contract of one request: what the handler   *)
(* gathered and replied is all that the contract sees.                     *)
Contract ==
    INSTANCE ScatterGather WITH Targets <- Targets, answers <- answers, reply <- reply
ImplementsContract == Contract!SafeSpec
ImplementsFairContract == Contract!Spec
=============================================================================
