------------------------------- MODULE BlobMap -------------------------------
(***************************************************************************)
(* What a blob store promises, as a map from the names to the blobs.       *)
(*                                                                         *)
(* A PUT stores its blob under a name that nothing bears, in one step, or  *)
(* fails and stores nothing.  It is acknowledged only when its blob is     *)
(* there.  A crash leaves PUTs without a reply, their blobs stored or not. *)
(* A blob is never replaced, and leaves only by the removal its client     *)
(* asked for, once it was acknowledged.                                    *)
(***************************************************************************)
CONSTANTS Names, Puts, None

VARIABLES blobs,          \* the PUT whose blob is under each name, or None
          status          \* "running", "created", "failed" or "lost"

vars == <<blobs, status>>

Stored(p) == \E n \in Names : blobs[n] = p

Init ==
    /\ blobs = [n \in Names |-> None]
    /\ status = [p \in Puts |-> "running"]

Store(p, n) ==
    /\ status[p] = "running" /\ ~ Stored(p)
    /\ blobs[n] = None
    /\ blobs' = [blobs EXCEPT ![n] = p]
    /\ UNCHANGED status

Acknowledge(p) ==
    /\ status[p] = "running" /\ Stored(p)
    /\ status' = [status EXCEPT ![p] = "created"]
    /\ UNCHANGED blobs

Fail(p) ==
    /\ status[p] = "running" /\ ~ Stored(p)
    /\ status' = [status EXCEPT ![p] = "failed"]
    /\ UNCHANGED blobs

Crash(P) ==
    /\ \A p \in P : status[p] = "running"
    /\ status' = [p \in Puts |-> IF p \in P THEN "lost" ELSE status[p]]
    /\ UNCHANGED blobs

Remove(p, n) ==
    /\ status[p] = "created" /\ blobs[n] = p
    /\ blobs' = [blobs EXCEPT ![n] = None]
    /\ UNCHANGED status

Next ==
    \/ \E p \in Puts : Acknowledge(p) \/ Fail(p)
    \/ \E p \in Puts, n \in Names : Store(p, n) \/ Remove(p, n)
    \/ \E P \in SUBSET Puts : Crash(P)

Spec == Init /\ [][Next]_vars
=============================================================================
