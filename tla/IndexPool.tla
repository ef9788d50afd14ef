------------------------------- MODULE IndexPool -------------------------------
(***************************************************************************)
(* The pool of clients to the index gates of                               *)
(* pkg/gunkan/index_client_pooled.go.                                      *)
(*                                                                         *)
(* Get, List, Put and Delete all acquire a client, use it for one RPC and  *)
(* release it.  acquire() takes an idle client from the channel pool; else *)
(* a permission to dial from the channel remaining, filled with            *)
(* IndexClientPoolSize permissions and closed once for all; else it waits  *)
(* on pool, or for the end of its context.                                 *)
(*                                                                         *)
(* Abstractions.  A permission and the client dialed with it are the same  *)
(* member of Clients, so Cardinality(Clients) is IndexClientPoolSize.  The *)
(* order of the idle clients is left out.  A caller that waits is parked   *)
(* by the runtime in the queue of the channel, and a client released then  *)
(* is handed to the first of the queue, never put into the buffer.         *)
(***************************************************************************)
EXTENDS Naturals, SequencesExt

CONSTANTS Clients,        \* the permissions to dial, and the clients dialed
          Callers,        \* goroutines that share the pooled client
          Impatient,      \* those whose context ends while they wait
          None            \* a caller that holds nothing

ASSUME ClientsAssumption == IsFiniteSet(Clients) /\ None \notin Clients
ASSUME CallersAssumption == Impatient \subseteq Callers

VARIABLES pc,             \* "idle", "token", "dial", "select", "wait", "use"
          client,         \* what each caller holds
          pool,           \* the idle clients, in the channel pool
          remaining,      \* the permissions left in the channel remaining
          lost,           \* the permissions spent on a dial that failed
          queue           \* the callers parked on the channel pool

vars == <<pc, client, pool, remaining, lost, queue>>

(* DialIndexPooled: every permission is there, and no client.              *)
Init ==
    /\ pc = [c \in Callers |-> "idle"]
    /\ client = [c \in Callers |-> None]
    /\ pool = {}
    /\ remaining = Clients
    /\ lost = {}
    /\ queue = <<>>

-----------------------------------------------------------------------------
(* acquire()                                                               *)

(* case client := <-self.pool, of the select that does not wait            *)
TakeIdle(c, k) ==
    /\ pc[c] = "idle"
    /\ k \in pool
    /\ pool' = pool \ {k}
    /\ client' = [client EXCEPT ![c] = k]
    /\ pc' = [pc EXCEPT ![c] = "use"]
    /\ UNCHANGED <<remaining, lost, queue>>

(* default                                                                 *)
FindNoIdle(c) ==
    /\ pc[c] = "idle"
    /\ pool = {}
    /\ pc' = [pc EXCEPT ![c] = "token"]
    /\ UNCHANGED <<client, pool, remaining, lost, queue>>

(* A bug to tell apart: the permission is not consumed.                    *)
TakeTokenAgain(c, k) ==
    /\ pc[c] = "token"
    /\ k \in remaining
    /\ client' = [client EXCEPT ![c] = k]
    /\ pc' = [pc EXCEPT ![c] = "dial"]
    /\ UNCHANGED <<pool, remaining, lost, queue>>

(* ok, _ := <-self.remaining, a permission                                 *)
TakeToken(c, k) ==
    /\ pc[c] = "token"
    /\ k \in remaining
    /\ remaining' = remaining \ {k}
    /\ client' = [client EXCEPT ![c] = k]
    /\ pc' = [pc EXCEPT ![c] = "dial"]
    /\ UNCHANGED <<pool, lost, queue>>

(* ok, _ := <-self.remaining, the channel is closed and empty              *)
FindNoToken(c) ==
    /\ pc[c] = "token"
    /\ remaining = {}
    /\ pc' = [pc EXCEPT ![c] = "select"]
    /\ UNCHANGED <<client, pool, remaining, lost, queue>>

Dial(c) ==
    /\ pc[c] = "dial"
    /\ pc' = [pc EXCEPT ![c] = "use"]
    /\ UNCHANGED <<client, pool, remaining, lost, queue>>

(* A bug to tell apart: release() does not check that the client is not    *)
(* nil.                                                                    *)
DialFailsAndReleases(c) ==
    /\ pc[c] = "dial"
    /\ lost' = lost \cup {client[c]}
    /\ pool' = pool \cup {None}
    /\ client' = [client EXCEPT ![c] = None]
    /\ pc' = [pc EXCEPT ![c] = "idle"]
    /\ UNCHANGED <<remaining, queue>>

(* No gate in the catalog, or grpc.Dial fails: the caller gets the error,  *)
(* release(nil) does nothing, and the permission is not given back.        *)
DialFails(c) ==
    /\ pc[c] = "dial"
    /\ lost' = lost \cup {client[c]}
    /\ client' = [client EXCEPT ![c] = None]
    /\ pc' = [pc EXCEPT ![c] = "idle"]
    /\ UNCHANGED <<pool, remaining, queue>>

(* The last select finds a client that was released in between...          *)
SelectIdle(c, k) ==
    /\ pc[c] = "select"
    /\ k \in pool
    /\ pool' = pool \ {k}
    /\ client' = [client EXCEPT ![c] = k]
    /\ pc' = [pc EXCEPT ![c] = "use"]
    /\ UNCHANGED <<remaining, lost, queue>>

(* A bug to tell apart: a release between the first look at the pool and   *)
(* the wait is missed.                                                     *)
ParkBlindly(c) ==
    /\ pc[c] = "select"
    /\ pc' = [pc EXCEPT ![c] = "wait"]
    /\ queue' = Append(queue, c)
    /\ UNCHANGED <<client, pool, remaining, lost>>

(* ... or parks the caller                                                 *)
Park(c) ==
    /\ pc[c] = "select"
    /\ pool = {}
    /\ pc' = [pc EXCEPT ![c] = "wait"]
    /\ queue' = Append(queue, c)
    /\ UNCHANGED <<client, pool, remaining, lost>>

(* case <-done: "No client ready", at once...                              *)
GiveUp(c) ==
    /\ c \in Impatient
    /\ pc[c] = "select"
    /\ pc' = [pc EXCEPT ![c] = "idle"]
    /\ UNCHANGED <<client, pool, remaining, lost, queue>>

(* ... or once parked, at the place i of the queue                         *)
GiveUpParked(c, i) ==
    /\ c \in Impatient
    /\ queue[i] = c
    /\ pc' = [pc EXCEPT ![c] = "idle"]
    /\ queue' = RemoveAt(queue, i)
    /\ UNCHANGED <<client, pool, remaining, lost>>

-----------------------------------------------------------------------------
(* The RPC is over: release(client)                                        *)

(* self.pool <- c, a free place in the buffer                              *)
ReleaseIdle(c) ==
    /\ pc[c] = "use"
    /\ queue = <<>>
    /\ Cardinality(pool) < Cardinality(Clients)
    /\ pool' = pool \cup {client[c]}
    /\ client' = [client EXCEPT ![c] = None]
    /\ pc' = [pc EXCEPT ![c] = "idle"]
    /\ UNCHANGED <<remaining, lost, queue>>

(* A bug to tell apart: the last caller to be parked is served first.      *)
ReleaseToLast(c) ==
    /\ pc[c] = "use"
    /\ queue # <<>>
    /\ client' = [client EXCEPT ![Last(queue)] = client[c], ![c] = None]
    /\ pc' = [pc EXCEPT ![Last(queue)] = "use", ![c] = "idle"]
    /\ queue' = Front(queue)
    /\ UNCHANGED <<pool, remaining, lost>>

(* self.pool <- c, while callers are parked on the channel                 *)
ReleaseToWaiter(c) ==
    /\ pc[c] = "use"
    /\ queue # <<>>
    /\ client' = [client EXCEPT ![Head(queue)] = client[c], ![c] = None]
    /\ pc' = [pc EXCEPT ![Head(queue)] = "use", ![c] = "idle"]
    /\ queue' = Tail(queue)
    /\ UNCHANGED <<pool, remaining, lost>>

-----------------------------------------------------------------------------
(* What a caller does once its call has begun.                             *)
Continue(c) ==
    \/ \E k \in Clients : TakeToken(c, k) \/ SelectIdle(c, k)
    \/ FindNoToken(c)
    \/ Dial(c)
    \/ DialFails(c)
    \/ Park(c)
    \/ GiveUp(c)
    \/ \E i \in 1 .. Len(queue) : GiveUpParked(c, i)
    \/ ReleaseIdle(c)
    \/ ReleaseToWaiter(c)

Begin(c) == FindNoIdle(c) \/ \E k \in Clients : TakeIdle(c, k)

Next == \E c \in Callers : Begin(c) \/ Continue(c)

Spec == Init /\ [][Next]_vars

(* Goroutines that can run are run, dials and RPCs return.  Nothing is     *)
(* assumed of when a call begins.                                          *)
FairSpec == Spec /\ \A c \in Callers : WF_vars(Continue(c))

-----------------------------------------------------------------------------
(* Properties.                                                             *)

TypeOK ==
    /\ pc \in [Callers -> {"idle", "token", "dial", "select", "wait", "use"}]
    /\ client \in [Callers -> Clients \cup {None}]
    /\ pool \subseteq Clients
    /\ remaining \subseteq Clients
    /\ lost \subseteq Clients
    /\ queue \in Seq(Callers)

Holds(c) == pc[c] \in {"dial", "use"}

(* A client is never used by two callers, nor used while it is idle, and   *)
(* none disappears: it is left to dial, idle, lost or held by one caller.  *)
EachClientOnce ==
    /\ \A c \in Callers : client[c] # None <=> Holds(c)
    /\ \A c, d \in Callers : Holds(c) /\ client[c] = client[d] => c = d
    /\ \A c \in Callers : client[c] \notin pool \cup remaining \cup lost
    /\ pool \cap remaining = {} /\ pool \cap lost = {} /\ remaining \cap lost = {}
    /\ \A k \in Clients \ (pool \cup remaining \cup lost) :
           \E c \in Callers : client[c] = k

(* The release of a client never waits: the channel pool is large enough.  *)
ReleaseNeverBlocks ==
    \A c \in Callers : pc[c] = "use" => Cardinality(pool) < Cardinality(Clients)

(* Nobody waits while a client is idle or could be dialed, and the parked  *)
(* callers are exactly those of the queue, each of them once.              *)
NobodyWaitsForNothing ==
    /\ queue # <<>> => pool = {} /\ remaining = {}
    /\ \A c \in Callers : pc[c] = "wait" <=> \E i \in 1 .. Len(queue) : queue[i] = c
    /\ \A i, j \in 1 .. Len(queue) : queue[i] = queue[j] => i = j

(* A call that waits gets a client, or the end of its context: the callers *)
(* that come later do not overtake it.  The exception is a pool that spent *)
(* its last permission on a dial that failed.                              *)
WaiterIsServed ==
    \A c \in Callers :
        pc[c] \in {"token", "select", "wait"} ~>
            pc[c] \in {"dial", "use", "idle"} \/ lost = Clients

(* "wait for an item to be released": what the comment of acquire() takes  *)
(* for granted, that an item exists and that the wait ends by its release. *)
WaitEndsByRelease == \A c \in Callers : pc[c] = "wait" ~> pc[c] # "wait"
=============================================================================
