------------------------------- MODULE IndexGate -------------------------------
(***************************************************************************)
(* The index gate of internal/cmd-index-gate/service.go: the table back of *)
(* connections to the index stores, the goroutine that reloads it from the *)
(* catalog every second, the read-write lock rw between them, and the      *)
(* requests that fan out to every backend of the table.                    *)
(*                                                                         *)
(* Put and Delete hold the read lock while they count the table, range     *)
(* over it and gather the answers.  Get and List take the lock, release it *)
(* at once, and then count and range over the table without it.            *)
(*                                                                         *)
(* Abstractions.  The gathering is the contract that GateFanout is shown   *)
(* to implement: every backend contributes one answer, in any order.       *)
(* Absorb stands for the answers the pipeline of a Get or a List holds     *)
(* before the handler reads any (GateFanout!Room, 15 in the code).  A      *)
(* listing of the catalog may be stale or partial (AllowStale, and the     *)
(* services that fail to resolve are skipped), so it is any subset of what *)
(* was ever declared: withdrawing an address is leaving it out of the      *)
(* listings, and the table never forgets it.                               *)
(***************************************************************************)
EXTENDS Naturals, FiniteSets

CONSTANTS Addrs,          \* addresses of index stores
          Requests,       \* requests in progress at the same time, at most
          Kinds,          \* the handlers the callers use
          Absorb,         \* answers the pipeline holds before it is drained
          DialMayFail     \* can grpc.Dial return an error?

ASSUME AddrsAssumption == IsFiniteSet(Addrs)
ASSUME KindsAssumption == Kinds # {} /\ Kinds \subseteq {"Put", "Delete", "Get", "List"}
ASSUME AbsorbAssumption == Absorb \in Nat
ASSUME DialAssumption == DialMayFail \in BOOLEAN

VARIABLES up,             \* the process of the gate runs
          declared,       \* addresses ever declared in the catalog (external)
          table,          \* srv.back: "absent", "nil" or "open" connections
          dials,          \* history: connections opened to each address
          reload,         \* the goroutine: "sleep", "lock", "list", "dial"
          pending,        \* addresses of the listing still to be looked at
          readers,        \* the requests that hold srv.rw for reading
          st,             \* step of each request
          kind,           \* its handler
          cap,            \* its count of the table, the capacity of in
          targets,        \* the backends its range yielded
          nils,           \* those it read a nil connection for
          answered,       \* those that answered
          written,        \* history: backends of the Puts already replied
          must            \* history: value of written when it arrived

tableVars == <<table, dials, pending>>
reqVars   == <<st, kind, cap, targets, nils, answered, must>>
vars == <<up, declared, reload, readers, written, tableVars, reqVars>>

Steps == {"idle", "blocked", "locked", "free", "counted", "range", "gather"}

(* A bug to tell apart: Put releases the lock as Get does.                 *)
LockedDeleteOnly(k) == k = "Delete"

Locked(k) == k \in {"Put", "Delete"}

Known == {a \in Addrs : table[a] # "absent"}

ToNil == {a \in Addrs : table[a] = "nil"}

(* The writer asked for the lock or holds it: new readers wait.            *)
(* A bug to tell apart: readers pass a waiting writer.                     *)
WriterHolds == reload \in {"list", "dial"}

WriterAhead == reload # "sleep"

AnyKind == CHOOSE k \in Kinds : TRUE

Each(S, x) == [e \in S |-> x]

(* NewService: an empty table until the first reload, one second later.    *)
(* The locals of a handler mean nothing while it does not run.             *)
Init ==
    /\ up = TRUE
    /\ declared = {}
    /\ table = Each(Addrs, "absent")
    /\ dials = Each(Addrs, 0)
    /\ pending = {}
    /\ reload = "sleep"
    /\ readers = {}
    /\ written = {}
    /\ st = Each(Requests, "idle")
    /\ kind = Each(Requests, AnyKind)
    /\ cap = Each(Requests, 0)
    /\ targets = Each(Requests, {})
    /\ nils = Each(Requests, {})
    /\ answered = Each(Requests, {})
    /\ must = Each(Requests, {})

(* The process dies, and takes all its state with it.                      *)
Crash ==
    /\ up' = FALSE
    /\ table' = Each(Addrs, "absent")
    /\ dials' = Each(Addrs, 0)
    /\ pending' = {}
    /\ reload' = "sleep"
    /\ readers' = {}
    /\ written' = {}
    /\ st' = Each(Requests, "idle")
    /\ kind' = Each(Requests, AnyKind)
    /\ cap' = Each(Requests, 0)
    /\ targets' = Each(Requests, {})
    /\ nils' = Each(Requests, {})
    /\ answered' = Each(Requests, {})
    /\ must' = Each(Requests, {})
    /\ UNCHANGED declared

Restart ==
    /\ ~up
    /\ up' = TRUE
    /\ UNCHANGED <<declared, reload, readers, written, tableVars, reqVars>>

(* A store registers in the catalog.                                       *)
Declare(a) ==
    /\ a \notin declared
    /\ declared' = declared \cup {a}
    /\ UNCHANGED <<up, reload, readers, written, tableVars, reqVars>>

-----------------------------------------------------------------------------
(* The reload goroutine, and srv.reload() under the write lock.            *)

(* The tick fires: srv.rw.Lock() is called                                 *)
Tick ==
    /\ up
    /\ reload = "sleep"
    /\ reload' = "lock"
    /\ UNCHANGED <<up, declared, readers, written, tableVars, reqVars>>

(* A bug to tell apart: the reload does not wait for the readers.          *)
LockFree ==
    /\ reload = "lock"
    /\ reload' = "list"
    /\ UNCHANGED <<up, declared, readers, written, tableVars, reqVars>>

(* srv.rw.Lock() returns: the readers that were ahead are gone             *)
Lock ==
    /\ reload = "lock"
    /\ readers = {}
    /\ reload' = "list"
    /\ UNCHANGED <<up, declared, readers, written, tableVars, reqVars>>

(* A bug to tell apart: the reload forgets the addresses that are not      *)
(* listed any more.                                                        *)
ListAndForget(L) ==
    /\ reload = "list"
    /\ L \subseteq declared
    /\ pending' = L
    /\ reload' = "dial"
    /\ table' = [a \in Addrs |-> IF a \in L THEN table[a] ELSE "absent"]
    /\ UNCHANGED <<up, declared, dials, readers, written, reqVars>>

(* srv.catalog.ListIndexStore() succeeds                                   *)
ListIndexStore(L) ==
    /\ reload = "list"
    /\ L \subseteq declared
    /\ pending' = L
    /\ reload' = "dial"
    /\ UNCHANGED <<up, declared, table, dials, readers, written, reqVars>>

(* An address with a connection already: continue                          *)
Keep(a) ==
    /\ reload = "dial"
    /\ a \in pending
    /\ table[a] = "open"
    /\ pending' = pending \ {a}
    /\ UNCHANGED <<up, declared, table, dials, reload, readers, written,
                   reqVars>>

(* A bug to tell apart: the connection of a stable backend is replaced.    *)
DialAgain(a, ok) ==
    /\ reload = "dial"
    /\ a \in pending
    /\ ok \/ DialMayFail
    /\ pending' = pending \ {a}
    /\ table' = [table EXCEPT ![a] = IF ok THEN "open" ELSE "nil"]
    /\ dials' = [dials EXCEPT ![a] = IF ok /\ @ < 2 THEN @ + 1 ELSE @]
    /\ UNCHANGED <<up, declared, reload, readers, written, reqVars>>

(* DialTLSInsecure(a), for an address that is new or failed before         *)
Dial(a, ok) ==
    /\ reload = "dial"
    /\ a \in pending
    /\ table[a] # "open"
    /\ ok \/ DialMayFail
    /\ pending' = pending \ {a}
    /\ table' = [table EXCEPT ![a] = IF ok THEN "open" ELSE "nil"]
    /\ dials' = [dials EXCEPT ![a] = IF ok THEN @ + 1 ELSE @]
    /\ UNCHANGED <<up, declared, reload, readers, written, reqVars>>

(* srv.rw.Unlock(), deferred: the readers that waited get the lock         *)
Unlock ==
    /\ reload' = "sleep"
    /\ readers' = {r \in Requests : st[r] = "blocked"}
    /\ st' = [r \in Requests |-> IF st[r] = "blocked" THEN "locked" ELSE st[r]]
    /\ UNCHANGED <<up, declared, written, tableVars, kind, cap, targets, nils,
                   answered, must>>

EndReload == reload = "dial" /\ pending = {} /\ Unlock

ListError == reload = "list" /\ Unlock

ReloadStep ==
    \/ Tick \/ Lock \/ ListError \/ EndReload
    \/ \E L \in SUBSET declared : ListIndexStore(L)
    \/ \E a \in Addrs : Keep(a) \/ \E ok \in BOOLEAN : Dial(a, ok)

-----------------------------------------------------------------------------
(* The requests.                                                           *)

(* A call reaches its handler and asks for srv.rw.RLock()                  *)
Arrive(r, k) ==
    /\ up
    /\ st[r] = "idle"
    /\ kind' = [kind EXCEPT ![r] = k]
    /\ must' = [must EXCEPT ![r] = written]
    /\ IF WriterAhead
       THEN /\ st' = [st EXCEPT ![r] = "blocked"]
            /\ UNCHANGED readers
       ELSE /\ st' = [st EXCEPT ![r] = "locked"]
            /\ readers' = readers \cup {r}
    /\ UNCHANGED <<up, declared, reload, written, tableVars, cap, targets,
                   nils, answered>>

(* Get and List: srv.rw.RUnlock() follows srv.rw.RLock()                   *)
ReleaseEarly(r) ==
    /\ st[r] = "locked"
    /\ ~Locked(kind[r])
    /\ st' = [st EXCEPT ![r] = "free"]
    /\ readers' = readers \ {r}
    /\ UNCHANGED <<up, declared, reload, written, tableVars, kind, cap,
                   targets, nils, answered, must>>

(* A bug to tell apart: the channel has a place less than the table.       *)
CountOneLess(r) ==
    /\ st[r] = IF Locked(kind[r]) THEN "locked" ELSE "free"
    /\ st' = [st EXCEPT ![r] = "counted"]
    /\ cap' = [cap EXCEPT ![r] = Cardinality(Known) - 1]
    /\ UNCHANGED <<up, declared, reload, readers, written, tableVars, kind,
                   targets, nils, answered, must>>

(* in := make(chan targetInput, len(srv.back))                             *)
Count(r) ==
    /\ st[r] = IF Locked(kind[r]) THEN "locked" ELSE "free"
    /\ st' = [st EXCEPT ![r] = "counted"]
    /\ cap' = [cap EXCEPT ![r] = Cardinality(Known)]
    /\ UNCHANGED <<up, declared, reload, readers, written, tableVars, kind,
                   targets, nils, answered, must>>

(* for addr, cnx := range srv.back: what the table holds when the range    *)
(* starts is sure to be yielded                                            *)
RangeBegin(r) ==
    /\ st[r] = "counted"
    /\ st' = [st EXCEPT ![r] = "range"]
    /\ targets' = [targets EXCEPT ![r] = Known]
    /\ nils' = [nils EXCEPT ![r] = ToNil]
    /\ UNCHANGED <<up, declared, reload, readers, written, tableVars, kind,
                   cap, answered, must>>

(* ... what was added since then may be yielded or not (late), and a       *)
(* connection replaced since then may be read before or after (stale).     *)
RangeEnd(r, late, stale) ==
    /\ st[r] = "range"
    /\ late \subseteq Known \ targets[r]
    /\ stale \subseteq nils[r]
    /\ st' = [st EXCEPT ![r] = "gather"]
    /\ targets' = [targets EXCEPT ![r] = @ \cup late]
    /\ nils' = [nils EXCEPT ![r] = stale \cup (ToNil \cap targets'[r])]
    /\ UNCHANGED <<up, declared, reload, readers, written, tableVars, kind,
                   cap, answered, must>>

(* The pipeline lets the handler come to the end of its range (GateFanout) *)
Fits(r) == Cardinality(targets[r]) <= cap[r] + Absorb

(* The RPC to a returns, and its answer is gathered, or stays in the       *)
(* pipeline of a handler that is stuck in its range                        *)
Answer(r, a) ==
    /\ st[r] = "gather"
    /\ a \in targets[r] \ (answered[r] \cup nils[r])
    /\ Fits(r) \/ Cardinality(answered[r]) < Absorb
    /\ answered' = [answered EXCEPT ![r] = @ \cup {a}]
    /\ UNCHANGED <<up, declared, reload, readers, written, tableVars, st, kind,
                   cap, targets, nils, must>>

(* A bug to tell apart: Delete without its srv.rw.RUnlock().               *)
ReplyKeepsLock(r) ==
    /\ st[r] = "gather"
    /\ Fits(r)
    /\ answered[r] = targets[r]
    /\ st' = [st EXCEPT ![r] = "idle"]
    /\ written' = IF kind[r] = "Put" THEN written \cup targets[r] ELSE written
    /\ kind' = [kind EXCEPT ![r] = AnyKind]
    /\ cap' = [cap EXCEPT ![r] = 0]
    /\ targets' = [targets EXCEPT ![r] = {}]
    /\ nils' = [nils EXCEPT ![r] = {}]
    /\ answered' = [answered EXCEPT ![r] = {}]
    /\ must' = [must EXCEPT ![r] = {}]
    /\ UNCHANGED <<up, declared, reload, readers, tableVars>>

(* The handler returns, and releases the lock if it kept it                *)
Reply(r) ==
    /\ st[r] = "gather"
    /\ Fits(r)
    /\ answered[r] = targets[r]
    /\ st' = [st EXCEPT ![r] = "idle"]
    /\ readers' = readers \ {r}
    /\ written' = IF kind[r] = "Put" THEN written \cup targets[r] ELSE written
    /\ kind' = [kind EXCEPT ![r] = AnyKind]
    /\ cap' = [cap EXCEPT ![r] = 0]
    /\ targets' = [targets EXCEPT ![r] = {}]
    /\ nils' = [nils EXCEPT ![r] = {}]
    /\ answered' = [answered EXCEPT ![r] = {}]
    /\ must' = [must EXCEPT ![r] = {}]
    /\ UNCHANGED <<up, declared, reload, tableVars>>

-----------------------------------------------------------------------------
(* What kills the process.                                                 *)

(* A worker calls a method of a nil *grpc.ClientConn: a panic that nothing *)
(* recovers, in a goroutine of its own                                     *)
NilCall(r) ==
    /\ st[r] = "gather"
    /\ nils[r] \ answered[r] # {}
    /\ Crash

(* The reload assigns srv.back[a] while a range without the lock goes on:  *)
(* the runtime of Go may stop the process on it                            *)
RacyRange(r) ==
    /\ st[r] = "range"
    /\ r \notin readers
    /\ reload = "dial"
    /\ \E a \in pending : table[a] # "open"
    /\ Crash

-----------------------------------------------------------------------------
HandlerStep(r) ==
    \/ ReleaseEarly(r)
    \/ Count(r)
    \/ RangeBegin(r)
    \/ \E late \in SUBSET Addrs, stale \in SUBSET nils[r] :
           RangeEnd(r, late, stale)
    \/ \E a \in Addrs : Answer(r, a)
    \/ Reply(r)

RequestStep(r) ==
    \/ \E k \in Kinds : Arrive(r, k)
    \/ HandlerStep(r)
    \/ NilCall(r)
    \/ RacyRange(r)

Next ==
    \/ Restart
    \/ \E a \in Addrs : Declare(a)
    \/ ReloadStep
    \/ \E r \in Requests : RequestStep(r)

Spec == Init /\ [][Next]_vars

(* Goroutines that can run are run, RPCs return (the context of a call     *)
(* ends), the requests to the catalog return, a crashed gate is started    *)
(* again; a declared store is listed, and dialed with success, again and   *)
(* again as long as the reload asks.                                       *)
Fairness ==
    /\ WF_vars(Restart)
    /\ WF_vars(ReloadStep)
    /\ \A r \in Requests : WF_vars(HandlerStep(r) \/ NilCall(r))
    /\ \A a \in Addrs :
        /\ SF_vars(\E L \in SUBSET declared : a \in L /\ ListIndexStore(L))
        /\ SF_vars(Dial(a, TRUE))

FairSpec == Spec /\ Fairness

-----------------------------------------------------------------------------
(* Properties.                                                             *)

TypeOK ==
    /\ up \in BOOLEAN
    /\ declared \subseteq Addrs
    /\ table \in [Addrs -> {"absent", "nil", "open"}]
    /\ dials \in [Addrs -> Nat]
    /\ reload \in {"sleep", "lock", "list", "dial"}
    /\ pending \subseteq declared
    /\ readers \subseteq Requests
    /\ written \subseteq Addrs
    /\ st \in [Requests -> Steps]
    /\ kind \in [Requests -> Kinds]
    /\ cap \in [Requests -> Nat]
    /\ targets \in [Requests -> SUBSET Addrs]
    /\ nils \in [Requests -> SUBSET Addrs]
    /\ answered \in [Requests -> SUBSET Addrs]
    /\ must \in [Requests -> SUBSET Addrs]

(* A Put or a Delete works on the table as it is, from its count to its    *)
(* reply: no reload slips a backend in that the request would miss.        *)
LockedSeesWholeTable ==
    \A r \in Requests : st[r] = "gather" /\ Locked(kind[r]) =>
        targets[r] = Known /\ cap[r] = Cardinality(Known)

(* What GateFanout starts from: the range yields at least what was         *)
(* counted, and exactly that under the lock.                               *)
CountIsAtMostRange ==
    \A r \in Requests : st[r] = "gather" =>
        /\ cap[r] <= Cardinality(targets[r])
        /\ Locked(kind[r]) => Cardinality(targets[r]) = cap[r]

(* A request asks every backend that a Put replied before it arrived was   *)
(* sent to, also when it ranges over the table without the lock.           *)
ReadsCoverWrites ==
    \A r \in Requests : st[r] = "gather" => must[r] \subseteq targets[r]

(* "We avoid closing/reopening connections to stable backends": a backend  *)
(* that is connected stays connected, by the same connection, as long as   *)
(* the process lives.                                                      *)
NeverRedials ==
    [][up' => \A a \in Addrs : table[a] = "open" =>
                 table'[a] = "open" /\ dials'[a] = dials[a]]_vars

(* The table is not written while a Put or a Delete works on it.           *)
NoWriteUnderReader ==
    [][up' /\ table' # table =>
         \A r \in Requests : Locked(kind[r]) => st[r] \in {"idle", "blocked"}]_vars

(* The process dies of a nil connection or of a Get or List that ranges    *)
(* over the table while it is written: a Put or a Delete alone never kills *)
(* it, nor does a reload.                                                  *)
OnlyWaysToDie ==
    [][up /\ ~up' => \E r \in Requests :
           \/ st[r] = "gather" /\ nils[r] # {}
           \/ st[r] = "range" /\ kind[r] \in {"Get", "List"}]_vars

(* With Puts and Deletes only, and dials that succeed, it never dies.      *)
StaysUp == up

(* A handler stuck in its range, outgrown by the table (GateFanout).       *)
Stuck(r) == st[r] = "gather" /\ ~Fits(r)

(* Every request is replied to, unless the gate dies or the table outgrew  *)
(* the request: the lock is always released, and a reload always ends.     *)
RequestsEnd == \A r \in Requests : st[r] # "idle" ~> st[r] = "idle" \/ Stuck(r)

(* A store that is declared gets a connection: no stream of requests keeps *)
(* the reload away from the table.                                         *)
DeclaredGetsConnected ==
    \A a \in Addrs : a \in declared ~> table[a] = "open" \/ ~up
=============================================================================
