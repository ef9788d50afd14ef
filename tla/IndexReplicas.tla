----------------------------- MODULE IndexReplicas -----------------------------
(***************************************************************************)
(* The index as a whole: what Put, Delete and Get do to the stores, and    *)
(* what the clients are told.                                              *)
(*                                                                         *)
(*   client (cmd-index-client/cmd.go, pkg/gunkan/index_client_grpc.go)     *)
(*     -> any gate (cmd-index-gate/service.go), with its own table         *)
(*          -> the stores of that table (cmd-index-store-rocksdb)          *)
(*                                                                         *)
(* A gate sends a request to every store it knows and waits for all of     *)
(* them.  A call to a store may fail: the request never arrives, or it     *)
(* was executed and the reply is lost, or the gate gave up and the request *)
(* is executed LATER.  A store is its write-ahead log: nothing is synced   *)
(* before the reply, so that a crash of its host loses a suffix of it      *)
(* (a crash of its process alone loses nothing).                           *)
(*                                                                         *)
(* Abstractions.  The value a write stores is the call itself.  A store    *)
(* has one log, in the order its DB executed the writes.  How a gate       *)
(* gathers the answers is in GateFanout, how its table grows in IndexGate: *)
(* here a call may go to any set of stores.  Listings by pages are in      *)
(* IndexListing; StoreList is the List of one store.                       *)
(***************************************************************************)
EXTENDS Keys, FiniteSets

CONSTANTS Stores,         \* the index stores
          Sessions,       \* the commands run by clients
          Plans,          \* what the sessions may run, together
          MaxLines,       \* the lines of a command, at most
          ListHardMax,    \* gunkan.ListHardMax
          None            \* no call

Commands == {"put", "stdin", "del", "get"}

ASSUME PlansAssumption ==
    /\ MaxLines \in Nat
    /\ \A f \in Plans :
        /\ DOMAIN f = Sessions
        /\ \A p \in Sessions :
            /\ f[p].cmd \in Commands
            /\ f[p].lines \in Seq(BaseKey) /\ Len(f[p].lines) <= MaxLines
ASSUME NoneAssumption == None \notin Sessions \X Nat
ASSUME ListHardMaxAssumption == ListHardMax \in Nat

VARIABLES script,         \* the command of each session
          sess,           \* its exit status, and the lines it has begun
          call,           \* the calls, one for each line of each session
          log,            \* the writes each store executed, in order
          crashed,        \* history: the stores that ever lost a suffix
          before          \* history: the calls that ended before each began

vars == <<script, sess, call, log, crashed, before>>

Calls == Sessions \X (1 .. MaxLines)

Cmd(c) == script[c[1]].cmd

(* The key a call is about                                                 *)
KeyOf(c) == script[c[1]].lines[c[2]]

IsPut(c) == Cmd(c) \in {"put", "stdin"}

IsWrite(c) == Cmd(c) # "get"

New == [st |-> "new", waiting |-> {}, pend |-> {}, told |-> {}, denied |-> {}, saw |-> {}]

Init ==
    /\ script \in Plans
    /\ sess = [p \in Sessions |-> [st |-> "run", at |-> 0]]
    /\ call = [c \in Calls |-> New]
    /\ log = [s \in Stores |-> <<>>]
    /\ crashed = {}
    /\ before = [c \in Calls |-> {}]

-----------------------------------------------------------------------------
(* The DB of an index store.                                               *)

(* The last of the writes under each encoded key                           *)
Db(s) ==
    LET key(i) == Encode(KeyOf(log[s][i]))
    IN  [k \in {key(i) : i \in DOMAIN log[s]} |->
            log[s][CHOOSE i \in DOMAIN log[s] :
                       key(i) = k /\ \A j \in DOMAIN log[s] : key(j) = k => j <= i]]

FirstOf(S) == CHOOSE k \in S : \A j \in S : j = k \/ Less(k, j)

(* A bug to tell apart: what the iterator found is not compared.           *)
StoreGetNext(db, bk) ==
    LET past == {k \in DOMAIN db : ~ Less(k, Encode(bk))}
    IN  IF past = {} THEN None ELSE db[FirstOf(past)]

(* A bug to tell apart: the iterator starts past the key.                  *)
StoreGetPast(db, bk) ==
    LET past == {k \in DOMAIN db : Less(Encode(bk), k)}
    IN  IF past = {} \/ Decode(FirstOf(past)) # bk THEN None ELSE db[FirstOf(past)]

(* Get: the iterator seeks the first key that is not smaller, what it      *)
(* finds is decoded and compared; "Not found" is None.  An empty value, as *)
(* Delete leaves it, is found like any other.                              *)
StoreGet(db, bk) ==
    LET past == {k \in DOMAIN db : ~ Less(k, Encode(bk))}
    IN  IF past = {} \/ Decode(FirstOf(past)) # bk THEN None ELSE db[FirstOf(past)]

TextsInOrder(S) ==
    [i \in 1 .. Cardinality(S) |->
        CHOOSE k \in S : Cardinality({j \in S : Less(j, k)}) = i - 1]

(* if req.Max > ListHardMax ... (Max is unsigned: the other test is dead)  *)
Limit(max) == IF max > ListHardMax THEN ListHardMax ELSE max

(* A bug to tell apart: the items of other bases are skipped, and the      *)
(* iteration ends at the maximum.                                          *)
StoreListAll(db, base, marker, max) ==
    LET from  == Encode(BK(base, marker))
        next  == TextsInOrder({k \in DOMAIN db : Less(from, k)})
        taken == {i \in DOMAIN next : i <= Limit(max) + 1}
    IN  IF base = <<>> THEN None ELSE [i \in taken |-> Decode(next[i]).key]

(* List: "Missing base" is None.  Else the keys past the marker, to the    *)
(* first that is of another base, or until there are MORE than the limit   *)
StoreList(db, base, marker, max) ==
    LET from  == Encode(BK(base, marker))
        next  == TextsInOrder({k \in DOMAIN db : Less(from, k)})
        taken == {i \in DOMAIN next :
                     i <= Limit(max) + 1 /\ \A j \in 1 .. i : Decode(next[j]).base = base}
    IN  IF base = <<>> THEN None ELSE [i \in taken |-> Decode(next[i]).key]

-----------------------------------------------------------------------------
(* The commands: put, put --stdin, del and get of cmd-index-client.        *)

(* The next line: a call to a gate, whose table is the set of stores T     *)
Begin(p, T) ==
    LET c == <<p, sess[p].at + 1>>
    IN  /\ sess[p].st = "run"
        /\ sess[p].at < Len(script[p].lines)
        /\ sess[p].at > 0 => call[<<p, sess[p].at>>].st # "run"
        /\ sess' = [sess EXCEPT ![p].at = @ + 1]
        /\ call' = [call EXCEPT ![c] = [New EXCEPT !.st = "run", !.waiting = T,
                                        !.pend = IF IsWrite(c) THEN T ELSE {}]]
        /\ before' = [before EXCEPT ![c] = {d \in Calls : call[d].st \in {"ok", "error"}}]
        /\ UNCHANGED <<script, log, crashed>>

(* A bug to tell apart: the gate replies at the first success.             *)
ReplyFirst(c) ==
    LET p == c[1]
        st == IF call[c].told # {} THEN "ok" ELSE "error"
    IN  /\ call[c].st = "run"
        /\ call[c].waiting = {} \/ call[c].told # {}
        /\ call' = [call EXCEPT ![c].st = st]
        /\ sess' = [sess EXCEPT ![p].st =
                       IF st = "error" /\ Cmd(c) # "stdin" THEN "error"
                       ELSE IF c[2] < Len(script[p].lines) THEN "run" ELSE "ok"]
        /\ UNCHANGED <<script, log, crashed, before>>

(* The gate has an answer or an error from every store: a success if one   *)
(* of them succeeded, and "No backend replied" if not.  Put, del and get   *)
(* end on the first error, put --stdin only builds an event of the log     *)
(* about it and reads the next line.                                       *)
Reply(c) ==
    LET p == c[1]
        st == IF call[c].told # {} THEN "ok" ELSE "error"
    IN  /\ call[c].st = "run"
        /\ call[c].waiting = {}
        /\ call' = [call EXCEPT ![c].st = st]
        /\ sess' = [sess EXCEPT ![p].st =
                       IF st = "error" /\ Cmd(c) # "stdin" THEN "error"
                       ELSE IF c[2] < Len(script[p].lines) THEN "run" ELSE "ok"]
        /\ UNCHANGED <<script, log, crashed, before>>

-----------------------------------------------------------------------------
(* The calls of a gate to a store.                                         *)

(* A bug to tell apart: a request may be executed twice.                   *)
ExecuteAgain(c, s) ==
    /\ s \in call[c].pend
    /\ log' = [log EXCEPT ![s] = Append(@, c)]
    /\ call' = [call EXCEPT ![c].waiting = @ \ {s},
                            ![c].told = IF s \in call[c].waiting THEN @ \cup {s} ELSE @]
    /\ UNCHANGED <<script, sess, crashed, before>>

(* The store executes a Put, or a Delete: a Put of the empty value.  The   *)
(* gate is told, unless it does not wait for it any more.                  *)
Execute(c, s) ==
    /\ s \in call[c].pend
    /\ log' = [log EXCEPT ![s] = Append(@, c)]
    /\ call' = [call EXCEPT ![c].pend = @ \ {s},
                            ![c].waiting = @ \ {s},
                            ![c].told = IF s \in call[c].waiting THEN @ \cup {s} ELSE @]
    /\ UNCHANGED <<script, sess, crashed, before>>

(* A bug to tell apart: "Not found" is replied as a value.                 *)
AnswerEmpty(c, s) ==
    /\ ~ IsWrite(c)
    /\ s \in call[c].waiting
    /\ call' = [call EXCEPT ![c].waiting = @ \ {s},
                            ![c].told = @ \cup {s},
                            ![c].saw = @ \cup {StoreGet(Db(s), KeyOf(c))}]
    /\ UNCHANGED <<script, sess, log, crashed, before>>

(* The store answers a Get: a value, or the error "Not found"              *)
Answer(c, s) ==
    LET w == StoreGet(Db(s), KeyOf(c))
    IN  /\ ~ IsWrite(c)
        /\ s \in call[c].waiting
        /\ call' = [call EXCEPT ![c].waiting = @ \ {s},
                                ![c].told = IF w = None THEN @ ELSE @ \cup {s},
                                ![c].denied = IF w = None THEN @ \cup {s} ELSE @,
                                ![c].saw = IF w = None THEN @ ELSE @ \cup {w}]
        /\ UNCHANGED <<script, sess, log, crashed, before>>

(* The call fails.  The request may be executed later, or never; a request *)
(* that was executed and whose reply is lost is one that is executed right *)
(* after this step.                                                        *)
Fail(c, s) ==
    /\ s \in call[c].waiting
    /\ call' = [call EXCEPT ![c].waiting = @ \ {s}]
    /\ UNCHANGED <<script, sess, log, crashed, before>>

-----------------------------------------------------------------------------
(* The host of a store stops and starts again: opts.SetSync(false), the    *)
(* end of the log never reached the disk.                                  *)
Crash(s) ==
    \E n \in 0 .. Len(log[s]) - 1 :
        /\ log' = [log EXCEPT ![s] = SubSeq(@, 1, n)]
        /\ crashed' = crashed \cup {s}
        /\ UNCHANGED <<script, sess, call, before>>

-----------------------------------------------------------------------------
CallStep(c) ==
    \/ Reply(c)
    \/ \E s \in Stores : Execute(c, s) \/ Answer(c, s) \/ Fail(c, s)

Next ==
    \/ \E p \in Sessions, T \in SUBSET Stores : Begin(p, T)
    \/ \E c \in Calls : CallStep(c)
    \/ \E s \in Stores : Crash(s)

Spec == Init /\ [][Next]_vars

-----------------------------------------------------------------------------
(* Properties.                                                             *)

CallType == [st : {"new", "run", "ok", "error"}, waiting : SUBSET Stores,
             pend : SUBSET Stores, told : SUBSET Stores, denied : SUBSET Stores,
             saw : SUBSET Calls]

TypeOK ==
    /\ script \in Plans
    /\ sess \in [Sessions -> [st : {"run", "ok", "error"}, at : 0 .. MaxLines]]
    /\ call \in [Calls -> CallType]
    /\ log \in [Stores -> Seq(Calls)]
    /\ crashed \subseteq Stores
    /\ before \in [Calls -> SUBSET Calls]

Begun == {c \in Calls : call[c].st # "new"}

Executed(s) == {log[s][i] : i \in DOMAIN log[s]}

(* What a store acknowledged is in its log, once, unless its host crashed: *)
(* a write acknowledged to a client is in one store at least, though other *)
(* gates write, give up and are late, until all the stores that took it    *)
(* have crashed.                                                           *)
AckedIsLoggedOnce ==
    \A c \in Calls, s \in Stores :
        /\ IsWrite(c) /\ s \in call[c].told \ crashed => c \in Executed(s)
        /\ IsWrite(c) /\ call[c].st = "ok" => call[c].told # {}
        /\ \A i, j \in DOMAIN log[s] : log[s][i] = c /\ log[s][j] = c => i = j

(* Writes that went to all the stores, and were made one after the other,  *)
(* leave the same value everywhere, whichever gates they went through and  *)
(* in whatever order those reach the stores.                               *)
AgreeWhenSequential ==
    \A bk \in {KeyOf(c) : c \in Begun} :
        LET W == {c \in Begun : IsWrite(c) /\ Encode(KeyOf(c)) = Encode(bk)}
        IN  /\ \A c \in W : call[c].told = Stores
            /\ \A c, d \in W : c = d \/ c \in before[d] \/ d \in before[c]
            => \A s, t \in Stores \ crashed : StoreGet(Db(s), bk) = StoreGet(Db(t), bk)

(* Every call that removes the key of c ended before c began, and reached  *)
(* all the stores.                                                         *)
NotRemovedSince(c) ==
    \A d \in Begun : Cmd(d) = "del" /\ KeyOf(d) = KeyOf(c) =>
        d \in before[c] /\ call[d].told = Stores

(* A Get finds what was put: after a Put of the key was acknowledged, and  *)
(* unless a Delete of it came later, at the same time or too late, it is   *)
(* answered as soon as one store that took the Put, and did not crash,     *)
(* replies; no base may hold a comma.                                      *)
GetFindsAcked ==
    \A g \in Calls : ~ IsWrite(g) /\ call[g].st = "error" =>
        \A c \in before[g] :
            /\ IsPut(c) /\ call[c].st = "ok" /\ KeyOf(c) = KeyOf(g)
            /\ CommaFree(KeyOf(c).base) /\ NotRemovedSince(c)
            => (call[c].told \ crashed) \cap call[g].denied = {}

(* A Get never reads the value of another key, though all the bases share  *)
(* one DB; a base that holds a comma takes the place of another key.       *)
GetReadsItsKey ==
    \A g \in Calls : \A c \in call[g].saw :
        KeyOf(c) = KeyOf(g) \/ ~ CommaFree(KeyOf(c).base)

(* The List of a store refuses the empty base.  Of another it gives the    *)
(* keys past the marker, those of no other base, in order, and cuts them   *)
(* after one more than was asked for, or than the hard limit.              *)
ListsExactly(bases, markers, sizes) ==
    \A s \in Stores : (\A c \in Executed(s) : CommaFree(KeyOf(c).base)) =>
        LET db         == Db(s)
            held(base) == {KeyOf(c).key : c \in {d \in Executed(s) : KeyOf(d).base = base}}
        IN  \A base \in bases, marker \in markers : CommaFree(base) =>
                LET all == TextsInOrder({k \in held(base) : Less(marker, k)})
                IN  \A max \in sizes :
                        StoreList(db, base, marker, max) =
                            IF base = <<>> THEN None
                            ELSE IF Len(all) <= Limit(max) + 1 THEN all
                            ELSE SubSeq(all, 1, Limit(max) + 1)

(* ... for the bases and the keys in use; what is past the hard limit is   *)
(* one size.                                                               *)
StoreListIsExact ==
    ListsExactly({<<>>} \cup {KeyOf(c).base : c \in Begun},
                 {<<>>} \cup {KeyOf(c).key : c \in Begun}, 0 .. ListHardMax + 1)

(* A Delete of the key that all the stores took, after every Put of it     *)
IsRemoval(d) ==
    /\ Cmd(d) = "del" /\ call[d].told = Stores
    /\ \A c \in Begun : IsPut(c) /\ KeyOf(c) = KeyOf(d) =>
           c \in before[d] /\ call[c].told = Stores

=============================================================================
