----------------------------- MODULE IndexListing -----------------------------
(***************************************************************************)
(* The data of the index: what Put, Delete and List do to the keys of one  *)
(* base, from the client to the stores and back.                           *)
(*                                                                         *)
(*   client (cmd-index-client, pkg/gunkan/index_client_grpc.go)            *)
(*     -> index gate (cmd-index-gate/service.go), one RPC per call         *)
(*          -> every index store (cmd-index-store-rocksdb/service.go)      *)
(*                                                                         *)
(* A write reaches the stores one by one, may fail on some, and is         *)
(* acknowledged when one store took it.  `gunkan-index list --full` asks   *)
(* page after page, each from the last key of the one before; each store   *)
(* answers a page at its own time, or fails; the gate merges what it got.  *)
(*                                                                         *)
(* Abstractions.  Keys are naturals in the order of their encoding, 0 is   *)
(* the empty marker (an empty key, that no listing shows, is never put).   *)
(* The base is not empty, and the gate clamps the page: a store refuses    *)
(* nothing and clamps nothing more (IndexReplicas has both).  A call that  *)
(* fails may have been applied (the reply was lost).  The gate adds        *)
(* nothing to a write (GateFanout, IndexGate).                             *)
(***************************************************************************)
EXTENDS KeyMerge

CONSTANTS Stores,         \* the index stores, all in the table of the gate
          LastKey,        \* the keys are 1 .. LastKey
          Values,         \* the values that are Put, the empty one excluded
          Writes,         \* the Put and Delete calls
          Starts,         \* the markers the listing may start from
          Asked,          \* the number of items a page is asked for (--max)
          ListHardMax     \* gunkan.ListHardMax

ASSUME StoresAssumption == IsFiniteSet(Stores)
ASSUME BoundsAssumption ==
    /\ LastKey \in Nat \ {0} /\ Starts \subseteq 0 .. LastKey
    /\ Asked \in Nat /\ ListHardMax \in Nat \ {0}

VARIABLES kv,             \* the DB of each store
          write,          \* the Put and Delete calls
          list,           \* the client that lists
          tabs,           \* the answers to the current page, in their order
          shown,          \* the keys the client has printed
          missed,         \* history: stores that failed to answer a page
          begun           \* history: what the stores had when it began

vars == <<kv, write, list, tabs, shown, missed, begun>>

Keys == 1 .. LastKey

Markers == 0 .. LastKey

(* What a DB holds for a key: nothing, the empty value, or a value         *)
Absent == "absent"

ASSUME ValuesAssumption == Absent \notin Values

Empty == "empty"

Present(s) == {k \in Keys : kv[s][k] # Absent}

(* The gate's List: if req.Max <= 0 ... else if req.Max > ListHardMax ...  *)
Page == IF Asked = 0 THEN 1 ELSE IF Asked > ListHardMax THEN ListHardMax ELSE Asked

Init ==
    /\ kv \in [Stores -> [Keys -> Values \cup {Absent}]]
    /\ write = [w \in Writes |->
                   [st |-> "new", key |-> LastKey, value |-> Empty, todo |-> {}, ok |-> FALSE]]
    /\ list = [st |-> "new", from |-> 0, marker |-> 0, todo |-> {}]
    /\ tabs = <<>>
    /\ shown = <<>>
    /\ missed = {}
    /\ begun = [s \in Stores |-> {}]

-----------------------------------------------------------------------------
(* Put(base, key, value), and Delete(base, key): a Put of the empty value. *)

WriteBegin(w, k, v) ==
    /\ write[w].st = "new"
    /\ write' = [write EXCEPT ![w] =
                    [st |-> "run", key |-> k, value |-> v, todo |-> Stores, ok |-> FALSE]]
    /\ UNCHANGED <<kv, list, tabs, shown, missed, begun>>

(* A store takes the write; its reply comes, or is lost                    *)
WriteApply(w, s, told) ==
    /\ s \in write[w].todo
    /\ kv' = [kv EXCEPT ![s][write[w].key] = write[w].value]
    /\ write' = [write EXCEPT ![w].todo = @ \ {s}, ![w].ok = @ \/ told]
    /\ UNCHANGED <<list, tabs, shown, missed, begun>>

WriteFails(w, s) ==
    /\ s \in write[w].todo
    /\ write' = [write EXCEPT ![w].todo = @ \ {s}]
    /\ UNCHANGED <<kv, list, tabs, shown, missed, begun>>

(* The gate replies: a success as soon as one store told it so             *)
WriteReply(w) ==
    /\ write[w].st = "run"
    /\ write[w].todo = {}
    /\ write' = [write EXCEPT ![w].st = IF write[w].ok THEN "ok" ELSE "error"]
    /\ UNCHANGED <<kv, list, tabs, shown, missed, begun>>

-----------------------------------------------------------------------------
(* List(base, marker, max), page after page.                               *)

(* gunkan-index list --full BASE [MARKER]                                  *)
ListBegin(from) ==
    /\ list.st = "new"
    /\ list' = [st |-> "page", from |-> from, marker |-> from, todo |-> Stores]
    /\ begun' = [s \in Stores |-> Present(s)]
    /\ UNCHANGED <<kv, write, tabs, shown, missed>>

(* A bug to tell apart: the iterator is not moved past the marker.         *)
StoreListAt(s, marker, max) ==
    LET found == InOrder({k \in Present(s) : k >= marker})
    IN  IF Len(found) <= max THEN found ELSE SubSeq(found, 1, max + 1)

(* The List of a store: the keys past the marker, whatever their values.   *)
(* The loop ends once it has MORE than max items.                          *)
StoreList(s, marker, max) ==
    LET found == InOrder({k \in Present(s) : k > marker})
    IN  IF Len(found) <= max THEN found ELSE SubSeq(found, 1, max + 1)

ListAnswer(s) ==
    /\ s \in list.todo
    /\ tabs' = Append(tabs, StoreList(s, list.marker, Page))
    /\ list' = [list EXCEPT !.todo = @ \ {s}]
    /\ UNCHANGED <<kv, write, shown, missed, begun>>

(* The gate logs the failure of a store, and goes on without it            *)
ListFails(s) ==
    /\ s \in list.todo
    /\ missed' = missed \cup {s}
    /\ list' = [list EXCEPT !.todo = @ \ {s}]
    /\ UNCHANGED <<kv, write, tabs, shown, begun>>

PageReady == list.st = "page" /\ list.todo = {}

(* "No backend replied": the client stops on the error                     *)
ListError ==
    /\ PageReady
    /\ tabs = <<>>
    /\ list' = [list EXCEPT !.st = "error"]
    /\ UNCHANGED <<kv, write, tabs, shown, missed, begun>>

Merged == KeepSingleDedup(tabs, Page)

(* A bug to tell apart: the answers to the page before are kept.           *)
ListPageKeepsTabs ==
    /\ PageReady
    /\ Merged # <<>>
    /\ shown' = shown \o Merged
    /\ list' = [list EXCEPT !.marker = Merged[Len(Merged)], !.todo = Stores]
    /\ UNCHANGED <<kv, write, tabs, missed, begun>>

(* The client prints the page and asks for the next one...                 *)
ListPage ==
    /\ PageReady
    /\ Merged # <<>>
    /\ shown' = shown \o Merged
    /\ list' = [list EXCEPT !.marker = Merged[Len(Merged)], !.todo = Stores]
    /\ tabs' = <<>>
    /\ UNCHANGED <<kv, write, missed, begun>>

(* ... until a page is empty                                               *)
ListEnd ==
    /\ PageReady
    /\ tabs # <<>>
    /\ Merged = <<>>
    /\ list' = [list EXCEPT !.st = "done"]
    /\ UNCHANGED <<kv, write, tabs, shown, missed, begun>>

-----------------------------------------------------------------------------
WriteStep(w) ==
    \/ \E k \in Keys, v \in Values \cup {Empty} : WriteBegin(w, k, v)
    \/ \E s \in Stores :
           WriteFails(w, s) \/ \E told \in BOOLEAN : WriteApply(w, s, told)
    \/ WriteReply(w)

ListStep ==
    \/ \E s \in Stores : ListAnswer(s) \/ ListFails(s)
    \/ ListError \/ ListPage \/ ListEnd

Next ==
    \/ \E w \in Writes : WriteStep(w)
    \/ \E from \in Starts : ListBegin(from)
    \/ ListStep

Spec == Init /\ [][Next]_vars

-----------------------------------------------------------------------------
(* Properties.                                                             *)

Shown == {shown[i] : i \in DOMAIN shown}

(* The values of the variables.                                            *)
TypeOK ==
    /\ kv \in [Stores -> [Keys -> Values \cup {Absent, Empty}]]
    /\ write \in [Writes -> [st : {"new", "run", "ok", "error"}, key : Keys,
                             value : Values \cup {Empty}, todo : SUBSET Stores,
                             ok : BOOLEAN]]
    /\ list \in [st : {"new", "page", "done", "error"}, from : Markers, marker : Markers,
                 todo : SUBSET Stores]
    /\ tabs \in Seq(Seq(Keys)) /\ Len(tabs) <= Cardinality(Stores)
    /\ shown \in Seq(Keys)
    /\ missed \subseteq Stores
    /\ begun \in [Stores -> SUBSET Keys]

(* The merge gives the smallest keys of all the answers, once each, as     *)
(* many as were asked for: it never stops on a duplicate nor counts one.   *)
MergeIsExact ==
    PageReady =>
        LET all == InOrder(UNION {{tabs[i][j] : j \in DOMAIN tabs[i]} : i \in DOMAIN tabs})
        IN  Merged = IF Len(all) <= Page THEN all ELSE SubSeq(all, 1, Page)

(* Over all its pages the client sees keys in order, none of them twice,   *)
(* though the stores change and answer at different times: --full ends.    *)
ShownInOrder == \A i, j \in DOMAIN shown : i < j => shown[i] < shown[j]

(* What a store had when the listing began, and is past, was printed: no   *)
(* page skips the keys of a store that answered every page, whatever the   *)
(* writes in progress and the failures of the other stores.                *)
NoneSkipped ==
    \A s \in Stores \ missed : \A k \in begun[s] :
        /\ list.st = "page" /\ list.from < k /\ k <= list.marker => k \in Shown
        /\ list.st = "done" /\ list.from < k => k \in Shown
=============================================================================
