----------------------------- MODULE DataGateProofs -----------------------------
(***************************************************************************)
(* The proofs about DataGate, for every set of requests.                   *)
(*                                                                         *)
(* What happens to the store is a behaviour of BlobStoreFs, so that its    *)
(* theorems hold here.  What is added is Truthful: a client was told what  *)
(* the store replied, unless its call was not sent or broke, and then it   *)
(* was told of a failure; the store replies once.                          *)
(***************************************************************************)
EXTENDS DataGate, BlobStoreFsProofs, KeysProofs

(* The requests keep their type, and no call is made twice                 *)
ClientsType ==
    /\ req \in [Puts -> [by : Origins, tokens : Seq(Text) \ {<<>>}]]
    /\ link \in [Puts -> {"none", "open", "broken"}]
    /\ told \in [Puts -> Told]

(* What the client was told, by the state of its call                      *)
Truthful ==
    \A p \in Puts : told[p] # "none" =>
        /\ link[p] = "none" => told[p] \in {"badrequest", "error", Failure(req[p])}
        /\ link[p] = "open" => pc[p] \in Replied /\ told[p] = Outcome(req[p], pc[p])
        /\ link[p] = "broken" => told[p] = Failure(req[p])

(* The clients of the gate and of the command never remove anything        *)
NeverRemoved == \A p \in Puts : del[p] # "none" => req[p].by = "http"

(* The names of the requests that the store took on were decoded           *)
Decoded ==
    \A p \in Puts : pc[p] \notin {"new", "badrequest"} =>
        IsWellNamed(req[p]) /\ IsBlobId(Sent(req[p]))

(* A request that was sent is well named                                   *)
SentWell ==
    \A p \in Puts :
        /\ link[p] # "none" => IsWellNamed(req[p])
        /\ link[p] = "none" => pc[p] = "new"

CIInv == ClientsType /\ Truthful /\ NeverRemoved /\ Decoded /\ SentWell

-----------------------------------------------------------------------------
(* Every step of the service is one of the store, or leaves it alone.      *)
LEMMA ServiceSteps == ServiceNext => [Next]_vars
BY DEF ServiceNext, RefuseName, NothingToCall, Send, BreakLink, Answer, StorePut, Remove,
       Fetch, Next, PutStep

(* What the clients, the gate and the networks do is a behaviour of the    *)
(* blob store on a file system: all its theorems hold of the service.      *)
THEOREM ServiceRefinesStore == ServiceSpec => Spec
<1>1. ServiceInit => Init
  BY DEF ServiceInit
<1>2. [ServiceNext]_ServiceVars => [Next]_vars
  BY ServiceSteps DEF ServiceVars
<1> QED
  BY <1>1, <1>2, PTL DEF ServiceSpec, Spec

(* A PUT that was replied stays as it was.                                 *)
LEMMA RepliedIsFinal ==
    ASSUME TypeOK, [Next]_vars, NEW p \in Puts, pc[p] \in Replied PROVE pc'[p] = pc[p]
<1> USE DEF TypeOK, Replied, Running
<1>0. CASE UNCHANGED vars
  BY <1>0 DEF vars
<1>1. CASE \E q \in Puts : PutStep(q)
  BY <1>1 DEF PutStep, PutBadId, NextId, Create, CreateConflict, CreateNoDir, Mkdir,
              Copy, CopyFails, Abort, Commit
<1>2. CASE \E q \in Puts : DeleteStep(q)
  BY <1>2 DEF DeleteStep, DeleteSend, DeleteRun
<1>3. CASE \E g \in Gets : GetReply(g) \/ \E q \in Puts : GetOpen(g, q)
  BY <1>3 DEF GetReply, GetOpen
<1>4. CASE Crash
  BY <1>4 DEF Crash
<1> QED
  BY <1>0, <1>1, <1>2, <1>3, <1>4 DEF Next

(* The clients, at first.                                                  *)
LEMMA ClientsInitially == ServiceInit => CIInv
BY RequestsAssumption
DEF ServiceInit, Init, CIInv, ClientsType, Truthful, NeverRemoved, Decoded, SentWell, Told, Origins

(* What a client is told is known to the types.                            *)
LEMMA OutcomeType ==
    ASSUME NEW r, r.by \in Origins
    PROVE  /\ Failure(r) \in Told
           /\ \A s \in Replied : Outcome(r, s) \in Told
BY DEF Failure, Outcome, Told, Replied, Origins

(* Each step of the service keeps the clients truthful, the names decoded, *)
(* and the blobs of the gate out of the reach of DELETEs.                  *)
LEMMA ClientsInductive ==
    TypeOK /\ CIInv /\ [ServiceNext]_ServiceVars => CIInv'
<1> SUFFICES ASSUME TypeOK, CIInv, [ServiceNext]_ServiceVars PROVE CIInv'
  OBVIOUS
<1>t. ClientsType'
  <2> USE DEF CIInv, ClientsType
  <2> \A p \in Puts : Failure(req[p]) \in Told /\ \A s \in Replied : Outcome(req[p], s) \in Told
    BY OutcomeType
  <2>0. CASE UNCHANGED clients
    BY <2>0 DEF clients
  <2>1. CASE \E p \in Puts : RefuseName(p)
    BY <2>1 DEF RefuseName, Told, Replied
  <2>2. CASE \E p \in Puts : NothingToCall(p)
    BY <2>2 DEF NothingToCall
  <2>3. CASE \E p \in Puts : Send(p)
    BY <2>3 DEF Send
  <2>4. CASE \E p \in Puts : BreakLink(p)
    BY <2>4 DEF BreakLink
  <2>5. CASE \E p \in Puts : Answer(p)
    BY <2>5 DEF Answer
  <2> QED
    BY <2>0, <2>1, <2>2, <2>3, <2>4, <2>5
    DEF ServiceVars, ServiceNext, StorePut, Remove, Fetch
<1>p. \A p \in Puts : pc[p] \in Replied => pc'[p] = pc[p]
  BY RepliedIsFinal, ServiceSteps DEF ServiceVars
<1> USE DEF CIInv, ClientsType, TypeOK
<1>0. CASE UNCHANGED ServiceVars
  BY <1>0, <1>t DEF ServiceVars, vars, clients, Truthful, NeverRemoved, Decoded, SentWell
<1>1. ASSUME NEW p \in Puts, RefuseName(p) \/ NothingToCall(p) PROVE CIInv'
  <2>1. /\ link[p] = "none" /\ UNCHANGED <<pc, del, req, link>>
        /\ told' = [told EXCEPT ![p] = told'[p]]
        /\ told'[p] \in {"badrequest", "error", Failure(req[p])}
    BY <1>1 DEF RefuseName, NothingToCall, Ask, vars
  <2>2. Truthful'
    BY <2>1 DEF Truthful
  <2> QED
    BY <2>1, <2>2, <1>t DEF NeverRemoved, Decoded, SentWell
<1>2. CASE \E p \in Puts : Send(p)
  BY <1>2, <1>t DEF Send, IsSendable, Ask, vars, Truthful, NeverRemoved, Decoded, SentWell
<1>3. CASE \E p \in Puts : BreakLink(p)
  BY <1>3, <1>t DEF BreakLink, vars, Truthful, NeverRemoved, Decoded, SentWell
<1>4. CASE \E p \in Puts : Answer(p)
  BY <1>4, <1>t DEF Answer, vars, Truthful, NeverRemoved, Decoded, SentWell
<1>5. ASSUME NEW p \in Puts, StorePut(p) PROVE CIInv'
  <2>1. /\ del' = del /\ UNCHANGED clients /\ link[p] # "none"
        /\ \A q \in Puts \ {p} : pc'[q] = pc[q]
    BY <1>5 DEF StorePut, PutStep, PutBadId, NextId, Create, CreateConflict, CreateNoDir,
                Mkdir, Copy, CopyFails, Abort, Commit, clients
  <2>2. pc'[p] \notin {"new", "badrequest"} => IsBlobId(Sent(req[p]))
    <3>1. CASE pc[p] = "new"
      BY <1>5, <3>1 DEF StorePut, PutBadId
    <3>2. CASE pc[p] = "badrequest"
      BY <1>p, <3>2 DEF Replied
    <3> QED
      BY <3>1, <3>2 DEF Decoded
  <2> QED
    BY <2>1, <2>2, <1>p, <1>t DEF clients, Truthful, NeverRemoved, Decoded, SentWell
<1>6. ASSUME NEW p \in Puts, Remove(p) PROVE CIInv'
  <2>1. pc' = pc /\ UNCHANGED clients /\ \A q \in Puts \ {p} : del'[q] = del[q]
    BY <1>6 DEF Remove, DeleteStep, DeleteSend, DeleteRun
  <2> QED
    BY <1>6, <2>1, <1>t DEF Remove, Knows, clients, Truthful, NeverRemoved, Decoded, SentWell
<1>7. CASE \E g \in Gets : (GetReply(g) /\ UNCHANGED clients) \/ \E p \in Puts : Fetch(g, p)
  BY <1>7, <1>t DEF GetReply, Fetch, GetOpen, clients, Truthful, NeverRemoved, Decoded, SentWell
<1>8. CASE Crash /\ UNCHANGED clients
  BY <1>8, <1>t, <1>p DEF Crash, clients, Running, Truthful, NeverRemoved, Decoded, SentWell
<1> QED
  BY <1>0, <1>1, <1>2, <1>3, <1>4, <1>5, <1>6, <1>7, <1>8 DEF ServiceNext

(* The invariant of the clients.                                           *)
LEMMA ClientsInvariance == ServiceSpec => [](TypeOK /\ CIInv)
BY ClientsInitially, ClientsInductive, ServiceRefinesStore, TypeCorrect, PTL DEF ServiceSpec

-----------------------------------------------------------------------------
(* While no DELETE is sent again, what the gate, or "put", reported as     *)
(* stored is there for ever, whatever broke, crashed or collided.          *)
THEOREM ReportedStays == ASSUME ~Resend PROVE ServiceSpec => []ReportedIsThereForGood
<1>1. TypeOK /\ CIInv /\ AckedIsStored => ReportedIsThereForGood
  <2> SUFFICES ASSUME TypeOK, CIInv, AckedIsStored, NEW p \in Puts,
                      \/ req[p].by = "gate" /\ told[p] = "created"
                      \/ req[p].by = "stdin" /\ told[p] = "ok"
               PROVE  pc[p] = "created" /\ del[p] = "none"
    BY DEF AckedIsStored, ReportedIsThereForGood
  <2>1. link[p] = "open" /\ told[p] = Outcome(req[p], pc[p]) /\ pc[p] \in Replied
    BY DEF CIInv, ClientsType, Truthful, Failure
  <2> QED
    BY <2>1 DEF CIInv, Outcome, Failure, NeverRemoved
<1> QED
  BY <1>1, ClientsInvariance, ServiceRefinesStore, AckedBlobsAreStored, PTL

(* Whatever the DELETEs, a failure that the store replied left no blob:    *)
(* a blob nobody was told of is behind a call that broke.                  *)
THEOREM OrphansAreOfBreaks == ServiceSpec => []OrphansComeOfBreaks
<1>1. TypeOK /\ CIInv /\ AnyIInv => OrphansComeOfBreaks
  <2> SUFFICES ASSUME TypeOK, CIInv, Named, NEW p \in Puts, NEW i \in Ids, file[i] = p,
                      p # None, link[p] = "open"
               PROVE  told[p] \in {"none", "created", "ok"}
    BY DEF OrphansComeOfBreaks, AnyIInv, TypeOK
  <2>1. pc[p] \in Replied => pc[p] = "created"
    BY DEF Named, Replied
  <2>2. told[p] # "none" => told[p] = Outcome(req[p], "created")
    BY <2>1 DEF CIInv, Truthful
  <2> QED
    BY <2>2 DEF CIInv, ClientsType, Outcome, Origins
<1> QED
  BY <1>1, ClientsInvariance, ServiceRefinesStore, AnyInvariance, PTL

(* Whatever commas the names hold, the store takes none for another: it    *)
(* refuses what it would not read back as it was meant.                    *)
THEOREM NamesAreRead == ServiceSpec => []NameIsRead
<1>1. TypeOK /\ CIInv => NameIsRead
  <2> SUFFICES ASSUME CIInv, NEW p \in Puts, pc[p] \notin {"new", "badrequest"},
                      req[p].by # "http", Plain(Written(req[p]))
               PROVE  DecodeBlobId(Sent(req[p])) = Meant(req[p])
    BY DEF NameIsRead
  <2> DEFINE r == req[p]
  <2>1. /\ r.by \in {"gate", "stdin", "file"}
        /\ r.tokens \in Seq(Text) \ {<<>>}
        /\ IsWellNamed(r) /\ IsBlobId(Sent(r)) /\ Sent(r) = EncodeBlobId(Meant(r))
    BY PlainIsCarried DEF CIInv, ClientsType, Decoded, Origins, Sent, Written
  <2> HIDE DEF r
  <2>2. Meant(r) \in BlobId
    <3>1. CASE r.by = "gate"
      <4>1. Len(r.tokens) = 3
        BY <2>1, <3>1 DEF IsWellNamed
      <4>2. r.tokens[1] \in Text /\ r.tokens[2] \in Text /\ r.tokens[3] \in Text
        BY <2>1, <4>1, ElementOfSeq
      <4> QED
        BY <3>1, <4>2 DEF Meant, BlobId
    <3>2. CASE r.by \in {"stdin", "file"}
      <4>1. IsBlobId(r.tokens[1])
        BY <2>1, <3>2 DEF IsWellNamed
      <4>2. r.tokens[1] \in Text
        <5>1. Len(r.tokens) \in Nat /\ Len(r.tokens) # 0
          BY <2>1, EmptySeq, LenProperties
        <5>2. 1 \in 1 .. Len(r.tokens)
          BY <5>1
        <5> QED
          BY <2>1, <5>2, ElementOfSeq
      <4> QED
        BY <3>2, <4>1, <4>2, DecodeGivesBlobIds DEF Meant
    <3> QED
      BY <2>1, <3>1, <3>2
  <2> QED
    BY <2>1, <2>2, BlobNamesRoundTrip DEF r
<1> QED
  BY <1>1, ClientsInvariance, PTL
=============================================================================
