--------------------------- MODULE BlobStoreFsProofs ---------------------------
(***************************************************************************)
(* The proofs about BlobStoreFs, for every set of directories, names, PUTs *)
(* and GETs.                                                               *)
(*                                                                         *)
(* The names on the disk and the progress of the PUTs are tied together by *)
(* Named and Owned: a name leads to the PUT that drew it, and to none that *)
(* failed; and a PUT between its open and the first DELETE of its Location *)
(* has its name for itself, which is what O_EXCL is for.  The second holds *)
(* only while no DELETE is sent again: a DELETE is by name, and the name   *)
(* may bear another blob when it comes a second time (run blob_resend).    *)
(***************************************************************************)
EXTENDS BlobStoreFs, TLAPS

(* The PUTs that have created their file, and still count on it            *)
Holding(p) ==
    \/ pc[p] \in {"write", "abort", "commit"}
    \/ pc[p] = "created" /\ del[p] \in {"none", "sent"}

(* A name leads to a PUT that drew it and has not failed                   *)
Named ==
    \A i \in Ids : file[i] # None =>
        /\ id[file[i]] = i
        /\ pc[file[i]] \in {"write", "abort", "commit", "created", "lost"}

(* A DELETE is sent by a client that was given a Location                  *)
Asked == \A p \in Puts : del[p] # "none" => pc[p] = "created"

(* The inodes of the acknowledged PUTs hold their whole body               *)
Complete == \A p \in Puts : pc[p] \in {"commit", "created"} => p \in whole

(* The second attempt to create a file finds its directory                 *)
Made == \A p \in Puts : pc[p] = "reopen" => DirOf(id[p]) \in dirs

(* A PUT that counts on its name has it                                    *)
Owned == \A p \in Puts : Holding(p) => file[id[p]] = p

(* An open GET wants an acknowledged blob; it holds that blob unless its   *)
(* removal was asked for                                                   *)
Reading ==
    \A g \in Gets : get[g] # NoGet =>
        /\ get[g].want \in Puts
        /\ pc[get[g].want] = "created"
        /\ del[get[g].want] = "none" => get[g].fd = get[g].want

-----------------------------------------------------------------------------
(* The types, one step per action.                                         *)
LEMMA TypeInductive == TypeOK /\ [Next]_vars => TypeOK'
<1> SUFFICES ASSUME TypeOK, [Next]_vars PROVE TypeOK'
  OBVIOUS
<1> USE DEF Running, Replied, NoGet
<1>0. CASE UNCHANGED vars
  BY <1>0 DEF vars, TypeOK
<1>1. CASE \E p \in Puts : PutBadId(p)
  BY <1>1 DEF PutBadId, TypeOK
<1>2. CASE \E p \in Puts, i \in Ids : NextId(p, i)
  BY <1>2 DEF NextId, TypeOK
<1>3. CASE \E p \in Puts : Create(p)
  BY <1>3 DEF Create, TypeOK
<1>4. CASE \E p \in Puts : CreateConflict(p)
  BY <1>4 DEF CreateConflict, TypeOK
<1>5. CASE \E p \in Puts : CreateNoDir(p)
  BY <1>5 DEF CreateNoDir, TypeOK
<1>6. CASE \E p \in Puts : Mkdir(p)
  BY <1>6 DEF Mkdir, TypeOK, Ids, DirOf
<1>7. CASE \E p \in Puts : Copy(p)
  BY <1>7 DEF Copy, TypeOK
<1>8. CASE \E p \in Puts : CopyFails(p)
  BY <1>8 DEF CopyFails, TypeOK
<1>9. CASE \E p \in Puts : Abort(p)
  BY <1>9 DEF Abort, TypeOK
<1>10. CASE \E p \in Puts : Commit(p)
  BY <1>10 DEF Commit, TypeOK
<1>11. CASE \E p \in Puts : DeleteSend(p)
  BY <1>11 DEF DeleteSend, TypeOK
<1>12. CASE \E p \in Puts, sp \in Spellings : DeleteRun(p, sp)
  BY <1>12 DEF DeleteRun, TypeOK
<1>13. CASE \E g \in Gets : GetReply(g)
  BY <1>13 DEF GetReply, TypeOK
<1>14. CASE \E g \in Gets, p \in Puts : GetOpen(g, p)
  BY <1>14 DEF GetOpen, TypeOK
<1>15. CASE Crash
  BY <1>15 DEF Crash, TypeOK
<1> QED
  BY <1>0, <1>1, <1>2, <1>3, <1>4, <1>5, <1>6, <1>7, <1>8, <1>9, <1>10, <1>11, <1>12, <1>13, <1>14, <1>15 DEF Next, PutStep, DeleteStep

(* The variables keep their types.                                         *)
THEOREM TypeCorrect == Spec => []TypeOK
<1>1. Init => TypeOK
  <2> SUFFICES ASSUME Init PROVE TypeOK
    OBVIOUS
  <2>1. PICK d \in Dirs, n \in Names : TRUE
    BY IdsAssumption
  <2>2. <<d, n>> \in Ids
    BY <2>1 DEF Ids
  <2>3. (CHOOSE i \in Ids : TRUE) \in Ids
    BY <2>2
  <2> QED
    BY <2>3 DEF Init, TypeOK, NoGet
<1> QED
  BY <1>1, TypeInductive, PTL DEF Spec

-----------------------------------------------------------------------------
(* The invariants, in the order in which they rest on one another.         *)

(* What holds whatever the DELETEs...                                      *)
AnyIInv == TypeOK /\ Asked /\ Named /\ Made /\ Complete

(* ... what holds when ids are written as Locations are...                 *)
GoneIInv == AnyIInv /\ DeletedIsGone

(* ... and what holds while no DELETE is sent again                        *)
OnceIInv == AnyIInv /\ Owned /\ Reading

(* A DELETE follows the reply of its PUT; a PUT that fails gives its name  *)
(* back before it replies; directories are never removed; a PUT that       *)
(* commits has copied its whole body.                                      *)
LEMMA AnyInductive ==
    AnyIInv /\ [Next]_vars => AnyIInv'
<1> SUFFICES ASSUME AnyIInv, [Next]_vars
             PROVE  Asked' /\ Named' /\ Made' /\ Complete'
  BY TypeInductive DEF AnyIInv
<1> USE PutsAssumption DEF AnyIInv, TypeOK, Asked, Named, Made, Complete, Running
<1>0. CASE UNCHANGED vars
  BY <1>0 DEF vars
<1>1. CASE \E p \in Puts : PutBadId(p)
  BY <1>1 DEF PutBadId
<1>2. CASE \E p \in Puts, i \in Ids : NextId(p, i)
  BY <1>2 DEF NextId
<1>3. CASE \E p \in Puts : Create(p)
  BY <1>3 DEF Create
<1>4. CASE \E p \in Puts : CreateConflict(p)
  BY <1>4 DEF CreateConflict
<1>5. CASE \E p \in Puts : CreateNoDir(p)
  BY <1>5 DEF CreateNoDir
<1>6. CASE \E p \in Puts : Mkdir(p)
  BY <1>6 DEF Mkdir
<1>7. CASE \E p \in Puts : Copy(p)
  BY <1>7 DEF Copy
<1>8. CASE \E p \in Puts : CopyFails(p)
  BY <1>8 DEF CopyFails
<1>9. CASE \E p \in Puts : Abort(p)
  BY <1>9 DEF Abort
<1>10. CASE \E p \in Puts : Commit(p)
  BY <1>10 DEF Commit
<1>11. CASE \E p \in Puts : DeleteSend(p)
  BY <1>11 DEF DeleteSend
<1>12. CASE \E p \in Puts, sp \in Spellings : DeleteRun(p, sp)
  BY <1>12 DEF DeleteRun
<1>13. CASE \E g \in Gets : GetReply(g)
  BY <1>13 DEF GetReply
<1>14. CASE \E g \in Gets, p \in Puts : GetOpen(g, p)
  BY <1>14 DEF GetOpen
<1>15. CASE Crash
  BY <1>15 DEF Crash
<1> QED
  BY <1>0, <1>1, <1>2, <1>3, <1>4, <1>5, <1>6, <1>7, <1>8,
     <1>9, <1>10, <1>11, <1>12, <1>13, <1>14, <1>15 DEF Next, PutStep, DeleteStep

(* What a DELETE removed comes back under no name.                         *)
LEMMA GoneInductive ==
    GoneIInv /\ "flat" \notin Spellings /\ [Next]_vars => DeletedIsGone'
<1> SUFFICES ASSUME GoneIInv, "flat" \notin Spellings, [Next]_vars PROVE DeletedIsGone'
  OBVIOUS
<1> USE PutsAssumption, SpellingsAssumption DEF TypeOK, GoneIInv, AnyIInv, Asked, Named, DeletedIsGone, Running
<1>0. CASE UNCHANGED vars
  BY <1>0 DEF vars
<1>1. CASE \E p \in Puts : PutBadId(p)
  BY <1>1 DEF PutBadId
<1>2. CASE \E p \in Puts, i \in Ids : NextId(p, i)
  BY <1>2 DEF NextId
<1>3. CASE \E p \in Puts : Create(p)
  BY <1>3 DEF Create
<1>4. CASE \E p \in Puts : CreateConflict(p)
  BY <1>4 DEF CreateConflict
<1>5. CASE \E p \in Puts : CreateNoDir(p)
  BY <1>5 DEF CreateNoDir
<1>6. CASE \E p \in Puts : Mkdir(p)
  BY <1>6 DEF Mkdir
<1>7. CASE \E p \in Puts : Copy(p)
  BY <1>7 DEF Copy
<1>8. CASE \E p \in Puts : CopyFails(p)
  BY <1>8 DEF CopyFails
<1>9. CASE \E p \in Puts : Abort(p)
  BY <1>9 DEF Abort
<1>10. CASE \E p \in Puts : Commit(p)
  BY <1>10 DEF Commit
<1>11. CASE \E p \in Puts : DeleteSend(p)
  BY <1>11 DEF DeleteSend
<1>12. CASE \E p \in Puts, sp \in Spellings : DeleteRun(p, sp)
  BY <1>12 DEF DeleteRun
<1>13. CASE \E g \in Gets : GetReply(g)
  BY <1>13 DEF GetReply
<1>14. CASE \E g \in Gets, p \in Puts : GetOpen(g, p)
  BY <1>14 DEF GetOpen
<1>15. CASE Crash
  BY <1>15 DEF Crash
<1> QED
  BY <1>0, <1>1, <1>2, <1>3, <1>4, <1>5, <1>6, <1>7, <1>8,
     <1>9, <1>10, <1>11, <1>12, <1>13, <1>14, <1>15 DEF Next, PutStep, DeleteStep

(* O_EXCL: no PUT takes the name of another, and no abort nor DELETE       *)
(* removes it; so that a GET opens the blob it wants.                      *)
LEMMA OnceInductive ==
    OnceIInv /\ ~Resend /\ [Next]_vars => Owned' /\ Reading'
<1> SUFFICES ASSUME OnceIInv, ~Resend, [Next]_vars PROVE Owned' /\ Reading'
  OBVIOUS
<1> USE PutsAssumption DEF TypeOK, OnceIInv, AnyIInv, Asked, Owned, Holding, Reading, NoGet, Running
<1>0. CASE UNCHANGED vars
  BY <1>0 DEF vars
<1>1. CASE \E p \in Puts : PutBadId(p)
  BY <1>1 DEF PutBadId
<1>2. CASE \E p \in Puts, i \in Ids : NextId(p, i)
  BY <1>2 DEF NextId
<1>3. CASE \E p \in Puts : Create(p)
  BY <1>3 DEF Create
<1>4. CASE \E p \in Puts : CreateConflict(p)
  BY <1>4 DEF CreateConflict
<1>5. CASE \E p \in Puts : CreateNoDir(p)
  BY <1>5 DEF CreateNoDir
<1>6. CASE \E p \in Puts : Mkdir(p)
  BY <1>6 DEF Mkdir
<1>7. CASE \E p \in Puts : Copy(p)
  BY <1>7 DEF Copy
<1>8. CASE \E p \in Puts : CopyFails(p)
  BY <1>8 DEF CopyFails
<1>9. CASE \E p \in Puts : Abort(p)
  BY <1>9 DEF Abort
<1>10. CASE \E p \in Puts : Commit(p)
  BY <1>10 DEF Commit
<1>11. CASE \E p \in Puts : DeleteSend(p)
  BY <1>11 DEF DeleteSend
<1>12. CASE \E p \in Puts, sp \in Spellings : DeleteRun(p, sp)
  BY <1>12 DEF DeleteRun
<1>13. CASE \E g \in Gets : GetReply(g)
  BY <1>13 DEF GetReply
<1>14. CASE \E g \in Gets, p \in Puts : GetOpen(g, p)
  BY <1>14 DEF GetOpen
<1>15. CASE Crash
  BY <1>15 DEF Crash
<1> QED
  BY <1>0, <1>1, <1>2, <1>3, <1>4, <1>5, <1>6, <1>7, <1>8,
     <1>9, <1>10, <1>11, <1>12, <1>13, <1>14, <1>15 DEF Next, PutStep, DeleteStep

-----------------------------------------------------------------------------
(* The first state of the store has no file, and no request.               *)
LEMMA Initial == Init /\ TypeOK => OnceIInv /\ GoneIInv
BY DEF Init, OnceIInv, GoneIInv, AnyIInv, Asked, Named, Made, Complete, Owned,
       Holding, Reading, NoGet, DeletedIsGone

(* The invariants that nothing disturbs.                                   *)
LEMMA AnyInvariance == Spec => []AnyIInv
<1>1. Init /\ TypeOK => AnyIInv
  BY Initial DEF OnceIInv
<1> QED
  BY <1>1, AnyInductive, TypeCorrect, PTL DEF Spec

(* The invariants that hold while no DELETE is sent again.                 *)
LEMMA OnceInvariance == ASSUME ~Resend PROVE Spec => []OnceIInv
<1>1. Init /\ TypeOK => OnceIInv
  BY Initial
<1>2. OnceIInv /\ [Next]_vars => OnceIInv'
  BY AnyInductive, OnceInductive DEF OnceIInv
<1> QED
  BY <1>1, <1>2, TypeCorrect, PTL DEF Spec

(* While no DELETE is sent again, an acknowledged blob whose removal was   *)
(* not asked for is there, whole, under the name its client was given.     *)
THEOREM AckedBlobsAreStored == ASSUME ~Resend PROVE Spec => []AckedIsStored
<1>1. OnceIInv => AckedIsStored
  BY DEF OnceIInv, AnyIInv, Owned, Holding, Complete, AckedIsStored
<1> QED
  BY <1>1, OnceInvariance, PTL

(* While no DELETE is sent again, two PUTs in progress never share a file. *)
THEOREM WritersOwnTheirNames == ASSUME ~Resend PROVE Spec => []WriterOwnsItsName
<1>1. OnceIInv => WriterOwnsItsName
  BY DEF OnceIInv, Owned, Holding, WriterOwnsItsName
<1> QED
  BY <1>1, OnceInvariance, PTL

(* While no DELETE is sent again, a GET streams the whole blob it wants,   *)
(* unless that blob is being removed.                                      *)
THEOREM ReadersGetWholeBlobs == ASSUME ~Resend PROVE Spec => []ReadsWholeBlobs
<1>1. OnceIInv => ReadsWholeBlobs
  BY DEF OnceIInv, AnyIInv, TypeOK, Complete, Reading, ReadsWholeBlobs
<1> QED
  BY <1>1, OnceInvariance, PTL

(* Whatever the DELETEs, a PUT that failed left no file behind: a file is  *)
(* that of a PUT in progress, acknowledged, or lost in a crash.            *)
THEOREM FailuresLeaveNothing == Spec => []FailureLeavesNothing
<1>1. AnyIInv => FailureLeavesNothing
  BY DEF AnyIInv, Named, FailureLeavesNothing
<1> QED
  BY <1>1, AnyInvariance, PTL

(* When ids are written as Locations are, an answered DELETE did remove    *)
(* its blob.                                                               *)
THEOREM DeletedBlobsAreGone ==
    ASSUME "flat" \notin Spellings PROVE Spec => []DeletedIsGone
<1>1. Init /\ TypeOK => GoneIInv
  BY Initial
<1>2. GoneIInv /\ [Next]_vars => GoneIInv'
  BY AnyInductive, GoneInductive DEF GoneIInv
<1>3. GoneIInv => DeletedIsGone
  BY DEF GoneIInv
<1> QED
  BY <1>1, <1>2, <1>3, TypeCorrect, PTL DEF Spec

(* A PUT is refused by the file system only when a blob bears its name.    *)
THEOREM RefusalsAreCollisions == Spec => RefusedOnlyByABlob
<1> DEFINE Refused == \A p \in Puts : pc[p] \in Running /\ pc'[p] \in {"conflict", "notfound"}
                           => file[id[p]] # None
<1>1. AnyIInv /\ [Next]_vars => [Refused]_vars
  <2> SUFFICES ASSUME AnyIInv, Next PROVE Refused
    BY DEF vars
  <2> USE DEF AnyIInv, TypeOK, Made, Running
  <2>1. CASE \E p \in Puts : PutBadId(p)
    BY <2>1 DEF PutBadId
  <2>2. CASE \E p \in Puts, i \in Ids : NextId(p, i)
    BY <2>2 DEF NextId
  <2>3. CASE \E p \in Puts : Create(p)
    BY <2>3 DEF Create
  <2>4. CASE \E p \in Puts : CreateConflict(p)
    BY <2>4 DEF CreateConflict
  <2>5. CASE \E p \in Puts : CreateNoDir(p)
    BY <2>5 DEF CreateNoDir
  <2>6. CASE \E p \in Puts : Mkdir(p)
    BY <2>6 DEF Mkdir
  <2>7. CASE \E p \in Puts : Copy(p)
    BY <2>7 DEF Copy
  <2>8. CASE \E p \in Puts : CopyFails(p)
    BY <2>8 DEF CopyFails
  <2>9. CASE \E p \in Puts : Abort(p)
    BY <2>9 DEF Abort
  <2>10. CASE \E p \in Puts : Commit(p)
    BY <2>10 DEF Commit
  <2>11. CASE \E p \in Puts : DeleteSend(p)
    BY <2>11 DEF DeleteSend
  <2>12. CASE \E p \in Puts, sp \in Spellings : DeleteRun(p, sp)
    BY <2>12 DEF DeleteRun
  <2>13. CASE \E g \in Gets : GetReply(g)
    BY <2>13 DEF GetReply
  <2>14. CASE \E g \in Gets, p \in Puts : GetOpen(g, p)
    BY <2>14 DEF GetOpen
  <2>15. CASE Crash
    BY <2>15 DEF Crash
  <2> QED
    BY <2>1, <2>2, <2>3, <2>4, <2>5, <2>6, <2>7, <2>8,
       <2>9, <2>10, <2>11, <2>12, <2>13, <2>14, <2>15 DEF Next, PutStep, DeleteStep
<1> QED
  BY <1>1, AnyInvariance, PTL DEF Spec, RefusedOnlyByABlob
-----------------------------------------------------------------------------
(* The store as a map.                                                     *)

(* A PUT that copied its whole body has no way to fail                     *)
Copied == \A p \in whole : pc[p] \in {"commit", "created", "lost"}

(* Only the copy makes an inode whole, and what follows it never fails.    *)
LEMMA CopiedInductive == TypeOK /\ Copied /\ [Next]_vars => Copied'
<1> SUFFICES ASSUME TypeOK, Copied, [Next]_vars PROVE Copied'
  OBVIOUS
<1> USE DEF TypeOK, Copied, Running
<1>0. CASE UNCHANGED vars
  BY <1>0 DEF vars
<1>1. CASE \E p \in Puts : PutBadId(p)
  BY <1>1 DEF PutBadId
<1>2. CASE \E p \in Puts, i \in Ids : NextId(p, i)
  BY <1>2 DEF NextId
<1>3. CASE \E p \in Puts : Create(p) \/ CreateConflict(p) \/ CreateNoDir(p) \/ Mkdir(p)
  BY <1>3 DEF Create, CreateConflict, CreateNoDir, Mkdir
<1>4. CASE \E p \in Puts : Copy(p) \/ CopyFails(p) \/ Abort(p) \/ Commit(p)
  BY <1>4 DEF Copy, CopyFails, Abort, Commit
<1>5. CASE \E p \in Puts : DeleteStep(p)
  BY <1>5 DEF DeleteStep, DeleteSend, DeleteRun
<1>6. CASE \E g \in Gets : GetReply(g) \/ \E p \in Puts : GetOpen(g, p)
  BY <1>6 DEF GetReply, GetOpen
<1>7. CASE Crash
  BY <1>7 DEF Crash
<1> QED
  BY <1>0, <1>1, <1>2, <1>3, <1>4, <1>5, <1>6, <1>7 DEF Next, PutStep

(* What a PUT is to the map when only it moves.                            *)
LEMMA StatusMoves ==
    ASSUME TypeOK, NEW p \in Puts, NEW step,
           pc' = [pc EXCEPT ![p] = step]
    PROVE  /\ step \in {"new"} \cup Running /\ Status[p] = "running" => Status' = Status
           /\ step \in Replied \ {"created"} => Status' = [Status EXCEPT ![p] = "failed"]
           /\ step = "created" => Status' = [Status EXCEPT ![p] = "created"]
BY DEF TypeOK, Status, Running, Replied

(* A file that is not whole is not in the map: its creation and its abort  *)
(* are not seen.                                                           *)
LEMMA PartialIsUnseen ==
    ASSUME TypeOK, NEW p \in Puts, p \notin whole, whole' = whole,
           \/ file[id[p]] = None /\ file' = [file EXCEPT ![id[p]] = p]
           \/ file[id[p]] = p /\ file' = [file EXCEPT ![id[p]] = None]
           \/ file' = file
    PROVE  Visible' = Visible
BY DEF TypeOK, Visible

(* Every step of the store is a step of the map, or one that it does not   *)
(* see: the copy stores, the commit acknowledges, the DELETE removes.      *)
LEMMA StepsOfTheMap ==
    ASSUME ~Resend, OnceIInv, Copied, [Next]_vars
    PROVE  [Map!Next]_(Map!vars)
<1> USE PutsAssumption DEF OnceIInv, AnyIInv
<1> TypeOK
  OBVIOUS
<1> DEFINE Unseen == Visible' = Visible /\ Status' = Status
<1>u. Unseen => [Map!Next]_(Map!vars)
  BY DEF Map!vars
<1>n. ASSUME NEW p \in Puts, p \notin whole PROVE ~ Map!Stored(p)
  BY <1>n DEF Map!Stored, Visible
<1>f. ASSUME NEW p \in Puts, Map!Fail(p) \/ Map!Acknowledge(p) PROVE Map!Next
  BY <1>f DEF Map!Next
<1>0. CASE UNCHANGED vars
  BY <1>0, <1>u DEF vars, Visible, Status
<1>1. ASSUME NEW p \in Puts, PutStep(p) PROVE [Map!Next]_(Map!vars)
  <2>1. CASE PutBadId(p) \/ CreateConflict(p) \/ (CreateNoDir(p) /\ pc[p] = "reopen")
    <3>1. pc[p] \in {"new", "open", "reopen"} /\ p \notin whole /\ Visible' = Visible
      BY <2>1 DEF PutBadId, CreateConflict, CreateNoDir, Copied, Visible
    <3>2. Status' = [Status EXCEPT ![p] = "failed"] /\ Status[p] = "running"
      BY <2>1, <3>1, StatusMoves
      DEF PutBadId, CreateConflict, CreateNoDir, Replied, Running, Status
    <3> QED
      BY <3>1, <3>2, <1>n, <1>f DEF Map!Fail
  <2>2. CASE \/ \E i \in Ids : NextId(p, i)
             \/ CreateNoDir(p) /\ pc[p] = "open"
             \/ Mkdir(p) \/ CopyFails(p) \/ Create(p)
    <3>1. Visible' = Visible
      BY <2>2, PartialIsUnseen
      DEF NextId, CreateNoDir, Mkdir, CopyFails, Create, Copied, Visible
    <3>2. Status[p] = "running"
      BY <2>2 DEF NextId, CreateNoDir, Mkdir, CopyFails, Create, Status, Running, Replied
    <3>3. PICK step \in {"new"} \cup Running : pc' = [pc EXCEPT ![p] = step]
      BY <2>2 DEF NextId, CreateNoDir, Mkdir, CopyFails, Create, Running
    <3> QED
      BY <3>1, <3>2, <3>3, StatusMoves, <1>u
  <2>3. CASE Copy(p)
    <3>1. file[id[p]] = p /\ p \notin whole /\ id[p] \in Ids
      BY <2>3 DEF Copy, Owned, Holding, Copied, TypeOK
    <3>2. Visible[id[p]] = None /\ Visible' = [Visible EXCEPT ![id[p]] = p]
      <4>1. \A i \in Ids : file[i] = p => i = id[p]
        BY DEF Named
      <4>2. file' = file /\ whole' = whole \cup {p} /\ None \notin whole
        BY <2>3 DEF Copy, TypeOK
      <4> QED
        BY <3>1, <4>1, <4>2 DEF Visible
    <3>3. Status' = Status /\ Status[p] = "running"
      BY <2>3, StatusMoves DEF Copy, Status, Running, Replied
    <3> QED
      BY <3>1, <3>2, <3>3, <1>n DEF Map!Store, Map!Next
  <2>4. CASE Abort(p)
    <3>1. file[id[p]] = p /\ p \notin whole
      BY <2>4 DEF Abort, Owned, Holding, Copied
    <3>2. Visible' = Visible
      BY <2>4, <3>1, PartialIsUnseen DEF Abort
    <3>3. Status' = [Status EXCEPT ![p] = "failed"] /\ Status[p] = "running"
      BY <2>4, StatusMoves DEF Abort, Status, Running, Replied
    <3> QED
      BY <3>1, <3>2, <3>3, <1>n, <1>f DEF Map!Fail
  <2>5. CASE Commit(p)
    <3>1. file[id[p]] = p /\ p \in whole /\ id[p] \in Ids
      BY <2>5 DEF Commit, Owned, Holding, Complete, TypeOK
    <3>2. Map!Stored(p) /\ Visible' = Visible
      BY <2>5, <3>1 DEF Map!Stored, Visible, Commit
    <3>3. Status' = [Status EXCEPT ![p] = "created"] /\ Status[p] = "running"
      BY <2>5, StatusMoves DEF Commit, Status, Running, Replied
    <3> QED
      BY <3>2, <3>3, <1>f DEF Map!Acknowledge
  <2> QED
    BY <1>1, <2>1, <2>2, <2>3, <2>4, <2>5 DEF PutStep, CreateNoDir
<1>2. ASSUME NEW p \in Puts, DeleteStep(p) PROVE [Map!Next]_(Map!vars)
  <2>1. CASE file' = file
    BY <2>1, <1>2, <1>u DEF DeleteStep, DeleteSend, DeleteRun, Visible, Status
  <2>2. CASE file' # file
    <3>1. /\ del[p] = "sent" /\ pc[p] = "created" /\ pc' = pc /\ whole' = whole
          /\ file' = [file EXCEPT ![id[p]] = None]
      BY <2>2, <1>2 DEF DeleteStep, DeleteSend, DeleteRun, Asked
    <3>2. file[id[p]] = p /\ p \in whole /\ id[p] \in Ids
      BY <3>1 DEF Owned, Holding, Complete, TypeOK
    <3>3. Visible[id[p]] = p /\ Visible' = [Visible EXCEPT ![id[p]] = None]
      BY <3>1, <3>2 DEF Visible, TypeOK
    <3>4. Status[p] = "created" /\ Status' = Status
      BY <3>1 DEF Status, Running
    <3> QED
      BY <3>2, <3>3, <3>4 DEF Map!Remove, Map!Next
  <2> QED
    BY <2>1, <2>2
<1>3. CASE \E g \in Gets : GetReply(g) \/ \E p \in Puts : GetOpen(g, p)
  BY <1>3, <1>u DEF GetReply, GetOpen, Visible, Status
<1>4. CASE Crash
  <2> DEFINE P == {p \in Puts : pc[p] \in Running}
  <2>1. Visible' = Visible
    BY <1>4 DEF Crash, Visible
  <2>2. \A p \in P : Status[p] = "running"
    BY DEF Status, Running, Replied
  <2>3. Status' = [p \in Puts |-> IF p \in P THEN "lost" ELSE Status[p]]
    BY <1>4 DEF Crash, Status, TypeOK, Running, Replied
  <2> QED
    BY <2>1, <2>2, <2>3 DEF Map!Crash, Map!Next
<1> QED
  BY <1>0, <1>1, <1>2, <1>3, <1>4 DEF Next

(* While no DELETE is sent again, the file system, with its drawn names,   *)
(* its exclusive opens and its aborts by name, implements the map.         *)
THEOREM StoreImplementsMap == ASSUME ~Resend PROVE Spec => ImplementsBlobMap
<1>1. Init => Map!Init
  BY DEF Init, Map!Init, Visible, Status, Replied
<1>2. Init => Copied
  BY DEF Init, Copied
<1>3. OnceIInv => TypeOK
  BY DEF OnceIInv, AnyIInv
<1>4. OnceIInv /\ Copied /\ [Next]_vars => [Map!Next]_(Map!vars)
  BY StepsOfTheMap
<1> QED
  BY <1>1, <1>2, <1>3, <1>4, CopiedInductive, OnceInvariance, PTL
  DEF Spec, ImplementsBlobMap, Map!Spec
=============================================================================
