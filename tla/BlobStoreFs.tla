------------------------------ MODULE BlobStoreFs ------------------------------
(***************************************************************************)
(* The blob store on a file system: internal/cmd-blob-store-fs, its HTTP   *)
(* handlers (handlers.go) and its repository (repository.go).              *)
(*                                                                         *)
(* A PUT stores the body under an identifier the repository draws itself   *)
(* (nextId: a slice of the clock, then a random number), in the file       *)
(* relpath(id) = directory / name, opened with O_EXCL; the directory is    *)
(* made when it is missing.  The reply carries the path as the Location.   *)
(* A body that does not come to its end makes the PUT abort: the file is   *)
(* unlinked BY NAME.  GET opens the file and streams it.  DELETE unlinks   *)
(* the name found in the URL.                                              *)
(*                                                                         *)
(* Abstractions.  A PUT runs once, and stands for the inode it creates.    *)
(* Contents are whole or partial.  nextId draws any identifier: the clock  *)
(* slice wraps around every 5 hours, and idRand is used by all the         *)
(* handlers without the lock that rwRand was meant to be.  A crash is of   *)
(* the process, which starts again and keeps nothing in memory; the files  *)
(* stay.  What a crash of the host loses (nothing is synced) is left out.  *)
(***************************************************************************)
EXTENDS Naturals, FiniteSets

CONSTANTS Dirs,           \* the directories: the first 4 characters of an id
          Names,          \* the file names: the rest of the id
          Puts,           \* the PUT requests
          Gets,           \* GET requests in progress at the same time, at most
          Spellings,      \* how clients write an id: "path" (d/n), "flat" (dn)
          Resend,         \* is a DELETE sent again when its reply is lost?
          None

ASSUME IdsAssumption == Dirs # {} /\ Names # {}
ASSUME PutsAssumption == None \notin Puts
ASSUME SpellingsAssumption == Spellings \subseteq {"path", "flat"}
ASSUME ResendAssumption == Resend \in BOOLEAN

VARIABLES dirs,           \* the directories that exist
          file,           \* the inode under each identifier, or None
          whole,          \* the inodes that hold their whole body
          pc,             \* the step of each PUT
          id,             \* the identifier each PUT drew
          del,            \* "none", "sent", "gone" (204) or "notfound" (404)
          get             \* what each GET wants, and the inode it has opened

vars == <<dirs, file, whole, pc, id, del, get>>

Ids == Dirs \X Names

DirOf(i) == i[1]

Replied == {"created", "badrequest", "conflict", "notfound", "error"}

Running == {"open", "mkdir", "reopen", "write", "abort", "commit"}

NoGet == [want |-> None, fd |-> None]

Init ==
    /\ dirs = {}
    /\ file = [i \in Ids |-> None]
    /\ whole = {}
    /\ pc = [p \in Puts |-> "new"]
    /\ id = [p \in Puts |-> CHOOSE i \in Ids : TRUE]
    /\ del = [p \in Puts |-> "none"]
    /\ get = [g \in Gets |-> NoGet]

-----------------------------------------------------------------------------
(* PUT /v1/blob/{BLOB-ID}                                                  *)

(* DecodeBlobId fails                                                      *)
PutBadId(p) ==
    /\ pc[p] = "new"
    /\ pc' = [pc EXCEPT ![p] = "badrequest"]
    /\ UNCHANGED <<dirs, file, whole, id, del, get>>

(* cid := r.nextId()                                                       *)
NextId(p, i) ==
    /\ pc[p] = "new"
    /\ id' = [id EXCEPT ![p] = i]
    /\ pc' = [pc EXCEPT ![p] = "open"]
    /\ UNCHANGED <<dirs, file, whole, del, get>>

(* A bug to tell apart: opened without O_EXCL, a file that bears the name  *)
(* is taken over                                                           *)
CreateShared(p) ==
    /\ pc[p] \in {"open", "reopen"}
    /\ DirOf(id[p]) \in dirs
    /\ file' = [file EXCEPT ![id[p]] = p]
    /\ pc' = [pc EXCEPT ![p] = "write"]
    /\ UNCHANGED <<dirs, whole, id, del, get>>

(* createOrRetry: Openat with O_CREAT and O_EXCL creates the file          *)
Create(p) ==
    /\ pc[p] \in {"open", "reopen"}
    /\ DirOf(id[p]) \in dirs
    /\ file[id[p]] = None
    /\ file' = [file EXCEPT ![id[p]] = p]
    /\ pc' = [pc EXCEPT ![p] = "write"]
    /\ UNCHANGED <<dirs, whole, id, del, get>>

(* ... or says EEXIST, which ReplyError turns into a 409                   *)
CreateConflict(p) ==
    /\ pc[p] \in {"open", "reopen"}
    /\ DirOf(id[p]) \in dirs
    /\ file[id[p]] # None
    /\ pc' = [pc EXCEPT ![p] = "conflict"]
    /\ UNCHANGED <<dirs, file, whole, id, del, get>>

(* ... or says ENOENT: the directory is made and the file opened again,    *)
(* once; a second ENOENT is a 404                                          *)
CreateNoDir(p) ==
    /\ pc[p] \in {"open", "reopen"}
    /\ DirOf(id[p]) \notin dirs
    /\ pc' = [pc EXCEPT ![p] = IF pc[p] = "open" THEN "mkdir" ELSE "notfound"]
    /\ UNCHANGED <<dirs, file, whole, id, del, get>>

(* A bug to tell apart: a directory made meanwhile by another handler is   *)
(* an error, EEXIST, and a 409                                             *)
MkdirOnce(p) ==
    /\ pc[p] = "mkdir"
    /\ dirs' = dirs \cup {DirOf(id[p])}
    /\ pc' = [pc EXCEPT ![p] = IF DirOf(id[p]) \in dirs THEN "conflict" ELSE "reopen"]
    /\ UNCHANGED <<file, whole, id, del, get>>

(* A bug to tell apart: filepath.Dir is forgotten, and a directory takes   *)
(* the place of the file                                                   *)
MkdirPath(p) ==
    /\ pc[p] = "mkdir"
    /\ dirs' = dirs \cup {id[p]}
    /\ pc' = [pc EXCEPT ![p] = "reopen"]
    /\ UNCHANGED <<file, whole, id, del, get>>

(* mkdir: a directory that exists by now is as good as a new one           *)
Mkdir(p) ==
    /\ pc[p] = "mkdir"
    /\ dirs' = dirs \cup {DirOf(id[p])}
    /\ pc' = [pc EXCEPT ![p] = "reopen"]
    /\ UNCHANGED <<file, whole, id, del, get>>

(* io.Copy writes the body into the inode, to its end...                   *)
Copy(p) ==
    /\ pc[p] = "write"
    /\ whole' = whole \cup {p}
    /\ pc' = [pc EXCEPT ![p] = "commit"]
    /\ UNCHANGED <<dirs, file, id, del, get>>

(* A bug to tell apart: the error of io.Copy is not looked at              *)
CopyFailsUnseen(p) ==
    /\ pc[p] = "write"
    /\ pc' = [pc EXCEPT ![p] = "commit"]
    /\ UNCHANGED <<dirs, file, whole, id, del, get>>

(* ... or not: the client is gone, or the disk is full                     *)
CopyFails(p) ==
    /\ pc[p] = "write"
    /\ pc' = [pc EXCEPT ![p] = "abort"]
    /\ UNCHANGED <<dirs, file, whole, id, del, get>>

(* A bug to tell apart: an abort that closes the file and leaves it there  *)
AbortLeaves(p) ==
    /\ pc[p] = "abort"
    /\ pc' = [pc EXCEPT ![p] = "error"]
    /\ UNCHANGED <<dirs, file, whole, id, del, get>>

(* f.Abort(): Unlinkat(f.file.Name()), whatever file bears the name now    *)
Abort(p) ==
    /\ pc[p] = "abort"
    /\ file' = [file EXCEPT ![id[p]] = None]
    /\ pc' = [pc EXCEPT ![p] = "error"]
    /\ UNCHANGED <<dirs, whole, id, del, get>>

(* f.Commit(): nothing is synced; 201 and the Location                     *)
Commit(p) ==
    /\ pc[p] = "commit"
    /\ pc' = [pc EXCEPT ![p] = "created"]
    /\ UNCHANGED <<dirs, file, whole, id, del, get>>

-----------------------------------------------------------------------------
(* DELETE /v1/blob/{BLOB-ID}                                               *)

(* A client that was given a Location asks for its removal, and may ask    *)
(* again when the reply is lost                                            *)
DeleteSend(p) ==
    /\ pc[p] = "created"
    /\ del[p] \in IF Resend THEN {"none", "gone", "notfound"} ELSE {"none"}
    /\ del' = [del EXCEPT ![p] = "sent"]
    /\ UNCHANGED <<dirs, file, whole, pc, id, get>>

(* A bug to tell apart: the id is transformed a second time, and nothing   *)
(* bears the name that comes out                                           *)
DeleteElsewhere(p, sp) ==
    /\ del[p] = "sent"
    /\ del' = [del EXCEPT ![p] = "notfound"]
    /\ UNCHANGED <<dirs, file, whole, pc, id, get>>

(* handleBlobDel: Unlinkat(blobid), the id as it is written in the URL     *)
DeleteRun(p, sp) ==
    /\ del[p] = "sent"
    /\ IF sp = "path" /\ file[id[p]] # None
       THEN /\ file' = [file EXCEPT ![id[p]] = None]
            /\ del' = [del EXCEPT ![p] = "gone"]
       ELSE /\ del' = [del EXCEPT ![p] = "notfound"]
            /\ UNCHANGED file
    /\ UNCHANGED <<dirs, whole, pc, id, get>>

-----------------------------------------------------------------------------
(* GET /v1/blob/{BLOB-ID}, with the Location of the PUT p                  *)

(* repo.Open: both spellings lead to the same file; a 404 changes nothing  *)
GetOpen(g, p) ==
    /\ get[g] = NoGet
    /\ pc[p] = "created"
    /\ file[id[p]] # None
    /\ get' = [get EXCEPT ![g] = [want |-> p, fd |-> file[id[p]]]]
    /\ UNCHANGED <<dirs, file, whole, pc, id, del>>

(* Fstat, then st.Size bytes are streamed                                  *)
GetReply(g) ==
    /\ get[g] # NoGet
    /\ get' = [get EXCEPT ![g] = NoGet]
    /\ UNCHANGED <<dirs, file, whole, pc, id, del>>

-----------------------------------------------------------------------------
(* The process stops and is started again: MakePostNamed only opens the    *)
(* base directory.                                                         *)
Crash ==
    /\ pc' = [p \in Puts |-> IF pc[p] \in Running THEN "lost" ELSE pc[p]]
    /\ get' = [g \in Gets |-> NoGet]
    /\ UNCHANGED <<dirs, file, whole, id, del>>

PutStep(p) ==
    \/ PutBadId(p)
    \/ \E i \in Ids : NextId(p, i)
    \/ Create(p) \/ CreateConflict(p) \/ CreateNoDir(p) \/ Mkdir(p)
    \/ Copy(p) \/ CopyFails(p) \/ Abort(p) \/ Commit(p)

DeleteStep(p) ==
    DeleteSend(p) \/ \E sp \in Spellings : DeleteRun(p, sp)

Next ==
    \/ \E p \in Puts : PutStep(p) \/ DeleteStep(p)
    \/ \E g \in Gets : GetReply(g) \/ \E p \in Puts : GetOpen(g, p)
    \/ Crash

Spec == Init /\ [][Next]_vars

-----------------------------------------------------------------------------
(* Properties.                                                             *)

TypeOK ==
    /\ dirs \subseteq Dirs
    /\ file \in [Ids -> Puts \cup {None}]
    /\ whole \subseteq Puts
    /\ pc \in [Puts -> {"new", "lost"} \cup Running \cup Replied]
    /\ id \in [Puts -> Ids]
    /\ del \in [Puts -> {"none", "sent", "gone", "notfound"}]
    /\ get \in [Gets -> [want : Puts \cup {None}, fd : Puts \cup {None}]]

(* A blob whose PUT was acknowledged, and whose removal was not asked for, *)
(* is there, complete, under the identifier the client was given: whatever *)
(* the other PUTs that drew the same identifier, the aborts by name, the   *)
(* DELETEs of other blobs and the crashes of the process.                  *)
AckedIsStored ==
    \A p \in Puts : pc[p] = "created" /\ del[p] = "none" =>
        file[id[p]] = p /\ p \in whole

(* Two PUTs in progress never write into, nor abort, the same file.        *)
WriterOwnsItsName ==
    \A p \in Puts : pc[p] \in {"write", "abort", "commit"} => file[id[p]] = p

(* A PUT that failed leaves no file behind; only a crash does.             *)
FailureLeavesNothing ==
    \A i \in Ids : file[i] # None =>
        pc[file[i]] \in {"write", "abort", "commit", "created", "lost"}

(* The file system refuses a PUT (EEXIST, ENOENT) only because a blob      *)
(* bears the name it drew: the handlers that make the same directory at    *)
(* the same time all succeed.                                              *)
RefusedOnlyByABlob ==
    [][\A p \in Puts : pc[p] \in Running /\ pc'[p] \in {"conflict", "notfound"} =>
           file[id[p]] # None]_vars

(* A GET is never served a part of the blob it wants, nor another blob     *)
(* while the blob it wants is still there, or is removed under its feet.   *)
ReadsWholeBlobs ==
    \A g \in Gets : get[g] # NoGet =>
        /\ get[g].fd = get[g].want => get[g].fd \in whole
        /\ get[g].fd # get[g].want => del[get[g].want] # "none"

(* "Remove a BLOB from the storage of the service": a blob whose DELETE    *)
(* was answered cannot be fetched any more.                                *)
DeletedIsGone ==
    \A p \in Puts : del[p] \in {"gone", "notfound"} => file[id[p]] # p

-----------------------------------------------------------------------------
(* The store as a map: a blob is in it once it is whole.                   *)
Visible == [i \in Ids |-> IF file[i] \in whole THEN file[i] ELSE None]

Status ==
    [p \in Puts |->
        IF pc[p] \in {"created", "lost"} THEN pc[p]
        ELSE IF pc[p] \in Replied THEN "failed" ELSE "running"]

Map == INSTANCE BlobMap WITH
    Names <- Ids, Puts <- Puts, None <- None, blobs <- Visible, status <- Status

(* The files, the aborts by name, the races to a name and the crashes make *)
(* up a map whose blobs are never replaced, nor removed but by the client  *)
(* they were acknowledged to (as long as no DELETE is sent again).         *)
ImplementsBlobMap == Map!Spec
=============================================================================
