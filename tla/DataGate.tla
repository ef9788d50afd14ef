------------------------------- MODULE DataGate -------------------------------
(***************************************************************************)
(* The blob store and those who put blobs in it: the data gate             *)
(* (internal/cmd-data-gate/handlers.go), the command "put" of the blob     *)
(* client (internal/cmd-blob-client/cmd_put.go), both through the HTTP     *)
(* client of the library (pkg/gunkan/blob_client_direct.go), and any other *)
(* HTTP client.                                                            *)
(*                                                                         *)
(* The gate cuts the path in three tokens, polls a store, and forwards the *)
(* body under the name that they make; the command names the blob after    *)
(* its argument.  The library drops the Location that the store replies:   *)
(* only the other clients can ask for a DELETE or a GET.                   *)
(*                                                                         *)
(* Abstractions.  No name holds a '/' (the mux would redirect "//" and     *)
(* ".."), or an escape of a byte past 127.  The store is the one that was  *)
(* polled.  The call to it breaks at any time (no store listens, the body  *)
(* breaks off, the client, the gate or the store stops, the context ends), *)
(* and the store may go on without knowing: it reads the body to its end   *)
(* or not.  A client does not send its request again.                      *)
(***************************************************************************)
EXTENDS BlobStoreFs, Keys

CONSTANT Requests         \* the requests behind the PUTs, any of these

Origins == {"gate", "stdin", "file", "http"}

ASSUME RequestsAssumption ==
    Requests \subseteq [Puts -> [by : Origins, tokens : Seq(Text) \ {<<>>}]]

VARIABLES req,            \* the request behind each PUT
          link,           \* its call to the store: "none", "open" or "broken"
          told            \* what its client was told

clients == <<req, link, told>>

ServiceVars == <<vars, clients>>

ServiceInit ==
    /\ Init
    /\ req \in Requests
    /\ link = [p \in Puts |-> "none"]
    /\ told = [p \in Puts |-> "none"]

-----------------------------------------------------------------------------
(* The names: r is a request.                                              *)

Meant(r) ==
    IF r.by = "gate"
    THEN [bucket |-> r.tokens[1], content |-> r.tokens[2], part |-> r.tokens[3],
          position |-> Small]
    ELSE DecodeBlobId(r.tokens[1])

(* What PutN and Put write at the end of the URL, unescaped                *)
Written(r) == EncodeBlobId(Meant(r))

(* What the store reads of it: the Path of the URL, past its prefix.  The  *)
(* other clients choose the Path.                                          *)
Sent(r) == IF r.by = "http" THEN r.tokens[1] ELSE UrlPath(Written(r))

(* len(tokens) != 3 in the gate; DecodeBlobId(args[0]) in the command      *)
IsWellNamed(r) ==
    CASE r.by = "gate" -> Len(r.tokens) = 3
      [] r.by \in {"stdin", "file"} -> IsBlobId(r.tokens[1])
      [] r.by = "http" -> TRUE

(* http.NewRequestWithContext makes a request of the name.                 *)
IsSendable(r) == IsWellNamed(r) /\ (r.by = "http" \/ IsUrl(Written(r)))

-----------------------------------------------------------------------------
(* What a client is told when the call gave it no reply of the store: the  *)
(* errors of PollBlobStore and of client.Put are a 503, DialBlob has none. *)
(* "put" with a file drops every error, even that of os.Open: err is       *)
(* another variable inside the if.                                         *)
Failure(r) ==
    CASE r.by = "gate" -> "unavailable"
      [] r.by = "file" -> "ok"
      [] r.by \in {"stdin", "http"} -> "error"

(* A bug to tell apart: any reply of the store is taken for a success.     *)
OutcomeAny(r, status) ==
    CASE r.by = "gate" -> "created"
      [] r.by \in {"stdin", "file"} -> "ok"
      [] r.by = "http" -> status

(* A bug to tell apart: MapCodeToError does not know 201.                  *)
OutcomeNone(r, status) == IF r.by = "http" THEN status ELSE Failure(r)

(* ... and when the store replied: MapCodeToError                          *)
Outcome(r, status) ==
    CASE r.by = "http" -> status
      [] r.by # "http" /\ status = "created" -> IF r.by = "gate" THEN "created" ELSE "ok"
      [] r.by # "http" /\ status # "created" -> Failure(r)

Ask(p) == link[p] = "none" /\ told[p] = "none"

(* A name the gate or the command refuses                                  *)
RefuseName(p) ==
    /\ Ask(p)
    /\ ~ IsWellNamed(req[p])
    /\ told' = [told EXCEPT ![p] = IF req[p].by = "gate" THEN "badrequest" ELSE "error"]
    /\ UNCHANGED <<vars, req, link>>

(* No store, no file, an address that is none, or a name that is no URL    *)
NothingToCall(p) ==
    /\ Ask(p)
    /\ IsWellNamed(req[p]) /\ req[p].by # "http"
    /\ told' = [told EXCEPT ![p] = Failure(req[p])]
    /\ UNCHANGED <<vars, req, link>>

Send(p) ==
    /\ Ask(p)
    /\ IsSendable(req[p])
    /\ link' = [link EXCEPT ![p] = "open"]
    /\ UNCHANGED <<vars, req, told>>

(* The other clients whose call breaks are as those that wait for ever.    *)
BreakLink(p) ==
    /\ link[p] = "open" /\ told[p] = "none"
    /\ req[p].by # "http"
    /\ link' = [link EXCEPT ![p] = "broken"]
    /\ told' = [told EXCEPT ![p] = Failure(req[p])]
    /\ UNCHANGED <<vars, req>>

Answer(p) ==
    /\ link[p] = "open" /\ told[p] = "none"
    /\ pc[p] \in Replied
    /\ told' = [told EXCEPT ![p] = Outcome(req[p], pc[p])]
    /\ UNCHANGED <<vars, req, link>>

-----------------------------------------------------------------------------
(* The store: a request it was sent, under a name it can decode or not     *)
StorePut(p) ==
    /\ link[p] # "none"
    /\ IF pc[p] = "new" /\ ~ IsBlobId(Sent(req[p])) THEN PutBadId(p)
       ELSE PutStep(p) /\ pc'[p] # "badrequest"
    /\ UNCHANGED clients

(* Only who was told the Location can use it.                              *)
Knows(p) == req[p].by = "http" /\ told[p] = "created"

Remove(p) ==
    /\ Knows(p)
    /\ DeleteStep(p)
    /\ UNCHANGED clients

Fetch(g, p) ==
    /\ Knows(p)
    /\ GetOpen(g, p)
    /\ UNCHANGED clients

ServiceNext ==
    \/ \E p \in Puts :
        \/ RefuseName(p) \/ NothingToCall(p) \/ Send(p) \/ BreakLink(p) \/ Answer(p)
        \/ StorePut(p) \/ Remove(p)
        \/ \E g \in Gets : Fetch(g, p)
    \/ \E g \in Gets : GetReply(g) /\ UNCHANGED clients
    \/ Crash /\ UNCHANGED clients

ServiceSpec == ServiceInit /\ [][ServiceNext]_ServiceVars

-----------------------------------------------------------------------------
(* Properties.                                                             *)

Told == {"none", "unavailable", "ok"} \cup Replied

(* A part that the gate, or "put" from the standard input, reported as     *)
(* stored is there, whole, and stays for ever: nobody was given the        *)
(* identifier that would remove it.                                        *)
ReportedIsThereForGood ==
    \A p \in Puts :
        \/ req[p].by = "gate" /\ told[p] = "created"
        \/ req[p].by = "stdin" /\ told[p] = "ok"
        => file[id[p]] = p /\ p \in whole /\ del[p] = "none"

(* A client that is told of a failure by an unbroken call left no blob     *)
(* behind it: those nobody knows of come from a call that broke.           *)
OrphansComeOfBreaks ==
    \A i \in Ids : file[i] # None /\ link[file[i]] = "open" =>
        told[file[i]] \in {"none", "created", "ok"}

(* The store takes no name for another, as long as the URL carries it      *)
(* unchanged: what it accepts, and decodes, is what the tokens of the gate *)
(* or the argument of the command said, commas or not.                     *)
NameIsRead ==
    \A p \in Puts :
        /\ pc[p] \notin {"new", "badrequest"}
        /\ req[p].by # "http" /\ Plain(Written(req[p]))
        => DecodeBlobId(Sent(req[p])) = Meant(req[p])
=============================================================================
