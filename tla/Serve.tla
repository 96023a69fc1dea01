------------------------------- MODULE Serve -------------------------------
(***************************************************************************)
(* "klite serve": the web server's handlers around one engine, without a   *)
(* reconciler.  Daemon takes an upload for the manifest in it and looks at *)
(* the reconciler; here is the file that handleApply and handleDelete put  *)
(* an upload into, under the name the client gave it, and the listings     *)
(* that handleStatus and handleNodes read from Redis record by record.     *)
(***************************************************************************)
EXTENDS Engine

CONSTANTS
    FileName,   \* names that clients give their files
    MaxMisses   \* bound on misses

VARIABLES
    dir,      \* os.TempDir: the names of its files
    text,     \* name -> what ParseFile may make of the file's text: {m} for
              \* manifest m, {None} if there is none in it, more if unknown
    by,       \* name -> the requests that have this file open
    hpc,      \* worker -> where its HTTP handler is
    op,       \* worker -> "apply" or "delete"
    name,     \* worker -> header.Filename
    sent,     \* worker -> the manifest in the upload, or None
    man,      \* worker -> the manifest it has parsed
    keys,     \* worker -> keys that a listing has not read yet; None before KEYS
    got,      \* worker -> keys whose records are in the listing
    misses,   \* calls of the listings that failed so far
    alone,    \* history: no other request had a file of this name
    lasting   \* history: worker -> keys recorded ever since KEYS

files == <<dir, text, by>>
request == <<op, name, sent, alone>>
uploads == <<files, request, man>>
listing == <<keys, got, misses>>
serveVars == <<uploads, hpc, listing, lasting>>
allVars == <<vars, serveVars>>

Content == Uploads \cup {None}
UploadPC == {"copy", "rest", "store", "storing", "parse", "call", "calling", "remove"}
Kind == {"containers", "networks", "services"}
Key == Slot \cup Node \cup Service

ServeTypeOK ==
    /\ dir \in SUBSET FileName
    /\ text \in [FileName -> SUBSET Content]
    /\ by \in [FileName -> SUBSET Worker]
    /\ hpc \in [Worker -> {"none"} \cup UploadPC \cup Kind]
    /\ op \in [Worker -> {"apply", "delete"}]
    /\ name \in [Worker -> FileName \cup {None}]
    /\ sent \in [Worker -> Content]
    /\ man \in [Worker -> Content]
    /\ keys \in [Worker -> {None} \cup SUBSET Key]
    /\ got \in [Worker -> SUBSET Key]
    /\ misses \in Nat
    /\ alone \in SUBSET Worker
    /\ \A w \in Worker : /\ hpc[w] \in UploadPC => name[w] \in FileName
                         /\ keys[w] # None => hpc[w] \in Kind

\* An earlier server that was killed may have left files.
ServeInit ==
    /\ Init
    /\ dir \in SUBSET FileName
    /\ text = [f \in FileName |-> IF f \in dir THEN Content ELSE {None}]
    /\ by = [f \in FileName |-> {}]
    /\ hpc = [w \in Worker |-> "none"]
    /\ op = [w \in Worker |-> "apply"]
    /\ name = [w \in Worker |-> None]
    /\ sent = [w \in Worker |-> None]
    /\ man = [w \in Worker |-> None]
    /\ keys = [w \in Worker |-> None]
    /\ got = [w \in Worker |-> {}]
    /\ misses = 0
    /\ alone = {}
    /\ lasting = [w \in Worker |-> {}]

HGoto(w, p) == hpc' = [hpc EXCEPT ![w] = p]

-----------------------------------------------------------------------------
(* The upload and its file. *)

Sharing(f) == {v \in Worker : hpc[v] \in UploadPC /\ name[v] = f}

\* FormFile and os.Create, which empties a file that exists.
Receive(w, o, f, m) ==
    /\ hpc[w] = "none" /\ pc[w] = "idle"
    /\ op' = [op EXCEPT ![w] = o]
    /\ name' = [name EXCEPT ![w] = f]
    /\ sent' = [sent EXCEPT ![w] = m]
    /\ dir' = dir \cup {f}
    /\ text' = [text EXCEPT ![f] = {None}]
    /\ by' = [by EXCEPT ![f] = @ \cup {w}]
    /\ alone' = IF Sharing(f) = {} THEN alone \cup {w} ELSE alone \ Sharing(f)
    /\ HGoto(w, "copy")
    /\ UNCHANGED <<vars, man, listing>>

\* A write through w's descriptor.  If another request's os.Remove took the file
\* away, it goes to no file that has a name.
Write(w, contents) ==
    /\ text' = IF w \in by[name[w]] THEN [text EXCEPT ![name[w]] = contents] ELSE text
    /\ UNCHANGED <<dir, by>>

\* Mutant of CopyPart: the handler does not look at the error of io.Copy.
CopyPartUnchecked(w) ==
    /\ hpc[w] = "copy"
    /\ Write(w, Content)
    /\ HGoto(w, "rest") \/ HGoto(w, IF op[w] = "apply" THEN "store" ELSE "parse")
    /\ UNCHANGED <<vars, request, man, listing>>

\* The first write of several, after which io.Copy may fail.
CopyPart(w) ==
    /\ hpc[w] = "copy"
    /\ Write(w, Content)
    /\ HGoto(w, "rest") \/ HGoto(w, "remove")
    /\ UNCHANGED <<vars, request, man, listing>>

\* The last write of io.Copy.  In a file that others have open too it may lie over
\* or under theirs.
Copy(w) ==
    /\ hpc[w] \in {"copy", "rest"}
    /\ \/ Write(w, {sent[w]})
       \/ by[name[w]] # {w} /\ Write(w, Content)
    /\ HGoto(w, IF op[w] = "apply" THEN "store" ELSE "parse")
    /\ UNCHANGED <<vars, request, man, listing>>

\* config.ParseFile of the upload's file; None is an error.
Parse(w) ==
    /\ \E m \in IF name[w] \in dir THEN text[name[w]] ELSE {None} :
          man' = [man EXCEPT ![w] = m]
    /\ UNCHANGED <<vars, files, request, listing>>

\* SaveManifestFromFile parses the file ...
ParseToStore(w) ==
    /\ hpc[w] = "store"
    /\ Parse(w)
    /\ HGoto(w, IF man'[w] = None THEN "remove" ELSE "storing")

\* ... and stores the manifest.
StoreUpload(w) ==
    /\ hpc[w] = "storing"
    /\ \E r \in Reply :
          /\ SaveManifestFromFile(w, man[w], r)
          /\ HGoto(w, IF r = "ok" THEN "parse" ELSE "remove")
    /\ UNCHANGED <<uploads, listing>>

\* The handlers parse the file again, report an error and go on.
ParseToCall(w) ==
    /\ hpc[w] = "parse"
    /\ Parse(w)
    /\ HGoto(w, "call")

CallEngine(w) ==
    /\ hpc[w] = "call" /\ man[w] # None
    /\ IF op[w] = "apply" THEN CallApply(w, man[w]) ELSE CallDelete(w, man[w])
    /\ HGoto(w, "calling")
    /\ UNCHANGED <<uploads, listing>>

\* Apply or Delete of the nil manifest panics once it has e.mu, and unlocks it.
Panic(w) ==
    /\ hpc[w] = "call" /\ man[w] = None
    /\ mu = None
    /\ HGoto(w, "remove")
    /\ UNCHANGED <<vars, uploads, listing>>

Returned(w) ==
    /\ hpc[w] = "calling"
    /\ Done(w)
    /\ HGoto(w, "remove")
    /\ UNCHANGED <<uploads, listing>>

\* The deferred os.Remove, on every way out.
RemoveFile(w) ==
    /\ hpc[w] = "remove"
    /\ dir' = dir \ {name[w]}
    /\ by' = [by EXCEPT ![name[w]] = {}]
    /\ text' = [text EXCEPT ![name[w]] = {None}]
    /\ op' = [op EXCEPT ![w] = "apply"]
    /\ name' = [name EXCEPT ![w] = None]
    /\ sent' = [sent EXCEPT ![w] = None]
    /\ man' = [man EXCEPT ![w] = None]
    /\ alone' = alone \ {w}
    /\ HGoto(w, "none")
    /\ UNCHANGED <<vars, listing>>

-----------------------------------------------------------------------------
(* Listings. *)

\* The keys of a kind of records.
Recorded(kind) ==
    IF kind = "containers" THEN {s \in Slot : rec[s] # None}
    ELSE IF kind = "networks" THEN netRec ELSE svcRec

Miss == misses < MaxMisses /\ misses' = misses + 1

ReceiveStatus(w) ==
    /\ hpc[w] = "none" /\ pc[w] = "idle"
    /\ HGoto(w, "containers")
    /\ UNCHANGED <<vars, uploads, listing>>

\* KEYS; its error ends the request (handleNodes ignores it for the services).
ListKeys(w) ==
    /\ hpc[w] \in Kind /\ keys[w] = None
    /\ \/ /\ keys' = [keys EXCEPT ![w] = Recorded(hpc[w])]
          /\ UNCHANGED <<hpc, misses>>
       \/ Miss /\ HGoto(w, "none") /\ UNCHANGED keys
    /\ UNCHANGED <<vars, uploads, got>>

\* Mutant of ReadRecord: "break" instead of "continue" at a record that is gone.
ReadRecordStops(w, k) ==
    /\ keys[w] # None /\ k \in keys[w]
    /\ keys' = [keys EXCEPT ![w] = IF k \in Recorded(hpc[w]) THEN @ \ {k} ELSE {}]
    /\ \/ /\ got' = [got EXCEPT ![w] = @ \cup ({k} \cap Recorded(hpc[w]))]
          /\ UNCHANGED misses
       \/ Miss /\ UNCHANGED got
    /\ UNCHANGED <<vars, uploads, hpc>>

\* GET; a record that is gone, or cannot be read, is skipped.
ReadRecord(w, k) ==
    /\ keys[w] # None /\ k \in keys[w]
    /\ keys' = [keys EXCEPT ![w] = @ \ {k}]
    /\ \/ /\ got' = [got EXCEPT ![w] = @ \cup ({k} \cap Recorded(hpc[w]))]
          /\ UNCHANGED misses
       \/ Miss /\ UNCHANGED got
    /\ UNCHANGED <<vars, uploads, hpc>>

\* Mutant of EndListing: the next listing of the request keeps the keys of the last.
EndListingKeepsKeys(w) ==
    /\ hpc[w] \in Kind /\ keys[w] = {}
    /\ \/ hpc[w] = "containers" /\ HGoto(w, "networks")
       \/ hpc[w] = "networks" /\ HGoto(w, "services")
       \/ hpc[w] # "containers" /\ HGoto(w, "none")
    /\ got' = [got EXCEPT ![w] = {}]
    /\ UNCHANGED <<vars, uploads, keys, misses>>

\* Engine.Status lists containers and networks; handleNodes lists services too.
EndListing(w) ==
    /\ hpc[w] \in Kind /\ keys[w] = {}
    /\ \/ hpc[w] = "containers" /\ HGoto(w, "networks")
       \/ hpc[w] = "networks" /\ HGoto(w, "services")
       \/ hpc[w] # "containers" /\ HGoto(w, "none")
    /\ keys' = [keys EXCEPT ![w] = None]
    /\ got' = [got EXCEPT ![w] = {}]
    /\ UNCHANGED <<vars, uploads, misses>>

-----------------------------------------------------------------------------

UploadStep(w) ==
    \/ CopyPart(w) \/ Copy(w) \/ ParseToStore(w) \/ StoreUpload(w) \/ ParseToCall(w)
    \/ CallEngine(w) \/ Panic(w) \/ Returned(w) \/ RemoveFile(w)
ListingStep(w) ==
    \/ ListKeys(w) \/ EndListing(w)
    \/ keys[w] # None /\ \E k \in keys[w] : ReadRecord(w, k)

HandlerRequest(w) ==
    \/ \E o \in {"apply", "delete"}, f \in FileName, m \in Content : Receive(w, o, f, m)
    \/ ReceiveStatus(w)

Unserved == UNCHANGED <<hpc, uploads, listing>>

ServeStep ==
    \/ \E w \in Worker : \/ HandlerRequest(w) \/ UploadStep(w) \/ ListingStep(w)
                         \/ EngineStep(w) /\ Unserved
    \/ \E s \in Slot : ContainerExit(s) /\ Unserved

\* What a step means for the listings under way.
Observe ==
    lasting' = [w \in Worker |->
                  IF keys'[w] = None THEN {}
                  ELSE IF keys[w] = None THEN keys'[w]
                  ELSE lasting[w] \cap Recorded(hpc[w])']

ServeNext == ServeStep /\ Observe

ServeSpec == ServeInit /\ [][ServeNext]_allVars

-----------------------------------------------------------------------------
(* Properties. *)

\* server.go:117 and :183: a request stores, applies and deletes the manifest that
\* came with it, and panics only if there was none, as long as no other request
\* under way has a file of that name.  (If one has, it may get the other's
\* manifest, a mixture, or none.)
OwnUpload ==
    \A w \in alone : hpc[w] \in {"storing", "call"} => man[w] = sent[w]

\* redis.go:95, "Containers that fail to decode are skipped": records that an
\* Apply or a Delete takes away during a listing hide none of those that stay.
ListingComplete ==
    \A w \in Worker : keys[w] = {} /\ misses = 0 => lasting[w] \subseteq got[w]
=============================================================================
