---------------------------- MODULE Serve_proofs ----------------------------
(***************************************************************************)
(* Proofs about Serve: it implements Engine, a request that shares its     *)
(* file name with no other works on its own upload, and listings skip no   *)
(* record that stays.                                                      *)
(***************************************************************************)
EXTENDS Serve, Engine_proofs

\* Which requests have a file open, and what "alone" means for the others.
OpenInv ==
    /\ \A f \in FileName : by[f] \subseteq Sharing(f)
    /\ \A w \in alone : hpc[w] \in UploadPC /\ Sharing(name[w]) = {w}

\* The file of a request that is alone: it has been there since its os.Create, and
\* from the last write on it holds the upload.
FileInv ==
    \A w \in alone : hpc[w] \in {"copy", "rest", "store", "storing", "parse"} =>
        /\ name[w] \in dir
        /\ by[name[w]] = {w}
        /\ hpc[w] \in {"store", "storing", "parse"} => text[name[w]] = {sent[w]}

\* A handler stores and passes on what it has parsed.
ManInv == \A w \in Worker : hpc[w] = "storing" => man[w] # None

SInv == TypeOK /\ ControlInv /\ ServeTypeOK /\ OpenInv /\ FileInv /\ ManInv /\ OwnUpload

\* What the records of a listing are while it reads them.
ListInv ==
    \A w \in Worker :
        /\ keys[w] = None => lasting[w] = {}
        /\ keys[w] # None /\ misses = 0 => lasting[w] \subseteq got[w] \cup keys[w]

LEMMA UploadsAreManifests == Uploads \subseteq Manifest
  BY ManifestAssumption

-----------------------------------------------------------------------------
(* Every step of the server is one of the engine, or none. *)

LEMMA ServeStepIsEngineStep ==
    ASSUME ServeTypeOK, ManInv, [ServeNext]_allVars
    PROVE  [Next]_vars
  <1>1. CASE UNCHANGED allVars
    BY <1>1 DEF allVars
  <1>2. ASSUME NEW w \in Worker, HandlerRequest(w) PROVE UNCHANGED vars
    BY <1>2 DEF HandlerRequest, Receive, ReceiveStatus
  <1>3. ASSUME NEW w \in Worker, ListingStep(w) PROVE UNCHANGED vars
    BY <1>3 DEF ListingStep, ListKeys, ReadRecord, EndListing
  <1>4. ASSUME NEW w \in Worker, UploadStep(w) PROVE [Next]_vars
    <2>1. CASE StoreUpload(w)
      <3>1. man[w] \in Manifest
        BY <2>1, UploadsAreManifests DEF StoreUpload, ServeTypeOK, Content, ManInv
      <3> QED
        BY <2>1, <3>1 DEF StoreUpload, Next, Request
    <2>2. CASE CallEngine(w)
      <3>1. man[w] \in Manifest
        BY <2>2, UploadsAreManifests DEF CallEngine, ServeTypeOK, Content
      <3> QED
        BY <2>2, <3>1 DEF CallEngine, Next, Request
    <2>3. CASE Returned(w)
      BY <2>3 DEF Returned, Next, Request
    <2>4. CASE \/ CopyPart(w) \/ Copy(w) \/ ParseToStore(w) \/ ParseToCall(w) \/ Panic(w)
               \/ RemoveFile(w)
      BY <2>4 DEF CopyPart, Copy, ParseToStore, ParseToCall, Parse, Panic, RemoveFile
    <2> QED
      BY <1>4, <2>1, <2>2, <2>3, <2>4 DEF UploadStep
  <1>5. ASSUME NEW w \in Worker, EngineStep(w) PROVE Next
    BY <1>5 DEF Next
  <1>6. ASSUME NEW s \in Slot, ContainerExit(s) PROVE Next
    BY <1>6 DEF Next, Outside
  <1> QED
    BY <1>1, <1>2, <1>3, <1>4, <1>5, <1>6 DEF ServeNext, ServeStep

-----------------------------------------------------------------------------
(* The invariant of the uploads. *)

OwnState == ServeTypeOK /\ OpenInv /\ FileInv /\ ManInv /\ OwnUpload

\* A request that arrives empties its file and ends the solitude of those that
\* have it open.
LEMMA ReceiveOwn ==
    ASSUME OwnState, NEW w \in Worker, NEW o \in {"apply", "delete"}, NEW f \in FileName,
           NEW m \in Content, Receive(w, o, f, m)
    PROVE  OwnState'
  <1>a. ServeTypeOK /\ OpenInv /\ FileInv /\ ManInv /\ OwnUpload
    BY DEF OwnState
  <1> USE DEF UploadPC, Kind, HGoto, Receive, Sharing
  <1>1. ServeTypeOK'
    BY <1>a DEF ServeTypeOK, Content, listing
  <1>2. OpenInv'
    BY <1>a DEF ServeTypeOK, OpenInv
  <1>3. FileInv'
    BY <1>a DEF ServeTypeOK, OpenInv, FileInv
  <1>4. ManInv' /\ OwnUpload'
    BY <1>a DEF ServeTypeOK, ManInv, OwnUpload
  <1> QED
    BY <1>1, <1>2, <1>3, <1>4 DEF OwnState

\* The writes of a request touch no file of another that is alone.
LEMMA CopyOwn ==
    ASSUME OwnState, NEW w \in Worker, CopyPart(w) \/ Copy(w)
    PROVE  OwnState'
  <1>a. ServeTypeOK /\ OpenInv /\ FileInv /\ ManInv /\ OwnUpload
    BY DEF OwnState
  <1> USE DEF UploadPC, Kind, HGoto, Sharing
  <1>1. /\ UNCHANGED <<dir, by, request, man, listing>>
        /\ hpc[w] \in {"copy", "rest"}
        /\ \E p \in {"rest", "remove", "store", "parse"} : hpc' = [hpc EXCEPT ![w] = p]
        /\ \/ text' = text
           \/ \E c \in SUBSET Content : text' = [text EXCEPT ![name[w]] = c]
    BY <1>a DEF CopyPart, Copy, Write, ServeTypeOK, Content
  <1>2. name[w] \in FileName
    BY <1>a, <1>1 DEF ServeTypeOK
  <1>3. ServeTypeOK'
    BY <1>a, <1>1, <1>2 DEF ServeTypeOK, request, listing
  <1>4. \A f \in FileName : Sharing(f)' = Sharing(f)
    BY <1>a, <1>1 DEF ServeTypeOK, request
  <1>5. OpenInv'
    BY <1>a, <1>1, <1>4 DEF ServeTypeOK, OpenInv, request
  <1>6. ASSUME w \in alone, hpc'[w] \in {"store", "storing", "parse"}
        PROVE  text'[name[w]] = {sent[w]}
    BY <1>a, <1>1, <1>2, <1>6 DEF CopyPart, Copy, Write, ServeTypeOK, FileInv
  <1>7. ASSUME NEW v \in alone, v # w PROVE text'[name[v]] = text[name[v]]
    BY <1>a, <1>1, <1>2, <1>7 DEF ServeTypeOK, OpenInv
  <1>8. FileInv'
    BY <1>a, <1>1, <1>6, <1>7 DEF ServeTypeOK, FileInv, request
  <1>9. ManInv' /\ OwnUpload'
    BY <1>a, <1>1 DEF ServeTypeOK, ManInv, OwnUpload, request
  <1> QED
    BY <1>3, <1>5, <1>8, <1>9 DEF OwnState

\* What a request parses when it is alone is its upload.
LEMMA ParseOwn ==
    ASSUME OwnState, NEW w \in Worker, ParseToStore(w) \/ ParseToCall(w)
    PROVE  OwnState'
  <1>a. ServeTypeOK /\ OpenInv /\ FileInv /\ ManInv /\ OwnUpload
    BY DEF OwnState
  <1> USE DEF UploadPC, Kind, HGoto, Sharing
  <1>1. PICK m \in IF name[w] \in dir THEN text[name[w]] ELSE {None} :
           man' = [man EXCEPT ![w] = m]
    BY DEF ParseToStore, ParseToCall, Parse
  <1>2. /\ UNCHANGED <<files, request, listing>>
        /\ hpc[w] \in {"store", "parse"}
        /\ name[w] \in FileName
    BY <1>a DEF ParseToStore, ParseToCall, Parse, ServeTypeOK
  <1>3. m \in Content
    BY <1>a, <1>1, <1>2 DEF ServeTypeOK, Content
  <1>4. /\ man'[w] = m
        /\ \/ hpc' = [hpc EXCEPT ![w] = "remove"]
           \/ hpc' = [hpc EXCEPT ![w] = "storing"] /\ m # None /\ hpc[w] = "store"
           \/ hpc' = [hpc EXCEPT ![w] = "call"] /\ hpc[w] = "parse"
    BY <1>a, <1>1 DEF ParseToStore, ParseToCall, ServeTypeOK
  <1>5. ServeTypeOK'
    BY <1>a, <1>1, <1>2, <1>3, <1>4 DEF ServeTypeOK, files, request, listing
  <1>6. \A f \in FileName : Sharing(f)' = Sharing(f)
    BY <1>a, <1>2, <1>4 DEF ServeTypeOK, request
  <1>7. OpenInv'
    BY <1>a, <1>2, <1>4, <1>6 DEF ServeTypeOK, OpenInv, files, request
  <1>8. FileInv'
    BY <1>a, <1>2, <1>4 DEF ServeTypeOK, FileInv, files, request
  <1>9. w \in alone => m = sent[w]
    BY <1>a, <1>1, <1>2 DEF FileInv
  <1>10. ManInv' /\ OwnUpload'
    BY <1>a, <1>1, <1>2, <1>4, <1>9 DEF ServeTypeOK, ManInv, OwnUpload, request
  <1> QED
    BY <1>5, <1>7, <1>8, <1>10 DEF OwnState

\* The other steps of a handler leave the files alone until the last one, which
\* removes its own.
LEMMA HandlerOwnState ==
    ASSUME TypeOK, OwnState, NEW w \in Worker,
           \/ StoreUpload(w) \/ CallEngine(w) \/ Panic(w) \/ Returned(w) \/ RemoveFile(w)
           \/ ReceiveStatus(w) \/ ListingStep(w)
    PROVE  OwnState'
  <1>a. ServeTypeOK /\ OpenInv /\ FileInv /\ ManInv /\ OwnUpload
    BY DEF OwnState
  <1> USE DEF UploadPC, Kind, HGoto, Sharing
  <1>1. CASE StoreUpload(w) \/ CallEngine(w) \/ Panic(w) \/ Returned(w)
    <2>1. /\ UNCHANGED <<uploads, listing>>
          /\ \/ hpc' = [hpc EXCEPT ![w] = "parse"] /\ hpc[w] = "storing"
             \/ hpc' = [hpc EXCEPT ![w] = "calling"] /\ hpc[w] = "call"
             \/ hpc' = [hpc EXCEPT ![w] = "remove"] /\ hpc[w] \in {"storing", "call", "calling"}
      BY <1>1 DEF StoreUpload, CallEngine, Panic, Returned
    <2>2. ServeTypeOK'
      BY <1>a, <2>1 DEF ServeTypeOK, uploads, files, request, listing
    <2>3. \A f \in FileName : Sharing(f)' = Sharing(f)
      BY <1>a, <2>1 DEF ServeTypeOK, uploads, request
    <2>4. OpenInv' /\ FileInv' /\ ManInv' /\ OwnUpload'
      BY <1>a, <2>1, <2>3 DEF ServeTypeOK, OpenInv, FileInv, ManInv, OwnUpload, uploads,
                              files, request
    <2> QED
      BY <2>2, <2>4 DEF OwnState
  <1>2. CASE RemoveFile(w)
    <2>1. name[w] \in FileName /\ hpc[w] = "remove"
      BY <1>2, <1>a DEF RemoveFile, ServeTypeOK
    <2>2. ServeTypeOK'
      BY <1>2, <1>a, <2>1 DEF RemoveFile, ServeTypeOK, Content, listing
    <2>3. \A f \in FileName : Sharing(f)' = Sharing(f) \ {w}
      BY <1>2, <1>a DEF RemoveFile, ServeTypeOK
    <2>4. \A v \in alone \ {w} : v \in Worker /\ name[v] # name[w] /\ name'[v] = name[v]
                                 /\ name[v] \in FileName
      BY <1>2, <1>a, <2>1 DEF RemoveFile, ServeTypeOK, OpenInv
    <2>5. OpenInv'
      BY <1>2, <1>a, <2>1, <2>3, <2>4 DEF RemoveFile, ServeTypeOK, OpenInv
    <2>6. FileInv' /\ ManInv' /\ OwnUpload'
      BY <1>2, <1>a, <2>1, <2>4 DEF RemoveFile, ServeTypeOK, FileInv, ManInv, OwnUpload
    <2> QED
      BY <2>2, <2>5, <2>6 DEF OwnState
  <1>3. CASE ReceiveStatus(w) \/ ListingStep(w)
    <2>1. ASSUME NEW K \in SUBSET Key, keys' = keys \/ keys' = [keys EXCEPT ![w] = K]
                                       \/ keys' = [keys EXCEPT ![w] = None],
                 NEW G \in SUBSET Key, got' = got \/ got' = [got EXCEPT ![w] = G],
                 misses' = misses \/ misses' = misses + 1,
                 UNCHANGED uploads, hpc[w] \notin UploadPC,
                 \E p \in {"none"} \cup Kind : hpc' = [hpc EXCEPT ![w] = p],
                 keys'[w] # None => hpc'[w] \in Kind
          PROVE  OwnState'
      <3>a. /\ hpc' \in [Worker -> {"none"} \cup UploadPC \cup Kind]
            /\ hpc'[w] \notin UploadPC
            /\ \A v \in Worker \ {w} : hpc'[v] = hpc[v] /\ keys'[v] = keys[v]
        BY <1>a, <2>1 DEF ServeTypeOK
      <3>1. ServeTypeOK'
        BY <1>a, <2>1, <3>a DEF ServeTypeOK, uploads, files, request
      <3>2. \A f \in FileName : Sharing(f)' = Sharing(f)
        BY <2>1, <3>a DEF uploads, request
      <3>3. OpenInv' /\ FileInv' /\ ManInv' /\ OwnUpload'
        BY <1>a, <2>1, <3>a, <3>2 DEF ServeTypeOK, OpenInv, FileInv, ManInv, OwnUpload, uploads,
                                files, request
      <3> QED
        BY <3>1, <3>3 DEF OwnState
    <2>2. Recorded(hpc[w]) \in SUBSET Key
      BY DEF Recorded, Key, TypeOK
    <2>a. hpc = [hpc EXCEPT ![w] = hpc[w]]
      BY <1>a DEF ServeTypeOK
    <2>3. CASE ReceiveStatus(w)
      BY <1>a, <2>1, <2>3 DEF ReceiveStatus, ServeTypeOK, listing
    <2>4. CASE ListKeys(w)
      <3>1. \E p \in {"none"} \cup Kind :
               hpc' = [hpc EXCEPT ![w] = p] /\ (keys' = keys \/ p \in Kind)
        BY <2>a, <2>4 DEF ListKeys
      <3> QED
        BY <1>a, <2>1, <2>2, <2>4, <3>1 DEF ListKeys, Miss, ServeTypeOK
    <2>5. ASSUME NEW k \in keys[w], keys[w] # None, ReadRecord(w, k) PROVE OwnState'
      <3>1. keys[w] \ {k} \in SUBSET Key /\ hpc[w] \in Kind
        BY <1>a, <2>5 DEF ServeTypeOK
      <3>2. got[w] \cup ({k} \cap Recorded(hpc[w])) \in SUBSET Key
        BY <1>a, <2>2 DEF ServeTypeOK
      <3> QED
        BY <1>a, <2>1, <2>5, <2>a, <3>1, <3>2 DEF ReadRecord, Miss, ServeTypeOK
    <2>6. CASE EndListing(w)
      BY <1>a, <2>1, <2>6 DEF EndListing, ServeTypeOK
    <2> QED
      BY <1>3, <2>3, <2>4, <2>5, <2>6 DEF ListingStep
  <1> QED
    BY <1>1, <1>2, <1>3

\* Every step of the server keeps the invariant.
LEMMA ServeNextInv == SInv /\ [ServeNext]_allVars => SInv'
  <1> SUFFICES ASSUME SInv, [ServeNext]_allVars PROVE SInv'
    OBVIOUS
  <1>1. TypeOK' /\ ControlInv'
    BY ServeStepIsEngineStep, NextControl DEF SInv
  <1>2. TypeOK /\ OwnState
    BY DEF SInv, OwnState
  <1>3. ASSUME UNCHANGED <<hpc, uploads, listing>> PROVE OwnState'
    BY <1>2, <1>3 DEF OwnState, ServeTypeOK, OpenInv, FileInv, ManInv, OwnUpload, Sharing,
                      uploads, files, request, listing
  <1>4. ASSUME NEW w \in Worker, HandlerRequest(w) PROVE OwnState'
    BY <1>2, <1>4, ReceiveOwn, HandlerOwnState DEF HandlerRequest
  <1>5. ASSUME NEW w \in Worker, UploadStep(w) \/ ListingStep(w) PROVE OwnState'
    BY <1>2, <1>5, CopyOwn, ParseOwn, HandlerOwnState DEF UploadStep
  <1>6. OwnState'
    BY <1>3, <1>4, <1>5 DEF ServeNext, ServeStep, Unserved, allVars, serveVars
  <1> QED
    BY <1>1, <1>6 DEF SInv, OwnState

\* The invariant holds at the start.
LEMMA InitSInv == ServeInit => SInv
  <1>1. ServeInit => TypeOK /\ ControlInv
    BY InitControl DEF ServeInit
  <1>2. ServeInit => ServeTypeOK /\ OpenInv /\ FileInv /\ ManInv /\ OwnUpload
    BY DEF ServeInit, ServeTypeOK, OpenInv, FileInv, ManInv, OwnUpload, Content, UploadPC
  <1> QED
    BY <1>1, <1>2 DEF SInv

\* Type correctness of the server.
THEOREM ServeTypeCorrect == ServeSpec => []ServeTypeOK
  <1>1. SInv => ServeTypeOK
    BY DEF SInv
  <1> QED
    BY <1>1, InitSInv, ServeNextInv, PTL DEF ServeSpec

\* The server implements the engine, whatever its requests do to each other's files.
THEOREM ServeImplementsEngine == ServeSpec => Spec
  <1>1. ServeInit => Init
    BY DEF ServeInit
  <1>2. SInv /\ [ServeNext]_allVars => [Next]_vars
    BY ServeStepIsEngineStep DEF SInv
  <1> QED
    BY <1>1, <1>2, InitSInv, ServeNextInv, PTL DEF ServeSpec, Spec

\* A request whose file name no other request under way has stores and applies
\* its own upload, for any number of requests and files.
THEOREM UploadsAreOwn == ServeSpec => []OwnUpload
  <1>1. SInv => OwnUpload
    BY DEF SInv
  <1> QED
    BY <1>1, InitSInv, ServeNextInv, PTL DEF ServeSpec

-----------------------------------------------------------------------------
(* Listings. *)

\* A listing loses a key only by reading its record, or when it is gone.
LEMMA ListNext ==
    ASSUME ServeTypeOK, ListInv, [ServeNext]_allVars
    PROVE  ListInv'
  <1>1. CASE UNCHANGED allVars
    BY <1>1 DEF allVars, serveVars, listing, ListInv
  <1>2. CASE ServeNext
    <2> SUFFICES ASSUME NEW w \in Worker
                 PROVE  /\ keys'[w] = None => lasting'[w] = {}
                        /\ keys'[w] # None /\ misses' = 0 =>
                              lasting'[w] \subseteq got'[w] \cup keys'[w]
      BY DEF ListInv
    <2>1. lasting'[w] = IF keys'[w] = None THEN {}
                        ELSE IF keys[w] = None THEN keys'[w]
                        ELSE lasting[w] \cap Recorded(hpc[w])'
      BY <1>2 DEF ServeNext, Observe
    <2>2. SUFFICES ASSUME keys'[w] # None, keys[w] # None, misses' = 0
                   PROVE  lasting'[w] \subseteq got'[w] \cup keys'[w]
      BY <2>1
    <2>3. CASE keys'[w] = keys[w] /\ got'[w] = got[w] /\ misses = 0
      BY <2>1, <2>2, <2>3 DEF ListInv
    <2>4. ASSUME NEW k, ReadRecord(w, k) PROVE lasting'[w] \subseteq got'[w] \cup keys'[w]
      <3>1. /\ keys'[w] = keys[w] \ {k}
            /\ got'[w] = got[w] \cup ({k} \cap Recorded(hpc[w]))
            /\ misses = 0
        BY <2>2, <2>4 DEF ReadRecord, Miss, ServeTypeOK
      <3>2. Recorded(hpc[w])' = Recorded(hpc[w])
        BY <2>4 DEF ReadRecord, Recorded, vars
      <3> QED
        BY <2>1, <2>2, <3>1, <3>2 DEF ListInv
    <2>5. CASE UNCHANGED listing
      BY <2>2, <2>3, <2>5 DEF listing
    <2>6. ASSUME NEW v \in Worker, NEW k, ReadRecord(v, k), v # w
          PROVE  lasting'[w] \subseteq got'[w] \cup keys'[w]
      BY <2>2, <2>3, <2>6 DEF ReadRecord, Miss, ServeTypeOK
    <2>7. ASSUME NEW v \in Worker, ListKeys(v) \/ EndListing(v)
          PROVE  lasting'[w] \subseteq got'[w] \cup keys'[w]
      BY <2>2, <2>3, <2>7 DEF ListKeys, EndListing, Miss, ServeTypeOK
    <2> QED
      <3>1. ASSUME NEW v \in Worker, HandlerRequest(v) \/ UploadStep(v) PROVE UNCHANGED listing
        BY <3>1 DEF HandlerRequest, Receive, ReceiveStatus, UploadStep, CopyPart, Copy,
                    ParseToStore, Parse, StoreUpload, ParseToCall, CallEngine, Panic, Returned,
                    RemoveFile
      <3> QED
        BY <1>2, <2>4, <2>5, <2>6, <2>7, <3>1
           DEF ServeNext, ServeStep, ListingStep, Unserved
  <1> QED
    BY <1>1, <1>2

\* Whatever Apply and Delete do meanwhile, a listing whose calls succeed has every
\* record that was there from its KEYS to its end.
THEOREM ListingsAreComplete == ServeSpec => []ListingComplete
  <1>1. ServeInit => ListInv
    BY DEF ServeInit, ListInv
  <1>2. SInv /\ ListInv /\ [ServeNext]_allVars => ListInv'
    BY ListNext DEF SInv
  <1>3. ListInv => ListingComplete
    BY DEF ListInv, ListingComplete
  <1> QED
    BY <1>1, <1>2, <1>3, InitSInv, ServeNextInv, PTL DEF ServeSpec
=============================================================================
