--------------------------- MODULE Recovery_proofs ---------------------------
(***************************************************************************)
(* Proofs about Engine, continued: what earlier operations left in Docker  *)
(* and in Redis does not make an Apply fail, Redis mirrors Docker where    *)
(* there was no fault at all, and every operation moves on until it        *)
(* returns.                                                                *)
(***************************************************************************)
EXTENDS Engine_proofs

\* The container in a worker's hand is the one it inspected or created, and where
\* it is about to create one there is none: e.mu keeps the other workers out, the
\* reconciler neither removes nor creates.
InHand(w) ==
    /\ pc[w] \in {"compare", "stop", "remove", "start", "state", "save"} =>
          Exists(slot[w], cid[w])
    /\ pc[w] = "create" => docker[slot[w]] = None

HandInv == \A w \in Worker : InHand(w)

\* The node in hand is cached, and a cached network exists as long as no reply
\* was lost.
CacheInv ==
    /\ \A w \in Worker : pc[w] \in ApplyNodePC => node[w] \in netCache
    /\ faults = 0 => netCache \subseteq net

-----------------------------------------------------------------------------
(* Calls and faults. *)

\* A call that does not succeed costs a fault, unless Docker refuses it or the
\* process is interrupted.
LEMMA CallCost ==
    ASSUME TypeOK, NEW r, Charge(r) \/ DockerCall(r) \/ RedisCall(r)
    PROVE  /\ faults' = 0 => faults = 0
           /\ r \notin {"ok", "refused"} => faults' # faults \/ cancelled
           /\ r = "lost" => faults' # 0
  BY DEF TypeOK, Charge, DockerCall, RedisCall

\* A call that keeps to Redis or the files costs a fault whenever it fails.
LEMMA RedisCost ==
    ASSUME TypeOK, NEW r \in Reply, Charge(r) \/ RedisCall(r)
    PROVE  r # "ok" => faults' # faults
  BY DEF TypeOK, Charge, RedisCall, Reply

\* Faults are not forgiven by an operation.
LEMMA OperationCost ==
    ASSUME TypeOK, NEW w \in Worker, ApplyStep(w) \/ DeleteStep(w)
    PROVE  faults' = 0 => faults = 0
  <1>1. CASE \/ \E n \in Node : EnsureNetwork(w, n)
             \/ \E s \in Slot : Inspect(w, s)
             \/ SaveNetwork(w) \/ WriteFiles(w) \/ Compare(w)
    BY <1>1, CallCost DEF EnsureNetwork, Inspect, SaveNetwork, WriteFiles, Compare
  <1>2. CASE \/ StopContainer(w) \/ RemoveContainer(w) \/ CreateContainer(w)
             \/ StartContainer(w) \/ GetContainerState(w)
    BY <1>2, CallCost DEF StopContainer, RemoveContainer, CreateContainer, StartContainer,
                          GetContainerState
  <1>3. CASE SaveContainer(w) \/ SaveServices(w) \/ CommitApply(w)
    BY <1>3, CallCost DEF SaveContainer, SaveServices, CommitApply
  <1>4. CASE DeleteStep(w)
    BY <1>4, CallCost DEF DeleteStep, DeleteNode, DeleteStop, DeleteRemove, DeleteRecords,
                          RemoveNetwork, DeleteNetworkRecord, CommitDelete
  <1> QED
    BY <1>1, <1>2, <1>3, <1>4 DEF ApplyStep

-----------------------------------------------------------------------------
(* The container in hand. *)

\* Only the worker in the mutex has a container in its hand.
LEMMA HandFrame ==
    ASSUME TypeOK, ControlInv, NEW w \in Worker, mu \in {w, None}, InHand(w)',
           \A v \in Worker \ {w} : pc'[v] = pc[v]
    PROVE  HandInv'
  <1> SUFFICES ASSUME NEW v \in Worker, v # w PROVE InHand(v)'
    BY DEF HandInv
  <1>1. pc[v] \notin HoldsMu /\ pc'[v] = pc[v]
    BY NoneFacts DEF ControlInv, Control
  <1> QED
    BY <1>1, ControlStates DEF InHand

\* Apply moves the container in its hand and no other.
LEMMA ApplyHand ==
    ASSUME TypeOK, ControlInv, HandInv, NEW w \in Worker, ApplyStep(w)
    PROVE  HandInv'
  <1>a. mu = w /\ \A v \in Worker \ {w} : pc'[v] = pc[v]
    BY ApplyControl
  <1>b. Control(w) /\ InHand(w)
    BY DEF ControlInv, HandInv
  <1> SUFFICES InHand(w)'
    BY <1>a, HandFrame
  <1> USE ControlStates
  <1>0. ASSUME NEW s, pc[w] \in ApplyNodePC, EndSlot(w, s, TRUE) \/ EndSlot(w, s, FALSE)
        PROVE  InHand(w)'
    <2>1. pc'[w] \in {"inspect", "node", "services"}
      BY <1>0, EndSlotControl
    <2> QED
      BY <2>1 DEF InHand
  <1>1. ASSUME NEW n \in Node, EnsureNetwork(w, n) PROVE InHand(w)'
    <2>1. pc'[w] \in {"netrec", "node", "services"}
      BY <1>1, SkipNodeControl DEF EnsureNetwork, Goto, TypeOK
    <2> QED
      BY <2>1 DEF InHand
  <1>2. ASSUME SaveNetwork(w) \/ WriteFiles(w) PROVE InHand(w)'
    <2>1. pc'[w] \in {"files", "inspect", "node", "services"}
      BY <1>2, SkipNodeControl DEF SaveNetwork, WriteFiles, Goto, TypeOK
    <2> QED
      BY <2>1 DEF InHand
  <1>3. ASSUME NEW s \in Slot, Inspect(w, s) PROVE InHand(w)'
    <2>1. CASE EndSlot(w, s, TRUE)
      BY <1>0, <1>3, <2>1 DEF Inspect
    <2>2. CASE /\ slot' = [slot EXCEPT ![w] = s]
               /\ IF docker[s] = None
                  THEN Goto(w, "create") /\ UNCHANGED cid
                  ELSE /\ cid' = [cid EXCEPT ![w] = docker[s].id]
                       /\ Goto(w, IF s[2] = NginxProxy \/ ~docker[s].running
                                  THEN "stop" ELSE "compare")
      <3>1. docker' = docker /\ slot'[w] = s
        BY <1>3, <2>2 DEF Inspect, outside, TypeOK
      <3>2. CASE docker[s] = None
        BY <2>2, <3>1, <3>2 DEF InHand, Goto, TypeOK
      <3>3. CASE docker[s] # None
        <4>1. pc'[w] \in {"stop", "compare"} /\ cid'[w] = docker[s].id
          BY <2>2, <3>3 DEF Goto, TypeOK
        <4> QED
          BY <3>1, <3>3, <4>1 DEF InHand, Exists
      <3> QED
        BY <3>2, <3>3
    <2> QED
      BY <1>3, <2>1, <2>2 DEF Inspect
  <1>4. ASSUME Compare(w) PROVE InHand(w)'
    <2>1. CASE EndSlot(w, slot[w], TRUE)
      BY <1>0, <1>4, <2>1 DEF Compare
    <2>2. CASE /\ Goto(w, IF <<SpecFor(job[w], slot[w]), docker[slot[w]].spec>> \in Matches
                          THEN "save" ELSE "stop")
               /\ UNCHANGED <<todo, cid, errs>>
      <3>1. /\ pc[w] = "compare" /\ pc'[w] \in {"save", "stop"}
            /\ UNCHANGED <<docker, slot, cid>>
        BY <1>4, <2>2 DEF Compare, Goto, TypeOK, outside
      <3> QED
        BY <1>b, <3>1 DEF InHand, Exists
    <2> QED
      BY <1>4, <2>1, <2>2 DEF Compare
  <1>5. ASSUME StopContainer(w) PROVE InHand(w)'
    <2>1. /\ pc[w] = "stop" /\ pc'[w] = "remove" /\ slot[w] \in Slot
          /\ UNCHANGED <<slot, cid>>
          /\ docker' \in {docker, Stopped(slot[w])}
      BY <1>5, <1>b DEF StopContainer, Goto, TypeOK, local, Control, OnNode
    <2>2. docker[slot[w]] # None /\ docker[slot[w]].id = cid[w]
      BY <1>b, <2>1 DEF InHand, Exists
    <2>3. docker'[slot[w]] # None /\ docker'[slot[w]].id = cid[w]
      BY <2>1, <2>2, StoppedOK
    <2> QED
      BY <2>1, <2>3 DEF InHand, Exists
  <1>6. ASSUME RemoveContainer(w) PROVE InHand(w)'
    <2>1. CASE EndSlot(w, slot[w], TRUE)
      BY <1>0, <1>6, <2>1 DEF RemoveContainer
    <2>2. CASE /\ docker' = [docker EXCEPT ![slot[w]] = None]
               /\ Goto(w, "create")
      <3>1. slot[w] \in Slot /\ slot' = slot
        BY <1>6, <1>b DEF RemoveContainer, Control, OnNode, TypeOK
      <3> QED
        BY <2>2, <3>1 DEF InHand, Goto, TypeOK
    <2> QED
      BY <1>6, <2>1, <2>2 DEF RemoveContainer
  <1>7. ASSUME CreateContainer(w) PROVE InHand(w)'
    <2>1. CASE EndSlot(w, slot[w], TRUE)
      BY <1>0, <1>7, <2>1 DEF CreateContainer
    <2> DEFINE made == [id |-> NewId(slot[w]), spec |-> SpecFor(job[w], slot[w]),
                        running |-> FALSE, loaded |-> None]
    <2>2. CASE /\ docker' = [docker EXCEPT ![slot[w]] = made]
               /\ cid' = [cid EXCEPT ![w] = NewId(slot[w])]
               /\ Goto(w, "start")
      <3>1. /\ slot[w] \in Slot /\ slot[w] \in Wanted(job[w]) /\ job[w] \in Manifest
            /\ slot' = slot
        BY <1>7, <1>b DEF CreateContainer, Control, OnNode, TypeOK
      <3>2. made.id = NewId(slot[w]) /\ made # None
        <4>1. NewId(slot[w]) \in Id
          BY <1>7, FreshId DEF CreateContainer
        <4>2. made \in Container
          BY <3>1, <4>1, SpecForOK DEF Container
        <4> QED
          BY <4>2, NoneFacts
      <3> HIDE DEF made
      <3>3. docker'[slot[w]] = made /\ cid'[w] = NewId(slot[w]) /\ pc'[w] = "start"
        BY <2>2, <3>1 DEF Goto, TypeOK
      <3> QED
        BY <3>1, <3>2, <3>3 DEF InHand, Exists
    <2> QED
      BY <1>7, <2>1, <2>2 DEF CreateContainer, Effect
  <1>8. ASSUME StartContainer(w) PROVE InHand(w)'
    <2>1. CASE EndSlot(w, slot[w], TRUE)
      BY <1>0, <1>8, <2>1 DEF StartContainer
    <2>2. CASE Goto(w, "state") /\ UNCHANGED <<todo, cid, errs>>
      <3>1. /\ pc[w] = "start" /\ pc'[w] = "state" /\ slot[w] \in Slot
            /\ UNCHANGED <<slot, cid>>
            /\ docker' \in {docker, Started(slot[w])}
        BY <1>8, <1>b, <2>2 DEF StartContainer, Goto, TypeOK, Control, OnNode
      <3>2. docker[slot[w]] # None /\ docker[slot[w]].id = cid[w]
        BY <1>b, <3>1 DEF InHand, Exists
      <3>3. docker'[slot[w]] # None /\ docker'[slot[w]].id = cid[w]
        BY <3>1, <3>2, StartedOK
      <3> QED
        BY <3>1, <3>3 DEF InHand, Exists
    <2> QED
      BY <1>8, <2>1, <2>2 DEF StartContainer
  <1>9. ASSUME GetContainerState(w) PROVE InHand(w)'
    <2>1. /\ pc[w] = "state" /\ pc'[w] = "save" /\ UNCHANGED <<docker, slot, cid>>
      BY <1>9 DEF GetContainerState, Goto, TypeOK, outside, local
    <2> QED
      BY <1>b, <2>1 DEF InHand, Exists
  <1>10. ASSUME SaveContainer(w) PROVE InHand(w)'
    <2>1. PICK r \in Reply : EndSlot(w, slot[w], r # "ok")
      BY <1>10 DEF SaveContainer
    <2>2. EndSlot(w, slot[w], TRUE) \/ EndSlot(w, slot[w], FALSE)
      BY <2>1
    <2> QED
      BY <1>0, <1>10, <2>2 DEF SaveContainer
  <1>11. ASSUME SaveServices(w) \/ CommitApply(w) PROVE InHand(w)'
    <2>1. pc'[w] \in {"commit", "done", "failed"}
      BY <1>11, ReturnControl DEF SaveServices, CommitApply, Goto, TypeOK
    <2> QED
      BY <2>1 DEF InHand
  <1> QED
    BY <1>1, <1>2, <1>3, <1>4, <1>5, <1>6, <1>7, <1>8, <1>9, <1>10, <1>11 DEF ApplyStep

\* Requests, the lock and the steps of Delete take no container in hand.
LEMMA OtherHand ==
    ASSUME IInv, HandInv, NEW w \in Worker, Request(w) \/ Lock(w) \/ DeleteStep(w)
    PROVE  HandInv'
  <1> USE ControlStates
  <1>1. CASE Request(w)
    <2>1. /\ UNCHANGED <<docker, slot, cid>>
          /\ \A v \in Worker : pc'[v] = pc[v] \/ pc'[v] \notin HoldsMu
      BY <1>1 DEF Request, CallApply, CallDelete, SaveManifestFromFile, Done, IInv, TypeOK,
                  Goto, outside, local
    <2> QED
      BY <2>1 DEF HandInv, InHand, Exists
  <1>2. CASE Lock(w)
    <2>1. mu = None /\ pc'[w] \in {"node", "dnode"} /\ \A v \in Worker \ {w} : pc'[v] = pc[v]
      BY <1>2 DEF Lock, IInv, TypeOK, Goto
    <2>2. InHand(w)'
      BY <2>1 DEF InHand
    <2> QED
      BY <2>1, <2>2, HandFrame DEF IInv
  <1>3. CASE DeleteStep(w)
    <2>1. mu = w /\ \A v \in Worker \ {w} : pc'[v] = pc[v]
      BY <1>3, DeleteControl DEF IInv
    <2>2. pc'[w] \in DeletePC \cup {"done", "failed"}
      BY <1>3, ReturnControl, ApplyStates
         DEF DeleteStep, DeleteNode, DeleteStop, DeleteRemove, DeleteRecords, RemoveNetwork,
             DeleteNetworkRecord, CommitDelete, DeleteNext, Goto, IInv, TypeOK
    <2>3. InHand(w)'
      BY <2>2, ApplyStates DEF InHand
    <2> QED
      BY <2>1, <2>3, HandFrame DEF IInv
  <1> QED
    BY <1>1, <1>2, <1>3

\* Neither Docker nor the reconciler takes a container away or puts one there.
LEMMA OutsideHand ==
    ASSUME IInv, HandInv, Outside
    PROVE  HandInv'
  <1>1. ASSUME NEW s \in Slot, ContainerExit(s) \/ StartStopped(s) PROVE HandInv'
    <2>1. /\ UNCHANGED <<pc, slot, cid>>
          /\ docker[s] # None /\ docker'[s] # None /\ docker'[s].id = docker[s].id
          /\ \A t \in Slot \ {s} : docker'[t] = docker[t]
      BY <1>1, StartedOK, StoppedOK DEF ContainerExit, StartStopped, IInv, local
    <2>2. \A v \in Worker : pc[v] \in SlotPC => slot[v] \in Slot
      BY DEF IInv, ControlInv, Control, OnNode, TypeOK
    <2> QED
      BY <2>1, <2>2, ControlStates DEF HandInv, InHand, Exists
  <1>2. ASSUME Interrupt PROVE HandInv'
    BY <1>2 DEF Interrupt, outside, local, HandInv, InHand, Exists
  <1>3. ASSUME Exit \/ Kill PROVE HandInv'
    <2>1. \A v \in Worker : pc'[v] = "idle"
      BY <1>3 DEF Exit, Kill, FreshProcess
    <2> QED
      BY <2>1 DEF HandInv, InHand
  <1> QED
    BY <1>1, <1>2, <1>3 DEF Outside

-----------------------------------------------------------------------------
(* The cache. *)

\* Apply enters a node through its cached network and removes none.
LEMMA ApplyCache ==
    ASSUME IInv, CacheInv, NEW w \in Worker, ApplyStep(w)
    PROVE  CacheInv'
  <1>a. /\ TypeOK /\ ControlInv /\ mu = w
        /\ \A v \in Worker \ {w} : pc'[v] = pc[v] /\ pc[v] \notin HoldsMu
    BY ApplyControl, NoneFacts DEF IInv, ControlInv, Control
  <1>b. SUFFICES /\ pc'[w] \in ApplyNodePC => node'[w] \in netCache'
                 /\ faults' = 0 => netCache' \subseteq net'
    BY <1>a, ControlStates DEF CacheInv
  <1> USE ControlStates
  <1>1. ASSUME NEW n \in Node, EnsureNetwork(w, n)
        PROVE  /\ pc'[w] \in ApplyNodePC => node'[w] \in netCache'
               /\ faults' = 0 => netCache' \subseteq net'
    <2>1. pc[w] = "node" /\ node'[w] = n
      BY <1>1, <1>a DEF EnsureNetwork, TypeOK
    <2>2. CASE /\ n \in netCache
               /\ Goto(w, "netrec")
               /\ UNCHANGED <<net, netCache, todo, errs, faults>>
      BY <2>1, <2>2 DEF CacheInv
    <2>3. ASSUME NEW r, DockerCall(r),
                 net' = IF Effect(r) THEN net \cup {n} ELSE net,
                 IF r = "ok"
                 THEN netCache' = netCache \cup {n}
                 ELSE SkipNode(w, n) /\ UNCHANGED netCache
          PROVE  /\ pc'[w] \in ApplyNodePC => node'[w] \in netCache'
                 /\ faults' = 0 => netCache' \subseteq net'
      <3>1. faults' = 0 => faults = 0
        BY <2>3, <1>a DEF DockerCall, Charge, TypeOK
      <3>2. CASE r = "ok"
        BY <2>1, <2>3, <3>1, <3>2 DEF CacheInv, Effect
      <3>3. CASE r # "ok"
        <4>1. pc'[w] \in {"node", "services"} /\ netCache' = netCache
          BY <2>3, <3>3, <1>a, SkipNodeControl
        <4> QED
          BY <2>3, <3>1, <4>1 DEF CacheInv
      <3> QED
        BY <3>2, <3>3
    <2> QED
      BY <1>1, <2>2, <2>3 DEF EnsureNetwork
  <1>2. ASSUME \A n \in Node : ~EnsureNetwork(w, n)
        PROVE  /\ pc'[w] \in ApplyNodePC => node'[w] \in netCache'
               /\ faults' = 0 => netCache' \subseteq net'
    <2>1. UNCHANGED <<net, netCache>>
      BY <1>2 DEF ApplyStep, Inspect, SaveNetwork, WriteFiles, Compare, StopContainer,
             RemoveContainer, CreateContainer, StartContainer, GetContainerState,
             SaveContainer, SaveServices, CommitApply, outside
    <2>3. faults' = 0 => faults = 0
      BY <1>a, OperationCost
    <2>2. /\ pc[w] \in ApplyNodePC /\ UNCHANGED node
          \/ pc'[w] \in {"commit", "done", "failed"}
      <3>1. CASE SaveServices(w) \/ CommitApply(w)
        BY <3>1, <1>a, ReturnControl DEF SaveServices, CommitApply, Goto, TypeOK
      <3>2. CASE ~(SaveServices(w) \/ CommitApply(w))
        BY <1>2, <3>2 DEF ApplyStep, Inspect, SaveNetwork, WriteFiles, Compare, StopContainer,
             RemoveContainer, CreateContainer, StartContainer, GetContainerState,
             SaveContainer, local
      <3> QED
        BY <3>1, <3>2
    <2> QED
      BY <2>1, <2>2, <2>3 DEF CacheInv
  <1> QED
    BY <1>1, <1>2

\* Delete takes a network and its cache entry together, unless the reply is lost.
LEMMA DeleteCache ==
    ASSUME IInv, CacheInv, NEW w \in Worker, DeleteStep(w)
    PROVE  CacheInv'
  <1>a. /\ TypeOK /\ mu = w
        /\ \A v \in Worker \ {w} : pc'[v] = pc[v] /\ pc[v] \notin HoldsMu
    BY DeleteControl, NoneFacts DEF IInv, ControlInv, Control
  <1>1. pc'[w] \notin ApplyNodePC
    BY <1>a, ReturnControl, ControlStates
       DEF DeleteStep, DeleteNode, DeleteStop, DeleteRemove, DeleteRecords, RemoveNetwork,
           DeleteNetworkRecord, CommitDelete, DeleteNext, Goto, TypeOK
  <1>2. faults' = 0 => faults = 0
    BY <1>a, OperationCost
  <1>3. CASE RemoveNetwork(w)
    <2>1. ASSUME NEW r \in Reply, DockerCall(r), NEW able \in BOOLEAN,
                 net' = IF r # "fail" /\ able THEN net \ {node[w]} ELSE net,
                 netCache' = IF r = "ok" /\ able THEN netCache \ {node[w]} ELSE netCache,
                 faults' = 0
          PROVE  netCache' \subseteq net'
      <3>1. r # "lost"
        BY <1>a, <2>1, CallCost
      <3> QED
        BY <1>2, <2>1, <3>1 DEF CacheInv, Reply
    <2>2. faults' = 0 => netCache' \subseteq net'
      <3>1. CASE UNCHANGED <<net, netCache>>
        BY <1>2, <3>1 DEF CacheInv
      <3> DEFINE able == node[w] \in net /\ Attached(node[w]) = {}
      <3>2. CASE \E r \in Reply :
                    /\ DockerCall(r)
                    /\ net' = IF r # "fail" /\ able THEN net \ {node[w]} ELSE net
                    /\ netCache' = IF r = "ok" /\ able
                                   THEN netCache \ {node[w]} ELSE netCache
        <4> able \in BOOLEAN
          OBVIOUS
        <4> HIDE DEF able
        <4> QED
          BY <2>1, <3>2
      <3> QED
        BY <1>3, <3>1, <3>2 DEF RemoveNetwork
    <2> QED
      BY <1>a, <1>1, <2>2, ControlStates DEF CacheInv
  <1>4. CASE ~RemoveNetwork(w)
    <2>1. UNCHANGED <<net, netCache>>
      BY <1>4 DEF DeleteStep, DeleteNode, DeleteStop, DeleteRemove, DeleteRecords,
             DeleteNetworkRecord, CommitDelete, outside
    <2> QED
      BY <1>a, <1>1, <1>2, <2>1, ControlStates DEF CacheInv
  <1> QED
    BY <1>3, <1>4

\* Nobody else touches a network or the cache; a new process has an empty one.
LEMMA OtherCache ==
    ASSUME IInv, CacheInv,
           Outside \/ \E w \in Worker : Request(w) \/ Lock(w)
    PROVE  CacheInv'
  <1>1. ASSUME NEW w \in Worker, Request(w) \/ Lock(w) PROVE CacheInv'
    <2>1. /\ UNCHANGED <<net, netCache, node>>
          /\ \A v \in Worker : pc'[v] = pc[v] \/ pc'[v] \notin ApplyNodePC
          /\ faults' = 0 => faults = 0
      BY <1>1, ControlStates
         DEF Request, CallApply, CallDelete, SaveManifestFromFile, Done, Lock, RedisCall,
             Charge, IInv, TypeOK, Goto, outside, local
    <2> QED
      BY <2>1 DEF CacheInv
  <1>2. ASSUME NEW s \in Slot, ContainerExit(s) \/ StartStopped(s) PROVE CacheInv'
    BY <1>2 DEF ContainerExit, StartStopped, local, CacheInv
  <1>3. ASSUME Interrupt PROVE CacheInv'
    BY <1>3 DEF Interrupt, outside, local, CacheInv
  <1>4. ASSUME Exit \/ Kill PROVE CacheInv'
    <2>1. netCache' = {} /\ \A v \in Worker : pc'[v] = "idle"
      BY <1>4 DEF Exit, Kill, FreshProcess
    <2> QED
      BY <2>1, ControlStates DEF CacheInv
  <1> QED
    BY <1>1, <1>2, <1>3, <1>4 DEF Outside

-----------------------------------------------------------------------------
(* Every error of Apply has a cause. *)

\* Apply notes its first error, or fails, for a fault of its own, or because Docker
\* refuses what it may refuse.
LEMMA ApplyExplained ==
    ASSUME IInv, HandInv, CacheInv, NEW w \in Worker, ApplyStep(w)
    PROVE  ErrorExplained(w)
  <1> DEFINE cause == \/ faults' # faults \/ cancelled
                      \/ Refusable(w)
                      \/ faults > 0 /\ node[w] \in netCache \ net
  <1>a. TypeOK /\ ControlInv /\ InHand(w)
    BY DEF IInv, HandInv
  <1> SUFFICES ASSUME ~errs[w], errs'[w] \/ pc'[w] = "failed" PROVE cause
    BY DEF ErrorExplained
  <1>1. ASSUME NEW n \in Node, EnsureNetwork(w, n) PROVE cause
    <2>1. CASE Goto(w, "netrec") /\ UNCHANGED errs
      BY <1>a, <2>1 DEF Goto, TypeOK
    <2>2. ASSUME NEW r \in Reply \cup Refusal(n \in RefusedNets), DockerCall(r),
                 r = "refused" => n \notin net, r # "ok", n \notin netCache
          PROVE  cause
      <3>1. CASE r = "refused"
        <4>1. n \in RefusedNets \ (net \cup netCache)
          BY <2>2, <3>1 DEF Reply, Refusal
        <4>2. pc[w] = "node" /\ node'[w] = n
          BY <1>1, <1>a DEF EnsureNetwork, TypeOK
        <4> QED
          BY <4>1, <4>2 DEF Refusable
      <3>2. CASE r # "refused"
        BY <1>a, <2>2, <3>2, CallCost
      <3> QED
        BY <3>1, <3>2
    <2>3. CASE \E r \in Reply \cup Refusal(n \in RefusedNets) :
                  /\ DockerCall(r)
                  /\ r = "refused" => n \notin net
                  /\ r = "ok" => Goto(w, "netrec") /\ UNCHANGED errs
                  /\ n \notin netCache
      BY <2>1, <2>2, <2>3
    <2> QED
      BY <1>1, <2>1, <2>3 DEF EnsureNetwork
  <1>2. ASSUME SaveNetwork(w) PROVE cause
    <2>1. PICK r \in Reply : RedisCall(r) /\ Note(w, r # "ok")
      BY <1>2 DEF SaveNetwork
    <2>2. pc'[w] = "files" /\ (errs'[w] => r # "ok")
      BY <1>2, <1>a, <2>1 DEF SaveNetwork, Goto, Note, TypeOK
    <2> QED
      BY <1>a, <2>1, <2>2, RedisCost
  <1>3. ASSUME WriteFiles(w) PROVE cause
    <2>1. CASE Goto(w, "inspect") /\ UNCHANGED errs
      BY <1>a, <2>1 DEF Goto, TypeOK
    <2>2. ASSUME NEW r \in Reply, Charge(r), r # "ok" PROVE cause
      BY <1>a, <2>2, RedisCost
    <2> QED
      BY <1>3, <2>1, <2>2 DEF WriteFiles
  <1>4. ASSUME NEW s \in Slot, Inspect(w, s) PROVE cause
    <2>1. CASE DockerCall("fail")
      BY <1>a, <2>1, CallCost
    <2>2. CASE UNCHANGED errs /\ \E p \in {"create", "stop", "compare"} : Goto(w, p)
      BY <1>a, <2>2 DEF Goto, TypeOK
    <2> QED
      BY <1>4, <2>1, <2>2 DEF Inspect
  <1>5. ASSUME Compare(w) PROVE cause
    <2>1. CASE DockerCall("fail")
      BY <1>a, <2>1, CallCost
    <2>2. CASE UNCHANGED errs /\ \E p \in {"save", "stop"} : Goto(w, p)
      BY <1>a, <2>2 DEF Goto, TypeOK
    <2>3. Exists(slot[w], cid[w])
      BY <1>5, <1>a DEF Compare, InHand
    <2> QED
      BY <1>5, <2>1, <2>2, <2>3 DEF Compare
  <1>6. ASSUME StopContainer(w) PROVE cause
    BY <1>6, <1>a DEF StopContainer, Goto, TypeOK
  <1>7. ASSUME RemoveContainer(w) PROVE cause
    <2>1. ASSUME NEW r \in Reply, DockerCall(r), r # "ok" PROVE cause
      BY <1>a, <2>1, CallCost DEF Reply
    <2>2. CASE UNCHANGED errs /\ Goto(w, "create")
      BY <1>a, <2>2 DEF Goto, TypeOK
    <2>3. Exists(slot[w], cid[w])
      BY <1>7, <1>a DEF RemoveContainer, InHand
    <2> QED
      BY <1>7, <2>1, <2>2, <2>3 DEF RemoveContainer
  <1>8. ASSUME CreateContainer(w) PROVE cause
    <2>1. ASSUME NEW r \in Reply \cup Refusal(slot[w] \in RefusedSlots), DockerCall(r),
                 r # "ok"
          PROVE  cause
      <3>1. CASE r = "refused"
        <4>1. slot[w] \in RefusedSlots
          BY <3>1 DEF Reply, Refusal
        <4> QED
          BY <1>8, <1>a, <4>1 DEF CreateContainer, InHand, Refusable
      <3>2. CASE r # "refused"
        BY <1>a, <2>1, <3>2, CallCost
      <3> QED
        BY <3>1, <3>2
    <2>2. CASE UNCHANGED errs /\ Goto(w, "start")
      BY <1>a, <2>2 DEF Goto, TypeOK
    <2>3. docker[slot[w]] = None
      BY <1>8, <1>a DEF CreateContainer, InHand
    <2> QED
      BY <1>8, <2>1, <2>2, <2>3 DEF CreateContainer
  <1>9. ASSUME StartContainer(w) PROVE cause
    <2>1. pc[w] = "start" /\ Exists(slot[w], cid[w])
      BY <1>9, <1>a DEF StartContainer, InHand
    <2>2. CASE node[w] \notin net
      <3>1. node[w] \in netCache
        BY <2>1, ControlStates DEF CacheInv
      <3>2. faults \in Nat /\ faults # 0
        BY <1>a, <2>2, <3>1 DEF CacheInv, TypeOK
      <3> QED
        BY <2>2, <3>1, <3>2
    <2>3. ASSUME NEW r \in Reply \cup Refusal(slot[w] \in RefusedSlots), DockerCall(r),
                 r # "ok", node[w] \in net
          PROVE  cause
      <3>1. CASE r = "refused"
        <4>1. slot[w] \in RefusedSlots
          BY <3>1 DEF Reply, Refusal
        <4> QED
          BY <2>1, <2>3, <4>1 DEF Refusable
      <3>2. CASE r # "refused"
        BY <1>a, <2>3, <3>2, CallCost
      <3> QED
        BY <3>1, <3>2
    <2>4. CASE UNCHANGED errs /\ Goto(w, "state")
      BY <1>a, <2>4 DEF Goto, TypeOK
    <2> QED
      BY <1>9, <2>1, <2>2, <2>3, <2>4 DEF StartContainer
  <1>10. ASSUME GetContainerState(w) PROVE cause
    <2>1. Exists(slot[w], cid[w])
      BY <1>10, <1>a DEF GetContainerState, InHand
    <2>2. CASE Note(w, ~Exists(slot[w], cid[w]))
      BY <1>10, <1>a, <2>1, <2>2 DEF GetContainerState, Note, Goto, TypeOK
    <2>3. CASE DockerCall("fail")
      BY <1>a, <2>3, CallCost
    <2> QED
      BY <1>10, <2>2, <2>3 DEF GetContainerState
  <1>11. ASSUME SaveContainer(w) PROVE cause
    <2>1. PICK r \in Reply : RedisCall(r) /\ EndSlot(w, slot[w], r # "ok")
      BY <1>11 DEF SaveContainer
    <2>2. pc[w] \in ApplyNodePC
      BY <1>11, ControlStates DEF SaveContainer
    <2>3. errs'[w] = (errs[w] \/ r # "ok") /\ pc'[w] # "failed"
      BY <1>a, <2>1, <2>2, EndSlotControl
    <2> QED
      BY <1>a, <2>1, <2>3, RedisCost
  <1>12. ASSUME SaveServices(w) PROVE cause
    <2>1. PICK r \in Reply :
             /\ RedisCall(r)
             /\ IF r = "ok" /\ ~errs[w]
                THEN Goto(w, "commit") /\ UNCHANGED <<errs, mu, node, slot>>
                ELSE Return(w, "failed")
      BY <1>12 DEF SaveServices
    <2>2. r # "ok"
      BY <1>a, <2>1 DEF Goto, TypeOK
    <2> QED
      BY <1>a, <2>1, <2>2, RedisCost
  <1>13. ASSUME CommitApply(w) PROVE cause
    <2>1. PICK r \in Reply :
             RedisCall(r) /\ Return(w, IF r = "ok" THEN "done" ELSE "failed")
      BY <1>13 DEF CommitApply
    <2>2. r # "ok"
      BY <1>a, <2>1 DEF Return, Goto, TypeOK
    <2> QED
      BY <1>a, <2>1, <2>2, RedisCost
  <1> QED
    BY <1>1, <1>2, <1>3, <1>4, <1>5, <1>6, <1>7, <1>8, <1>9, <1>10, <1>11, <1>12, <1>13
       DEF ApplyStep

\* The steps outside of Apply note no error in it.
LEMMA OthersExplained ==
    ASSUME IInv, HandInv, CacheInv, [Next]_vars
    PROVE  \A w \in Worker : ErrorExplained(w)
  <1>a. TypeOK /\ ControlInv
    BY DEF IInv
  <1>b. \A p \in ApplyPC : p \in HoldsMu
    BY DEF HoldsMu
  <1>1. CASE Outside \/ UNCHANGED vars
    <2>1. \A w \in Worker : \/ pc'[w] = pc[w] /\ errs'[w] = errs[w]
                            \/ pc'[w] = "idle" /\ ~errs'[w]
      BY <1>1 DEF Outside, ContainerExit, StartStopped, Interrupt, Exit, Kill, FreshProcess,
                  vars
    <2>2. "failed" \notin ApplyPC
      BY ApplyStates
    <2> QED
      BY <2>1, <2>2 DEF ErrorExplained
  <1>2. ASSUME NEW w \in Worker, Request(w) \/ Lock(w) \/ DeleteStep(w), NEW v \in Worker
        PROVE  ErrorExplained(v)
    <2>1. CASE v = w
      BY <1>2, <2>1, ApplyStates
         DEF ErrorExplained, Request, CallApply, CallDelete, SaveManifestFromFile, Done,
             Lock, DeleteStep, DeleteNode, DeleteStop, DeleteRemove, DeleteRecords,
             RemoveNetwork, DeleteNetworkRecord, CommitDelete
    <2>2. CASE v # w /\ Request(w)
      <3>1. errs' = errs /\ pc'[v] = pc[v]
        BY <1>a, <2>2 DEF Request, CallApply, CallDelete, SaveManifestFromFile, Done, Goto,
                          TypeOK
      <3> QED
        BY <3>1, ApplyStates DEF ErrorExplained
    <2>3. CASE v # w /\ (Lock(w) \/ DeleteStep(w))
      <3>1. mu \in {w, None}
        BY <1>a, <2>3, DeleteControl DEF Lock
      <3>2. pc[v] \notin HoldsMu
        BY <1>a, <2>3, <3>1, NoneFacts DEF ControlInv, Control
      <3> QED
        BY <1>b, <3>2 DEF ErrorExplained
    <2> QED
      BY <1>2, <2>1, <2>2, <2>3
  <1>3. ASSUME NEW w \in Worker, ApplyStep(w), NEW v \in Worker
        PROVE  ErrorExplained(v)
    <2>1. v # w => pc[v] \notin HoldsMu
      BY <1>a, <1>3, ApplyControl, NoneFacts DEF ControlInv, Control
    <2> QED
      BY <1>3, <1>b, <2>1, ApplyExplained DEF ErrorExplained
  <1> QED
    BY <1>1, <1>2, <1>3 DEF Next, EngineStep

\* What an Apply has in hand and in the cache stays right.
LEMMA NextHandCache ==
    ASSUME IInv, HandInv, CacheInv, [Next]_vars
    PROVE  HandInv' /\ CacheInv'
  <1>1. CASE UNCHANGED vars
    BY <1>1 DEF vars, HandInv, InHand, Exists, CacheInv
  <1>2. CASE Next
    BY <1>2, ApplyHand, OtherHand, OutsideHand, ApplyCache, DeleteCache, OtherCache
       DEF Next, EngineStep, IInv
  <1> QED
    BY <1>1, <1>2

\* Nothing is in hand or in the cache at the start.
LEMMA InitHandCache == Init => HandInv /\ CacheInv
  BY ControlStates DEF Init, HandInv, InHand, CacheInv

\* Apply is repeatable: whatever earlier Applies and Deletes did, however they
\* failed or were killed, an Apply fails only for a call of its own that fails, an
\* interrupt, a subnet, an image or a host port that Docker refuses, or a network
\* the cache wrongly remembers after a fault.
THEOREM ApplyErrorsHaveCauses == Spec => ApplyErrorsExplained
  <1> DEFINE I == IInv /\ HandInv /\ CacheInv
  <1>1. Init => I
    BY InitIInv, InitHandCache
  <1>2. I /\ [Next]_vars => I'
    BY NextProgress, NextHandCache
  <1>3. I /\ [Next]_vars => [\A w \in Worker : ErrorExplained(w)]_vars
    BY OthersExplained
  <1> HIDE DEF I
  <1> QED
    BY <1>1, <1>2, <1>3, PTL DEF Spec, ApplyErrorsExplained

-----------------------------------------------------------------------------
(* Without faults and crashes, Redis mirrors Docker. *)

Clean == faults = 0 /\ crashes = 0

\* Only an interrupt cancels the context.
CancelInv == cancelled => crashes > 0

\* Delete has removed the containers it is through with.
GoneInv ==
    Clean => \A w \in Worker : pc[w] \in DeletePC =>
                \A s \in Wanted(job[w]) \ todo[w] : docker[s] = None

Mirrored(s) == rec[s] = IF docker[s] = None THEN None ELSE docker[s].id

\* Worker w has changed the container of slot s and not yet its record: Apply has
\* one such container at a time, Delete those of the node it is at.
InWork(w, s) ==
    \/ pc[w] \in {"create", "start", "state", "save"} /\ slot[w] = s
    \/ pc[w] \in DeleteNodePC /\ s \in OnNode(Wanted(job[w]), node[w]) \ todo[w]

MirrorInv ==
    Clean => \A s \in Slot \ RefusedSlots : Mirrored(s) \/ \E w \in Worker : InWork(w, s)

MInv == /\ IInv /\ HandInv /\ CacheInv
        /\ CancelInv /\ GoneInv /\ MirrorInv

\* A step that neither creates nor removes a container nor writes its record.
SameIds ==
    /\ rec' = rec
    /\ \A s \in Slot :
          IF docker[s] = None THEN docker'[s] = None
          ELSE docker'[s] # None /\ docker'[s].id = docker[s].id

\* Such a step leaves the mirror alone.
LEMMA SameMirror ==
    ASSUME SameIds, NEW s \in Slot
    PROVE  Mirrored(s) => Mirrored(s)'
  BY DEF SameIds, Mirrored

\* Where no fault and no crash happened, a call that is not refused succeeds.
LEMMA CleanReply ==
    ASSUME TypeOK, CancelInv, Clean', UNCHANGED counters,
           NEW r \in Reply, Charge(r) \/ DockerCall(r) \/ RedisCall(r)
    PROVE  r = "ok"
  BY CallCost DEF TypeOK, CancelInv, Clean, counters, Reply

\* Only the surroundings interrupt or kill.
LEMMA SameCounters ==
    ASSUME NEW w \in Worker, Request(w) \/ EngineStep(w)
    PROVE  UNCHANGED counters
  <1>1. CASE Request(w) \/ Lock(w)
    BY <1>1 DEF Request, CallApply, CallDelete, SaveManifestFromFile, Done, Lock
  <1>2. CASE \/ \E n \in Node : EnsureNetwork(w, n)
             \/ \E s \in Slot : Inspect(w, s)
             \/ SaveNetwork(w) \/ WriteFiles(w) \/ Compare(w)
    BY <1>2 DEF EnsureNetwork, Inspect, SaveNetwork, WriteFiles, Compare
  <1>3. CASE \/ StopContainer(w) \/ RemoveContainer(w) \/ CreateContainer(w)
             \/ StartContainer(w) \/ GetContainerState(w)
    BY <1>3 DEF StopContainer, RemoveContainer, CreateContainer, StartContainer,
                GetContainerState
  <1>4. CASE SaveContainer(w) \/ SaveServices(w) \/ CommitApply(w)
    BY <1>4 DEF SaveContainer, SaveServices, CommitApply
  <1>5. CASE DeleteStep(w)
    BY <1>5 DEF DeleteStep, DeleteNode, DeleteStop, DeleteRemove, DeleteRecords,
                RemoveNetwork, DeleteNetworkRecord, CommitDelete
  <1> QED
    BY <1>1, <1>2, <1>3, <1>4, <1>5 DEF EngineStep, ApplyStep

\* A clean past is behind every clean state.
LEMMA CleanPast ==
    ASSUME TypeOK, Next, Clean'
    PROVE  Clean
  <1>1. CASE \E w \in Worker : ApplyStep(w) \/ DeleteStep(w)
    <2>1. crashes' = crashes
      BY <1>1, SameCounters DEF EngineStep, counters
    <2> QED
      BY <1>1, <2>1, OperationCost DEF Clean
  <1>2. CASE \E w \in Worker : Request(w) \/ Lock(w)
    <2>1. crashes' = crashes /\ (faults' = 0 => faults = 0)
      BY <1>2, CallCost DEF Request, CallApply, CallDelete, SaveManifestFromFile, Done,
                            Lock, counters
    <2> QED
      BY <2>1 DEF Clean
  <1>3. CASE Outside
    <2>1. CASE Interrupt \/ Kill
      BY <2>1 DEF Interrupt, Kill, Clean, TypeOK
    <2>2. CASE Exit \/ \E s \in Slot : ContainerExit(s) \/ StartStopped(s)
      BY <2>2 DEF Exit, FreshProcess, ContainerExit, StartStopped, counters, Clean
    <2> QED
      BY <1>3, <2>1, <2>2 DEF Outside
  <1> QED
    BY <1>1, <1>2, <1>3 DEF Next, EngineStep

\* A cancelled context means an interrupt.
LEMMA NextCancel ==
    ASSUME TypeOK, CancelInv, Next
    PROVE  CancelInv'
  <1>1. CASE Outside
    <2>1. CASE Interrupt \/ Exit \/ Kill
      BY <2>1 DEF Interrupt, Exit, Kill, FreshProcess, CancelInv, TypeOK
    <2>2. CASE \E s \in Slot : ContainerExit(s) \/ StartStopped(s)
      BY <2>2 DEF ContainerExit, StartStopped, counters, CancelInv
    <2> QED
      BY <1>1, <2>1, <2>2 DEF Outside
  <1>2. CASE \E w \in Worker : Request(w) \/ EngineStep(w)
    <2>1. UNCHANGED counters
      BY <1>2, SameCounters
    <2> QED
      BY <2>1 DEF counters, CancelInv
  <1> QED
    BY <1>1, <1>2 DEF Next

\* While a worker is in the mutex, the slots in work are its own.
LEMMA OwnWork ==
    ASSUME MInv, Clean, NEW w \in Worker, mu = w, NEW s \in Slot \ RefusedSlots
    PROVE  Mirrored(s) \/ InWork(w, s)
  <1>1. ASSUME NEW v \in Worker, v # w PROVE ~InWork(v, s)
    <2>1. pc[v] \notin HoldsMu
      BY <1>1 DEF MInv, IInv, ControlInv, Control
    <2> QED
      BY <2>1, ControlStates, ApplyStates DEF InWork
  <1> QED
    BY <1>1 DEF MInv, MirrorInv

\* Starting and stopping a container leaves its ID alone.
LEMMA RunningIds ==
    ASSUME TypeOK, NEW s \in Slot, docker' = docker \/ docker[s] # None,
           docker' \in {docker, Stopped(s), Started(s)}, rec' = rec
    PROVE  SameIds
  <1>1. CASE docker' = docker
    BY <1>1 DEF SameIds
  <1>2. CASE docker[s] # None
    BY <1>2, StoppedOK, StartedOK DEF SameIds
  <1> QED
    BY <1>1, <1>2

\* A step of Apply stays in Apply or returns.
LEMMA ApplyLeavesDelete ==
    ASSUME IInv, NEW w \in Worker, ApplyStep(w)
    PROVE  pc'[w] \notin DeletePC
  <1> USE ControlStates, ApplyStates DEF IInv
  <1>1. ASSUME NEW n, SkipNode(w, n) PROVE pc'[w] \notin DeletePC
    BY <1>1, SkipNodeControl
  <1>2. ASSUME NEW s, NEW failed \in BOOLEAN, EndSlot(w, s, failed), pc[w] \in ApplyNodePC
        PROVE  pc'[w] \notin DeletePC
    BY <1>2, EndSlotControl
  <1>3. CASE \/ \E n \in Node : EnsureNetwork(w, n)
             \/ SaveNetwork(w) \/ WriteFiles(w) \/ StopContainer(w)
    BY <1>1, <1>3 DEF EnsureNetwork, SaveNetwork, WriteFiles, StopContainer, Goto, TypeOK
  <1>4. CASE \E s \in Slot : Inspect(w, s)
    <2>1. CASE \E s \in Slot : EndSlot(w, s, TRUE)
      BY <1>2, <1>4, <2>1 DEF Inspect
    <2>2. CASE \E p \in ApplyPC : Goto(w, p)
      BY <2>2 DEF Goto, TypeOK
    <2> QED
      BY <1>4, <2>1, <2>2 DEF Inspect
  <1>5. CASE Compare(w) \/ RemoveContainer(w) \/ CreateContainer(w) \/ StartContainer(w)
    <2>1. CASE EndSlot(w, slot[w], TRUE)
      <3>1. pc[w] \in ApplyNodePC
        BY <1>5 DEF Compare, RemoveContainer, CreateContainer, StartContainer
      <3> QED
        BY <1>2, <2>1, <3>1
    <2>2. CASE \E p \in ApplyPC : Goto(w, p)
      BY <2>2 DEF Goto, TypeOK
    <2> QED
      BY <1>5, <2>1, <2>2 DEF Compare, RemoveContainer, CreateContainer, StartContainer
  <1>6. CASE SaveContainer(w)
    BY <1>2, <1>6 DEF SaveContainer
  <1>7. CASE GetContainerState(w) \/ SaveServices(w) \/ CommitApply(w)
    BY <1>7, ReturnControl DEF GetContainerState, SaveServices, CommitApply, Goto, TypeOK
  <1> QED
    BY <1>3, <1>4, <1>5, <1>6, <1>7 DEF ApplyStep

\* Apply has at most the container in its hand in work.
LEMMA ApplyMirror ==
    ASSUME MInv, NEW w \in Worker, ApplyStep(w), Clean, Clean'
    PROVE  MirrorInv'
  <1>a. /\ TypeOK /\ ControlInv /\ CancelInv /\ mu = w /\ Control(w) /\ InHand(w)
        /\ UNCHANGED counters
    BY ApplyControl, SameCounters DEF MInv, IInv, ControlInv, HandInv, EngineStep
  <1>b. \A s \in Slot \ RefusedSlots : Mirrored(s) \/ InWork(w, s)
    BY <1>a, OwnWork
  <1> SUFFICES \A s \in Slot \ RefusedSlots : Mirrored(s)' \/ InWork(w, s)'
    BY DEF MirrorInv
  <1> USE ControlStates, ApplyStates
  <1>0. ASSUME SameIds, pc[w] \notin {"create", "start", "state", "save"} \cup DeleteNodePC
        PROVE  \A s \in Slot \ RefusedSlots : Mirrored(s)' \/ InWork(w, s)'
    <2>1. \A s \in Slot \ RefusedSlots : Mirrored(s)
      BY <1>0, <1>b DEF InWork
    <2> QED
      BY <1>0, <2>1, SameMirror
  <1>1. CASE \/ \E n \in Node : EnsureNetwork(w, n)
             \/ \E s \in Slot : Inspect(w, s)
             \/ SaveNetwork(w) \/ WriteFiles(w) \/ Compare(w)
             \/ SaveServices(w) \/ CommitApply(w)
    <2>1. /\ UNCHANGED <<docker, rec>>
          /\ pc[w] \in {"node", "inspect", "netrec", "files", "compare", "services", "commit"}
      BY <1>1 DEF EnsureNetwork, Inspect, SaveNetwork, WriteFiles, Compare, SaveServices,
                  CommitApply, outside, redis
    <2> QED
      BY <1>0, <2>1 DEF SameIds
  <1>2. CASE StopContainer(w)
    <2>1. pc[w] = "stop" /\ rec' = rec /\ slot[w] \in Slot
      BY <1>2, <1>a DEF StopContainer, redis, Control, OnNode, TypeOK
    <2>2. docker' = docker \/ (docker[slot[w]] # None /\ docker' = Stopped(slot[w]))
      BY <1>2 DEF StopContainer, Exists
    <2> QED
      BY <1>0, <1>a, <2>1, <2>2, RunningIds
  <1>3. CASE RemoveContainer(w)
    <2>1. pc[w] = "remove" /\ rec' = rec /\ slot' = slot
      BY <1>3 DEF RemoveContainer, redis
    <2>2. CASE docker' = docker
      BY <1>0, <2>1, <2>2 DEF SameIds
    <2>3. CASE docker' = [docker EXCEPT ![slot[w]] = None] /\ Goto(w, "create")
      <3>1. pc'[w] = "create"
        BY <1>a, <2>3 DEF Goto, TypeOK
      <3>2. ASSUME NEW s \in Slot \ RefusedSlots, s # slot[w] PROVE Mirrored(s)'
        <4>1. docker'[s] = docker[s] /\ Mirrored(s)
          BY <1>a, <1>b, <2>1, <2>3, <3>2 DEF TypeOK, InWork
        <4> QED
          BY <2>1, <4>1 DEF Mirrored
      <3> QED
        BY <2>1, <3>1, <3>2 DEF InWork
    <2>4. PICK r \in Reply :
             /\ DockerCall(r)
             /\ docker' = IF r # "fail" /\ Exists(slot[w], cid[w])
                          THEN [docker EXCEPT ![slot[w]] = None] ELSE docker
             /\ r = "ok" /\ Exists(slot[w], cid[w]) => Goto(w, "create")
      BY <1>3 DEF RemoveContainer
    <2>5. r = "ok"
      BY <1>a, <2>4, CleanReply
    <2> QED
      BY <2>2, <2>3, <2>4, <2>5
  <1>4. CASE CreateContainer(w)
    <2>1. pc[w] = "create" /\ rec' = rec /\ slot' = slot /\ docker[slot[w]] = None
      BY <1>4, <1>a DEF CreateContainer, redis, InHand
    <2>2. \A s \in Slot : s # slot[w] => docker'[s] = docker[s]
      BY <1>4, <1>a DEF CreateContainer, TypeOK
    <2>3. ASSUME NEW s \in Slot \ RefusedSlots, s # slot[w] PROVE Mirrored(s)'
      BY <1>b, <2>1, <2>2, <2>3 DEF InWork, Mirrored
    <2>4. CASE slot[w] \notin RefusedSlots
      <3>1. PICK r \in Reply \cup Refusal(slot[w] \in RefusedSlots) :
               DockerCall(r) /\ (r = "ok" => Goto(w, "start"))
        BY <1>4, <2>1 DEF CreateContainer
      <3>2. r = "ok"
        BY <1>a, <2>4, <3>1, CleanReply DEF Refusal
      <3>3. pc'[w] = "start"
        BY <1>a, <3>1, <3>2 DEF Goto, TypeOK
      <3> QED
        BY <2>1, <2>3, <3>3 DEF InWork
    <2> QED
      BY <2>3, <2>4
  <1>5. CASE StartContainer(w)
    <2>1. /\ pc[w] = "start" /\ rec' = rec /\ slot' = slot
          /\ Exists(slot[w], cid[w]) /\ slot[w] \in Slot
      BY <1>5, <1>a DEF StartContainer, redis, InHand, Control, OnNode, TypeOK
    <2>2. node[w] \in net
      BY <2>1 DEF MInv, CacheInv, Clean
    <2>3. SameIds
      <3>1. docker' \in {docker, Started(slot[w])}
        BY <1>5 DEF StartContainer
      <3> QED
        BY <1>a, <2>1, <3>1, RunningIds DEF Exists
    <2>4. CASE slot[w] \notin RefusedSlots
      <3>1. PICK r \in Reply \cup Refusal(slot[w] \in RefusedSlots) :
               DockerCall(r) /\ (r = "ok" => Goto(w, "state"))
        BY <1>5, <2>1, <2>2 DEF StartContainer
      <3>2. r = "ok"
        BY <1>a, <2>4, <3>1, CleanReply DEF Refusal
      <3>3. pc'[w] = "state"
        BY <1>a, <3>1, <3>2 DEF Goto, TypeOK
      <3> QED
        BY <1>b, <2>1, <2>3, <3>3, SameMirror DEF InWork
    <2>5. CASE slot[w] \in RefusedSlots
      BY <1>b, <2>1, <2>3, <2>5, SameMirror DEF InWork
    <2> QED
      BY <2>4, <2>5
  <1>6. CASE GetContainerState(w)
    <2>1. pc[w] = "state" /\ pc'[w] = "save" /\ UNCHANGED <<docker, rec, slot>>
      BY <1>6, <1>a DEF GetContainerState, outside, redis, local, Goto, TypeOK
    <2>2. SameIds
      BY <2>1 DEF SameIds
    <2> QED
      BY <1>b, <2>1, <2>2, SameMirror DEF InWork
  <1>7. CASE SaveContainer(w)
    <2>1. /\ pc[w] = "save" /\ docker' = docker /\ slot[w] \in Slot
          /\ docker[slot[w]] # None /\ docker[slot[w]].id = cid[w]
      BY <1>7, <1>a DEF SaveContainer, outside, InHand, Exists, Control, OnNode, TypeOK
    <2>2. PICK r \in Reply :
             /\ RedisCall(r)
             /\ rec' = IF r = "fail" THEN rec ELSE [rec EXCEPT ![slot[w]] = cid[w]]
      BY <1>7 DEF SaveContainer
    <2>3. r = "ok"
      BY <1>a, <2>2, CleanReply
    <2>4. rec'[slot[w]] = cid[w] /\ \A s \in Slot : s # slot[w] => rec'[s] = rec[s]
      BY <1>a, <2>1, <2>2, <2>3 DEF TypeOK
    <2>5. ASSUME NEW s \in Slot \ RefusedSlots PROVE Mirrored(s)'
      <3>1. CASE s = slot[w]
        BY <2>1, <2>4, <3>1 DEF Mirrored
      <3>2. CASE s # slot[w]
        BY <1>b, <2>1, <2>4, <3>2 DEF InWork, Mirrored
      <3> QED
        BY <3>1, <3>2
    <2> QED
      BY <2>5
  <1> QED
    BY <1>1, <1>2, <1>3, <1>4, <1>5, <1>6, <1>7 DEF ApplyStep

\* Delete has the containers of one node in work, and what it is through with is
\* gone: without faults a removal fails only where there is nothing to remove.
LEMMA DeleteMirror ==
    ASSUME MInv, NEW w \in Worker, DeleteStep(w), Clean, Clean'
    PROVE  MirrorInv' /\ GoneInv'
  <1>a. /\ TypeOK /\ ControlInv /\ CancelInv /\ mu = w /\ Control(w)
        /\ UNCHANGED counters
        /\ \A v \in Worker \ {w} : pc'[v] = pc[v] /\ pc[v] \notin HoldsMu
    BY DeleteControl, SameCounters, NoneFacts DEF MInv, IInv, ControlInv, Control, EngineStep
  <1>b. \A s \in Slot \ RefusedSlots : Mirrored(s) \/ InWork(w, s)
    BY <1>a, OwnWork
  <1> USE ControlStates, ApplyStates
  <1>c. pc[w] \in DeletePC
    BY DEF DeleteStep, DeleteNode, DeleteStop, DeleteRemove, DeleteRecords, RemoveNetwork,
           DeleteNetworkRecord, CommitDelete
  <1>d. \A s \in Wanted(job[w]) \ todo[w] : docker[s] = None
    BY <1>c DEF MInv, GoneInv
  <1>e. Wanted(job[w]) \subseteq Slot
    BY DEF Wanted
  <1> DEFINE Gone == pc'[w] \in DeletePC =>
                       \A s \in Wanted(job'[w]) \ todo'[w] : docker'[s] = None
             Mirror == \A s \in Slot \ RefusedSlots : Mirrored(s)' \/ InWork(w, s)'
  <1> SUFFICES Gone /\ Mirror
    BY <1>a DEF GoneInv, MirrorInv
  <1>1. CASE \E n \in Node : DeleteNode(w, n)
    <2>1. pc[w] = "dnode" /\ UNCHANGED <<docker, rec, job, todo>>
      BY <1>1 DEF DeleteNode, outside, redis
    <2> QED
      BY <1>b, <1>d, <2>1 DEF InWork, Mirrored
  <1>2. CASE \E s \in Slot : DeleteStop(w, s)
    <2>1. /\ pc[w] = "dstop" /\ pc'[w] = "dremove" /\ UNCHANGED <<rec, job, todo, node>>
          /\ \E s \in Slot : docker' = docker \/ (docker[s] # None /\ docker' = Stopped(s))
      BY <1>2, <1>a DEF DeleteStop, redis, Goto, TypeOK
    <2>2. SameIds
      BY <1>a, <2>1, RunningIds
    <2> QED
      BY <1>b, <1>d, <1>e, <2>1, <2>2, SameMirror DEF InWork, SameIds
  <1>3. CASE DeleteRemove(w)
    <2>1. /\ pc[w] = "dremove" /\ pc'[w] \in {"dstop", "drecords"}
          /\ UNCHANGED <<rec, job, node>> /\ todo'[w] = todo[w] \ {slot[w]}
          /\ slot[w] \in Slot /\ slot[w] \in OnNode(Wanted(job[w]), node[w])
      BY <1>3, <1>a DEF DeleteRemove, redis, Goto, TypeOK, DeleteNext, Control, OnNode
    <2>2. PICK r \in Reply :
             /\ DockerCall(r)
             /\ docker' = IF r # "fail" /\ docker[slot[w]] # None
                          THEN [docker EXCEPT ![slot[w]] = None] ELSE docker
      BY <1>3 DEF DeleteRemove
    <2>3. r = "ok"
      BY <1>a, <2>2, CleanReply
    <2>4. docker'[slot[w]] = None /\ \A s \in Slot : s # slot[w] => docker'[s] = docker[s]
      BY <1>a, <2>1, <2>2, <2>3 DEF TypeOK
    <2>5. Gone
      BY <1>d, <1>e, <2>1, <2>4
    <2>6. ASSUME NEW s \in Slot \ RefusedSlots PROVE Mirrored(s)' \/ InWork(w, s)'
      <3>1. CASE s = slot[w]
        BY <2>1, <3>1 DEF InWork, OnNode
      <3>2. CASE s # slot[w] /\ Mirrored(s)
        BY <2>1, <2>4, <3>2 DEF Mirrored
      <3>3. CASE s # slot[w] /\ InWork(w, s)
        BY <2>1, <3>3 DEF InWork
      <3> QED
        BY <1>b, <3>1, <3>2, <3>3
    <2> QED
      BY <2>5, <2>6
  <1>4. CASE DeleteRecords(w)
    <2>1. /\ pc[w] = "drecords" /\ UNCHANGED <<docker, job, todo>>
          /\ OnNode(todo[w], node[w]) = {}
      BY <1>4, <1>a DEF DeleteRecords, outside, local, Control
    <2>2. PICK r \in Reply, gone \in SUBSET OnNode(Wanted(job[w]), node[w]) :
             /\ RedisCall(r)
             /\ r = "ok" => gone = OnNode(Wanted(job[w]), node[w])
             /\ rec' = [s \in Slot |-> IF s \in gone THEN None ELSE rec[s]]
      BY <1>4 DEF DeleteRecords
    <2>3. gone = OnNode(Wanted(job[w]), node[w])
      BY <1>a, <2>2, CleanReply
    <2>4. ASSUME NEW s \in Slot \ RefusedSlots PROVE Mirrored(s)'
      <3>1. CASE s \in gone
        <4>1. docker[s] = None
          BY <1>d, <2>1, <2>3, <3>1 DEF OnNode
        <4> QED
          BY <2>1, <2>2, <3>1, <4>1 DEF Mirrored
      <3>2. CASE s \notin gone
        <4>1. Mirrored(s)
          BY <1>b, <2>1, <2>3, <3>2 DEF InWork
        <4> QED
          BY <2>1, <2>2, <3>2, <4>1 DEF Mirrored
      <3> QED
        BY <3>1, <3>2
    <2> QED
      BY <1>d, <2>1, <2>4
  <1>5. CASE RemoveNetwork(w) \/ DeleteNetworkRecord(w) \/ CommitDelete(w)
    <2>1. /\ pc[w] \in {"dnet", "dnetrec", "dcommit"}
          /\ UNCHANGED <<docker, rec, job, todo>>
      BY <1>5 DEF RemoveNetwork, DeleteNetworkRecord, CommitDelete, outside, redis, local
    <2> QED
      BY <1>b, <1>d, <2>1 DEF InWork, Mirrored
  <1> QED
    BY <1>1, <1>2, <1>3, <1>4, <1>5 DEF DeleteStep

\* Steps that start no operation and touch no container leave the mirror as it is.
LEMMA OtherMirror ==
    ASSUME MInv, SameIds, UNCHANGED <<slot, node, job, todo>>, Clean,
           \A v \in Worker : pc'[v] = pc[v]
    PROVE  MirrorInv' /\ GoneInv'
  <1>1. ASSUME NEW v \in Worker, pc'[v] \in DeletePC,
               NEW s \in Wanted(job'[v]) \ todo'[v]
        PROVE  docker'[s] = None
    <2>1. s \in Slot /\ docker[s] = None
      BY <1>1 DEF MInv, GoneInv, Wanted
    <2> QED
      BY <2>1 DEF SameIds
  <1>2. ASSUME NEW s \in Slot \ RefusedSlots
        PROVE  Mirrored(s)' \/ \E v \in Worker : InWork(v, s)'
    <2>1. Mirrored(s) \/ \E v \in Worker : InWork(v, s)
      BY DEF MInv, MirrorInv
    <2>2. \A v \in Worker : InWork(v, s) => InWork(v, s)'
      BY DEF InWork
    <2> QED
      BY <2>1, <2>2, SameMirror
  <1> QED
    BY <1>1, <1>2 DEF GoneInv, MirrorInv

\* Requests and the lock: nothing is in work outside of the mutex.
LEMMA EntryMirror ==
    ASSUME MInv, NEW w \in Worker, Request(w) \/ Lock(w), Clean
    PROVE  MirrorInv' /\ GoneInv'
  <1>a. TypeOK /\ ControlInv
    BY DEF MInv, IInv
  <1>1. /\ SameIds /\ UNCHANGED <<slot, node>>
        /\ \A v \in Worker \ {w} : pc'[v] = pc[v] /\ job'[v] = job[v] /\ todo'[v] = todo[v]
    BY <1>a DEF Request, CallApply, CallDelete, SaveManifestFromFile, Done, Lock, SameIds,
                outside, redis, local, Goto, TypeOK
  <1>2. /\ pc[w] \notin HoldsMu
        /\ \/ pc'[w] \notin HoldsMu
           \/ pc'[w] \in {"node", "dnode"} /\ todo'[w] = Wanted(job'[w])
    BY <1>a, ControlStates
       DEF Request, CallApply, CallDelete, SaveManifestFromFile, Done, Lock, Goto, TypeOK
  <1> USE ControlStates, ApplyStates
  <1>3. ASSUME NEW v \in Worker, pc'[v] \in DeletePC,
               NEW s \in Wanted(job'[v]) \ todo'[v]
        PROVE  docker'[s] = None
    <2>1. v # w
      BY <1>2, <1>3
    <2>2. s \in Slot /\ docker[s] = None
      BY <1>1, <1>3, <2>1 DEF MInv, GoneInv, Wanted
    <2> QED
      BY <1>1, <2>2 DEF SameIds
  <1>4. ASSUME NEW s \in Slot \ RefusedSlots
        PROVE  Mirrored(s)' \/ \E v \in Worker : InWork(v, s)'
    <2>1. Mirrored(s) \/ \E v \in Worker : InWork(v, s)
      BY DEF MInv, MirrorInv
    <2>2. ~InWork(w, s)
      BY <1>2 DEF InWork
    <2>3. \A v \in Worker \ {w} : InWork(v, s) => InWork(v, s)'
      BY <1>1 DEF InWork
    <2> QED
      BY <1>1, <2>1, <2>2, <2>3, SameMirror
  <1> QED
    BY <1>3, <1>4 DEF GoneInv, MirrorInv

\* The surroundings of a clean run: exits of containers, the reconciler, and
\* processes that end between two requests.
LEMMA OutsideMirror ==
    ASSUME MInv, Outside, Clean, Clean'
    PROVE  MirrorInv' /\ GoneInv'
  <1>a. TypeOK
    BY DEF MInv, IInv
  <1>1. CASE \E s \in Slot : ContainerExit(s) \/ StartStopped(s)
    <2>1. SameIds /\ UNCHANGED <<slot, node, job, todo, pc>>
      BY <1>1, <1>a, RunningIds DEF ContainerExit, StartStopped, redis, local
    <2> QED
      BY <2>1, OtherMirror
  <1>2. CASE Interrupt \/ Kill
    BY <1>2, <1>a DEF Interrupt, Kill, Clean, TypeOK
  <1>3. CASE Exit
    <2>1. /\ UNCHANGED <<docker, rec>>
          /\ \A v \in Worker : pc[v] = "idle" /\ pc'[v] = "idle"
      BY <1>3 DEF Exit, FreshProcess, outside, redis
    <2>2. \A v \in Worker, s \in Slot : ~InWork(v, s)
      BY <2>1, ApplyStates DEF InWork
    <2>3. \A s \in Slot \ RefusedSlots : Mirrored(s) /\ Mirrored(s)'
      BY <2>1, <2>2 DEF MInv, MirrorInv, Mirrored
    <2> QED
      BY <2>1, <2>3, ApplyStates DEF MirrorInv, GoneInv
  <1> QED
    BY <1>1, <1>2, <1>3 DEF Outside

\* Every step preserves the mirror.
LEMMA NextMirror == MInv /\ [Next]_vars => MInv'
  <1> SUFFICES ASSUME MInv, [Next]_vars PROVE MInv'
    OBVIOUS
  <1>a. IInv' /\ HandInv' /\ CacheInv'
    BY NextProgress, NextHandCache DEF MInv
  <1>1. CASE UNCHANGED vars
    <2>1. CancelInv' /\ (Clean' => Clean)
      BY <1>1 DEF MInv, CancelInv, Clean, vars
    <2>2. SameIds /\ UNCHANGED <<slot, node, job, todo, pc>>
      BY <1>1 DEF SameIds, vars
    <2>3. Clean => MirrorInv' /\ GoneInv'
      BY <2>2, OtherMirror
    <2> QED
      BY <1>a, <2>1, <2>3 DEF MInv, MirrorInv, GoneInv
  <1>2. CASE Next
    <2>1. TypeOK /\ CancelInv
      BY DEF MInv, IInv
    <2>2. CancelInv' /\ (Clean' => Clean)
      BY <1>2, <2>1, NextCancel, CleanPast
    <2>3. ASSUME NEW w \in Worker, ApplyStep(w), Clean, Clean' PROVE MirrorInv' /\ GoneInv'
      <3>1. pc'[w] \notin DeletePC /\ \A v \in Worker \ {w} : pc'[v] \notin HoldsMu
        <4>1. /\ mu = w /\ TypeOK /\ ControlInv /\ TypeOK'
              /\ \A v \in Worker \ {w} : pc'[v] = pc[v]
          BY <2>3, ApplyControl DEF MInv, IInv
        <4>2. \A v \in Worker \ {w} : pc[v] \notin HoldsMu
          BY <4>1 DEF ControlInv, Control
        <4>3. pc'[w] \notin DeletePC
          BY <2>3, ApplyLeavesDelete DEF MInv
        <4> QED
          BY <4>1, <4>2, <4>3
      <3>2. GoneInv'
        BY <3>1, ControlStates, ApplyStates DEF GoneInv
      <3> QED
        BY <2>3, <3>2, ApplyMirror
    <2>4. Clean /\ Clean' => MirrorInv' /\ GoneInv'
      BY <1>2, <2>3, DeleteMirror, EntryMirror, OutsideMirror DEF Next, EngineStep
    <2> QED
      BY <1>a, <2>2, <2>4 DEF MInv, MirrorInv, GoneInv
  <1> QED
    BY <1>1, <1>2

\* The mirror at the start: nothing in Docker, nothing in Redis.
LEMMA InitMirror == Init => MInv
  <1>1. Init => CancelInv /\ GoneInv /\ MirrorInv
    BY ApplyStates DEF Init, CancelInv, GoneInv, MirrorInv, Mirrored
  <1> QED
    BY <1>1, InitIInv, InitHandCache DEF MInv

\* Without faults and crashes, between two operations every container that Docker
\* does not refuse has a record with its current ID, and only containers have records.
THEOREM RedisIsMirror == Spec => []RedisMirrorsDocker
  <1>1. MInv => RedisMirrorsDocker
    <2> SUFFICES ASSUME MInv, mu = None, Clean, NEW s \in Slot \ RefusedSlots
             PROVE  Mirrored(s)
      BY DEF RedisMirrorsDocker, Clean, Mirrored
    <2>1. \A w \in Worker : pc[w] \notin HoldsMu
      BY NoneFacts DEF MInv, IInv, ControlInv, Control
    <2>2. \A w \in Worker : ~InWork(w, s)
      BY <2>1, ControlStates, ApplyStates DEF InWork
    <2> QED
      BY <2>2 DEF MInv, MirrorInv
  <1> QED
    BY <1>1, InitMirror, NextMirror, PTL DEF Spec
-----------------------------------------------------------------------------
(* Every operation moves on. *)

\* What a worker's control state says of the work it has left: who has the mutex
\* is in an operation, a loop is entered with something to do, and only a turn of
\* the container loop has an ID in a variable.
Turn(w) ==
    /\ mu = w => pc[w] \in HoldsMu
    /\ pc[w] \in {"node", "dnode"} => todo[w] # {}
    /\ pc[w] \in {"netrec", "files", "inspect", "dstop"} => OnNode(todo[w], node[w]) # {}
    /\ pc[w] \notin ApplySlotPC => cid[w] = None

TurnInv == \A w \in Worker : Turn(w)

\* A step of worker w leaves the others' variables alone.
Alone(w) ==
    \A v \in Worker \ {w} :
        /\ pc'[v] = pc[v] /\ todo'[v] = todo[v]
        /\ node'[v] = node[v] /\ cid'[v] = cid[v]

LEMMA TurnFrame ==
    ASSUME TurnInv, NEW w \in Worker, Turn(w)', mu' \in {w, mu, None}, Alone(w)
    PROVE  TurnInv'
  <1> SUFFICES ASSUME NEW v \in Worker, v # w PROVE Turn(v)'
    BY DEF TurnInv
  <1>1. Turn(v) /\ (mu' = v => mu = v)
    BY NoneFacts DEF TurnInv
  <1>2. /\ pc'[v] = pc[v] /\ todo'[v] = todo[v]
        /\ node'[v] = node[v] /\ cid'[v] = cid[v]
    BY DEF Alone
  <1> QED
    BY <1>1, <1>2 DEF Turn

\* The end of a slot's turn: something is left for the loop it goes back to, and
\* less than before.
LEMMA EndSlotTurn ==
    ASSUME TypeOK, ControlInv, NEW w \in Worker, pc[w] \in ApplyNodePC,
           NEW s \in todo[w], NEW failed \in BOOLEAN, EndSlot(w, s, failed),
           UNCHANGED <<mu, node>>
    PROVE  Turn(w)' /\ Alone(w) /\ Advances(w)
  <1>1. /\ pc' = [pc EXCEPT ![w] = ApplyNext(todo[w] \ {s}, node[w])]
        /\ todo' = [todo EXCEPT ![w] = todo[w] \ {s}]
        /\ cid' = [cid EXCEPT ![w] = None]
    BY DEF EndSlot, Goto
  <1>2. /\ pc'[w] = ApplyNext(todo[w] \ {s}, node[w])
        /\ todo'[w] = todo[w] \ {s} /\ cid'[w] = None /\ node'[w] = node[w]
    BY <1>1 DEF TypeOK
  <1>3. pc'[w] \in {"inspect", "node", "services"}
    BY <1>2 DEF ApplyNext
  <1>4. /\ pc'[w] = "node" => todo'[w] # {}
        /\ pc'[w] = "inspect" => OnNode(todo'[w], node'[w]) # {}
    BY <1>2 DEF ApplyNext
  <1>5. Turn(w)'
    BY <1>2, <1>3, <1>4, ControlStates DEF Turn
  <1>6. Alone(w)
    BY <1>1 DEF Alone, TypeOK
  <1>7. Advances(w)
    BY <1>2, <1>3, ControlStates DEF Advances
  <1> QED
    BY <1>5, <1>6, <1>7

\* The end of a node's turn after an error.
LEMMA SkipNodeTurn ==
    ASSUME TypeOK, NEW w \in Worker, NEW n, SkipNode(w, n), OnNode(todo[w], n) # {},
           cid[w] = None, UNCHANGED <<mu, cid>>,
           \A v \in Worker \ {w} : node'[v] = node[v]
    PROVE  Turn(w)' /\ Alone(w) /\ Advances(w)
  <1> DEFINE rest == todo[w] \ OnNode(todo[w], n)
  <1>1. /\ pc' = [pc EXCEPT ![w] = ApplyNext(rest, n)]
        /\ todo' = [todo EXCEPT ![w] = rest]
    BY DEF SkipNode, Goto
  <1>2. pc'[w] = ApplyNext(rest, n) /\ todo'[w] = rest /\ cid'[w] = None
    BY <1>1 DEF TypeOK
  <1>3. OnNode(rest, n) = {} /\ OnNode(todo[w], n) \subseteq todo[w]
    BY DEF OnNode
  <1>4. pc'[w] \in {"node", "services"} /\ (pc'[w] = "node" => todo'[w] # {})
    BY <1>2, <1>3 DEF ApplyNext
  <1>5. todo'[w] \subseteq todo[w] /\ todo'[w] # todo[w]
    BY <1>2, <1>3
  <1>6. Turn(w)'
    BY <1>2, <1>4, ControlStates DEF Turn
  <1>7. Alone(w)
    BY <1>1 DEF Alone, TypeOK
  <1>8. Advances(w)
    BY <1>4, <1>5, ControlStates DEF Advances
  <1> QED
    BY <1>6, <1>7, <1>8

\* A step within a turn.
LEMMA StageTurn ==
    ASSUME TypeOK, NEW w \in Worker, pc[w] \in HoldsMu, NEW p \in HoldsMu, Goto(w, p),
           UNCHANGED <<mu, todo>>,
           \A v \in Worker \ {w} : node'[v] = node[v] /\ cid'[v] = cid[v],
           Stage[pc[w]] < Stage[p]
    PROVE  Alone(w) /\ Advances(w)
  <1>1. pc'[w] = p /\ \A v \in Worker \ {w} : pc'[v] = pc[v]
    BY DEF Goto, TypeOK
  <1> QED
    BY <1>1 DEF Alone, Advances

\* "return" unlocks.
LEMMA ReturnTurn ==
    ASSUME TypeOK, NEW w \in Worker, NEW result \in {"done", "failed"}, Return(w, result),
           cid[w] = None, UNCHANGED <<todo, cid>>
    PROVE  Turn(w)' /\ Alone(w) /\ Advances(w)
  <1>1. /\ pc'[w] = result /\ mu' = None
        /\ \A v \in Worker \ {w} : pc'[v] = pc[v] /\ node'[v] = node[v]
    BY DEF Return, Goto, TypeOK
  <1>2. result \notin HoldsMu /\ result \notin {"node", "dnode", "netrec", "files", "inspect", "dstop"}
    BY ControlStates
  <1> QED
    BY <1>1, <1>2, NoneFacts DEF Turn, Alone, Advances

\* Apply and its loops.
LEMMA ApplyTurn ==
    ASSUME TypeOK, ControlInv, TurnInv, NEW w \in Worker, ApplyStep(w)
    PROVE  TurnInv' /\ Advances(w)
  <1> DEFINE Framed == Turn(w)' /\ Alone(w) /\ Advances(w) /\ mu' \in {mu, None}
  <1> SUFFICES Framed
    BY TurnFrame
  <1>0. Control(w) /\ Turn(w) /\ mu = w
    BY ApplyControl DEF ControlInv, TurnInv
  <1> USE ControlStates
  <1>a. ASSUME pc[w] \in ApplySlotPC, NEW failed \in BOOLEAN, EndSlot(w, slot[w], failed),
               UNCHANGED <<mu, node>>
        PROVE  Framed
    <2>1. slot[w] \in todo[w] /\ pc[w] \in ApplyNodePC
      BY <1>0, <1>a DEF Control, OnNode
    <2> QED
      BY <1>a, <2>1, EndSlotTurn
  <1>b. ASSUME pc[w] \in ApplySlotPC, NEW p \in ApplySlotPC, Goto(w, p),
               UNCHANGED <<mu, todo, node>>, \A v \in Worker \ {w} : cid'[v] = cid[v],
               Stage[pc[w]] < Stage[p]
        PROVE  Framed
    <2>1. pc'[w] = p
      BY <1>b DEF Goto, TypeOK
    <2>2. Turn(w)'
      BY <1>b, <2>1 DEF Turn
    <2> QED
      BY <1>b, <2>2, StageTurn
  <1>1. ASSUME NEW n \in Node, EnsureNetwork(w, n) PROVE Framed
    <2>1. /\ pc[w] = "node" /\ OnNode(todo[w], n) # {} /\ UNCHANGED <<mu, cid>>
          /\ node'[w] = n /\ \A v \in Worker \ {w} : node'[v] = node[v]
      BY <1>1 DEF EnsureNetwork, TypeOK
    <2>2. cid[w] = None
      BY <1>0, <2>1 DEF Turn
    <2>3. CASE SkipNode(w, n)
      BY <2>1, <2>2, <2>3, SkipNodeTurn
    <2>4. CASE Goto(w, "netrec") /\ UNCHANGED todo
      <3>1. pc'[w] = "netrec"
        BY <2>4 DEF Goto, TypeOK
      <3>2. Turn(w)'
        BY <2>1, <2>2, <2>4, <3>1 DEF Turn
      <3>3. Stage["node"] < Stage["netrec"]
        BY DEF Stage
      <3> QED
        BY <2>1, <2>4, <3>2, <3>3, StageTurn
    <2> QED
      BY <1>1, <2>3, <2>4 DEF EnsureNetwork
  <1>2. ASSUME SaveNetwork(w) PROVE Framed
    <2>1. pc[w] = "netrec" /\ Goto(w, "files") /\ UNCHANGED <<mu, todo, node, cid>>
      BY <1>2 DEF SaveNetwork, local
    <2>2. pc'[w] = "files"
      BY <2>1 DEF Goto, TypeOK
    <2>3. Turn(w)'
      BY <1>0, <2>1, <2>2 DEF Turn
    <2>4. Stage["netrec"] < Stage["files"]
      BY DEF Stage
    <2> QED
      BY <2>1, <2>3, <2>4, StageTurn
  <1>3. ASSUME WriteFiles(w) PROVE Framed
    <2>1. pc[w] = "files" /\ UNCHANGED <<mu, node, cid>>
      BY <1>3 DEF WriteFiles
    <2>2. OnNode(todo[w], node[w]) # {} /\ cid[w] = None
      BY <1>0, <2>1 DEF Turn
    <2>3. CASE SkipNode(w, node[w])
      BY <2>1, <2>2, <2>3, SkipNodeTurn
    <2>4. CASE Goto(w, "inspect") /\ UNCHANGED todo
      <3>1. pc'[w] = "inspect"
        BY <2>4 DEF Goto, TypeOK
      <3>2. Turn(w)'
        BY <2>1, <2>2, <2>4, <3>1 DEF Turn
      <3>3. Stage["files"] < Stage["inspect"]
        BY DEF Stage
      <3> QED
        BY <2>1, <2>4, <3>2, <3>3, StageTurn
    <2> QED
      BY <1>3, <2>3, <2>4 DEF WriteFiles
  <1>4. ASSUME NEW s \in Slot, Inspect(w, s) PROVE Framed
    <2>1. pc[w] = "inspect" /\ s \in todo[w] /\ UNCHANGED <<mu, node>>
      BY <1>4 DEF Inspect, ApplyHead, OnNode
    <2>2. CASE EndSlot(w, s, TRUE)
      BY <2>1, <2>2, EndSlotTurn
    <2>3. CASE /\ IF docker[s] = None
                  THEN Goto(w, "create") /\ UNCHANGED cid
                  ELSE /\ cid' = [cid EXCEPT ![w] = docker[s].id]
                       /\ Goto(w, IF s[2] = NginxProxy \/ ~docker[s].running
                                  THEN "stop" ELSE "compare")
               /\ UNCHANGED todo
      <3>1. PICK p \in {"create", "stop", "compare"} : Goto(w, p)
        BY <2>3
      <3>2. pc'[w] = p /\ \A v \in Worker \ {w} : cid'[v] = cid[v]
        BY <2>3, <3>1 DEF Goto, TypeOK
      <3>3. Turn(w)'
        BY <3>2 DEF Turn
      <3>4. Stage["inspect"] < Stage[p]
        BY DEF Stage
      <3> QED
        BY <2>1, <2>3, <3>1, <3>2, <3>3, <3>4, StageTurn
    <2> QED
      BY <1>4, <2>2, <2>3 DEF Inspect
  <1>5. ASSUME Compare(w) PROVE Framed
    <2>1. pc[w] = "compare" /\ UNCHANGED <<mu, node>>
      BY <1>5 DEF Compare
    <2>2. Stage["compare"] < Stage["save"] /\ Stage["compare"] < Stage["stop"]
      BY DEF Stage
    <2>3. CASE EndSlot(w, slot[w], TRUE)
      BY <1>a, <2>1, <2>3
    <2>4. CASE (Goto(w, "save") \/ Goto(w, "stop")) /\ UNCHANGED <<todo, cid>>
      BY <1>b, <2>1, <2>2, <2>4
    <2> QED
      BY <1>5, <2>3, <2>4 DEF Compare
  <1>6. ASSUME StopContainer(w) PROVE Framed
    <2>1. pc[w] = "stop" /\ Goto(w, "remove") /\ UNCHANGED <<mu, todo, node, cid>>
      BY <1>6 DEF StopContainer, local
    <2>2. Stage["stop"] < Stage["remove"]
      BY DEF Stage
    <2> QED
      BY <1>b, <2>1, <2>2
  <1>7. ASSUME RemoveContainer(w) PROVE Framed
    <2>1. pc[w] = "remove" /\ UNCHANGED <<mu, node>>
      BY <1>7 DEF RemoveContainer
    <2>2. Stage["remove"] < Stage["create"]
      BY DEF Stage
    <2>3. CASE EndSlot(w, slot[w], TRUE)
      BY <1>a, <2>1, <2>3
    <2>4. CASE Goto(w, "create") /\ UNCHANGED <<todo, cid>>
      BY <1>b, <2>1, <2>2, <2>4
    <2> QED
      BY <1>7, <2>3, <2>4 DEF RemoveContainer
  <1>8. ASSUME CreateContainer(w) PROVE Framed
    <2>1. pc[w] = "create" /\ UNCHANGED <<mu, node>>
      BY <1>8 DEF CreateContainer
    <2>2. Stage["create"] < Stage["start"]
      BY DEF Stage
    <2>3. CASE EndSlot(w, slot[w], TRUE)
      BY <1>a, <2>1, <2>3
    <2>4. CASE /\ cid' = [cid EXCEPT ![w] = NewId(slot[w])]
               /\ Goto(w, "start") /\ UNCHANGED todo
      <3>1. \A v \in Worker \ {w} : cid'[v] = cid[v]
        BY <2>4 DEF TypeOK
      <3> QED
        BY <1>b, <2>1, <2>2, <2>4, <3>1
    <2> QED
      BY <1>8, <2>3, <2>4 DEF CreateContainer
  <1>9. ASSUME StartContainer(w) PROVE Framed
    <2>1. pc[w] = "start" /\ UNCHANGED <<mu, node>>
      BY <1>9 DEF StartContainer
    <2>2. Stage["start"] < Stage["state"]
      BY DEF Stage
    <2>3. CASE EndSlot(w, slot[w], TRUE)
      BY <1>a, <2>1, <2>3
    <2>4. CASE Goto(w, "state") /\ UNCHANGED <<todo, cid>>
      BY <1>b, <2>1, <2>2, <2>4
    <2> QED
      BY <1>9, <2>3, <2>4 DEF StartContainer
  <1>10. ASSUME GetContainerState(w) PROVE Framed
    <2>1. pc[w] = "state" /\ Goto(w, "save") /\ UNCHANGED <<mu, todo, node, cid>>
      BY <1>10 DEF GetContainerState, local
    <2>2. Stage["state"] < Stage["save"]
      BY DEF Stage
    <2> QED
      BY <1>b, <2>1, <2>2
  <1>11. ASSUME SaveContainer(w) PROVE Framed
    <2>1. pc[w] = "save" /\ UNCHANGED <<mu, node>>
      BY <1>11 DEF SaveContainer
    <2>2. PICK failed \in BOOLEAN : EndSlot(w, slot[w], failed)
      BY <1>11 DEF SaveContainer
    <2> QED
      BY <1>a, <2>1, <2>2
  <1>12. ASSUME SaveServices(w) PROVE Framed
    <2>1. pc[w] = "services" /\ UNCHANGED <<todo, cid>>
      BY <1>12 DEF SaveServices
    <2>2. cid[w] = None
      BY <1>0, <2>1 DEF Turn
    <2>3. CASE Return(w, "failed")
      BY <2>1, <2>2, <2>3, ReturnTurn DEF Return
    <2>4. CASE Goto(w, "commit") /\ UNCHANGED <<mu, node>>
      <3>1. pc'[w] = "commit"
        BY <2>4 DEF Goto, TypeOK
      <3>2. Turn(w)'
        BY <2>1, <2>2, <3>1 DEF Turn
      <3>3. Stage["services"] < Stage["commit"]
        BY DEF Stage
      <3> QED
        BY <2>1, <2>4, <3>2, <3>3, StageTurn
    <2> QED
      BY <1>12, <2>3, <2>4 DEF SaveServices
  <1>13. ASSUME CommitApply(w) PROVE Framed
    <2>1. pc[w] = "commit" /\ UNCHANGED <<todo, cid>>
      BY <1>13 DEF CommitApply
    <2>2. PICK result \in {"done", "failed"} : Return(w, result)
      BY <1>13 DEF CommitApply
    <2>3. cid[w] = None
      BY <1>0, <2>1 DEF Turn
    <2> QED
      BY <2>1, <2>2, <2>3, ReturnTurn DEF Return
  <1> QED
    BY <1>1, <1>2, <1>3, <1>4, <1>5, <1>6, <1>7, <1>8, <1>9, <1>10, <1>11, <1>12, <1>13
       DEF ApplyStep

\* Delete and its loops.
LEMMA DeleteTurn ==
    ASSUME TypeOK, ControlInv, TurnInv, NEW w \in Worker, DeleteStep(w)
    PROVE  TurnInv' /\ Advances(w)
  <1> DEFINE Framed == Turn(w)' /\ Alone(w) /\ Advances(w) /\ mu' \in {mu, None}
  <1> SUFFICES Framed
    BY TurnFrame
  <1>0. Control(w) /\ Turn(w) /\ mu = w
    BY DeleteControl DEF ControlInv, TurnInv
  <1> USE ControlStates
  <1>a. pc[w] \in DeletePC => cid[w] = None
    BY <1>0, ApplyStates DEF Turn
  <1>1. ASSUME NEW n \in Node, DeleteNode(w, n) PROVE Framed
    <2>1. /\ pc[w] = "dnode" /\ OnNode(todo[w], n) # {} /\ UNCHANGED <<mu, todo, cid>>
          /\ node' = [node EXCEPT ![w] = n] /\ Goto(w, "dstop")
      BY <1>1 DEF DeleteNode
    <2>2. /\ pc'[w] = "dstop" /\ node'[w] = n
          /\ \A v \in Worker \ {w} : node'[v] = node[v]
      BY <2>1 DEF Goto, TypeOK
    <2>3. Turn(w)'
      BY <1>a, <2>1, <2>2, ApplyStates DEF Turn
    <2>4. Stage["dnode"] < Stage["dstop"]
      BY DEF Stage
    <2> QED
      BY <2>1, <2>2, <2>3, <2>4, StageTurn
  <1>2. ASSUME NEW s \in Slot, DeleteStop(w, s) PROVE Framed
    <2>1. pc[w] = "dstop" /\ Goto(w, "dremove") /\ UNCHANGED <<mu, todo, node, cid>>
      BY <1>2 DEF DeleteStop
    <2>2. pc'[w] = "dremove"
      BY <2>1 DEF Goto, TypeOK
    <2>3. Turn(w)'
      BY <1>a, <2>1, <2>2, ApplyStates DEF Turn
    <2>4. Stage["dstop"] < Stage["dremove"]
      BY DEF Stage
    <2> QED
      BY <2>1, <2>3, <2>4, StageTurn
  <1>3. ASSUME DeleteRemove(w) PROVE Framed
    <2> DEFINE rest == todo[w] \ {slot[w]}
    <2>1. /\ pc[w] = "dremove" /\ UNCHANGED <<mu, node, cid>>
          /\ todo' = [todo EXCEPT ![w] = rest] /\ Goto(w, DeleteNext(rest, node[w]))
      BY <1>3 DEF DeleteRemove
    <2>2. slot[w] \in todo[w]
      BY <1>0, <2>1 DEF Control, OnNode
    <2>3. /\ pc'[w] = DeleteNext(rest, node[w]) /\ todo'[w] = rest
          /\ \A v \in Worker \ {w} : pc'[v] = pc[v] /\ todo'[v] = todo[v]
      BY <2>1 DEF Goto, TypeOK
    <2>4. /\ pc'[w] \in {"dstop", "drecords"}
          /\ pc'[w] = "dstop" => OnNode(todo'[w], node'[w]) # {}
      BY <2>1, <2>3 DEF DeleteNext
    <2>5. Turn(w)'
      BY <1>a, <2>1, <2>4, ApplyStates DEF Turn
    <2>6. Alone(w)
      BY <2>1, <2>3 DEF Alone
    <2>7. Advances(w)
      BY <2>2, <2>3, <2>4 DEF Advances
    <2> QED
      BY <2>1, <2>5, <2>6, <2>7
  <1>4. ASSUME DeleteRecords(w) PROVE Framed
    <2>1. pc[w] = "drecords" /\ Goto(w, "dnet") /\ UNCHANGED <<mu, todo, node, cid>>
      BY <1>4 DEF DeleteRecords, local
    <2>2. pc'[w] = "dnet"
      BY <2>1 DEF Goto, TypeOK
    <2>3. Turn(w)'
      BY <1>a, <2>1, <2>2, ApplyStates DEF Turn
    <2>4. Stage["drecords"] < Stage["dnet"]
      BY DEF Stage
    <2> QED
      BY <2>1, <2>3, <2>4, StageTurn
  <1>5. ASSUME RemoveNetwork(w) PROVE Framed
    <2>1. pc[w] = "dnet" /\ Goto(w, "dnetrec") /\ UNCHANGED <<mu, todo, node, cid>>
      BY <1>5 DEF RemoveNetwork, local
    <2>2. pc'[w] = "dnetrec"
      BY <2>1 DEF Goto, TypeOK
    <2>3. Turn(w)'
      BY <1>a, <2>1, <2>2, ApplyStates DEF Turn
    <2>4. Stage["dnet"] < Stage["dnetrec"]
      BY DEF Stage
    <2> QED
      BY <2>1, <2>3, <2>4, StageTurn
  <1>6. ASSUME DeleteNetworkRecord(w) PROVE Framed
    <2>1. pc[w] = "dnetrec" /\ cid[w] = None /\ UNCHANGED <<todo, cid>>
      BY <1>6, <1>a, ApplyStates DEF DeleteNetworkRecord
    <2>2. CASE Return(w, "failed")
      BY <2>1, <2>2, ReturnTurn DEF Return
    <2>3. CASE /\ (Goto(w, "dnode") /\ todo[w] # {}) \/ Goto(w, "dcommit")
               /\ UNCHANGED <<mu, node>>
      <3>1. PICK p \in {"dnode", "dcommit"} : Goto(w, p) /\ (p = "dnode" => todo[w] # {})
        BY <2>3
      <3>2. pc'[w] = p
        BY <3>1 DEF Goto, TypeOK
      <3>3. Turn(w)'
        BY <2>1, <3>1, <3>2, ApplyStates DEF Turn
      <3>4. Stage["dnetrec"] < Stage[p]
        BY DEF Stage
      <3> QED
        BY <2>1, <2>3, <3>1, <3>3, <3>4, StageTurn
    <2> QED
      BY <1>6, <2>2, <2>3 DEF DeleteNetworkRecord
  <1>7. ASSUME CommitDelete(w) PROVE Framed
    <2>1. pc[w] = "dcommit" /\ cid[w] = None /\ UNCHANGED <<todo, cid>>
      BY <1>7, <1>a, ApplyStates DEF CommitDelete
    <2>2. PICK result \in {"done", "failed"} : Return(w, result)
      BY <1>7 DEF CommitDelete
    <2> QED
      BY <2>1, <2>2, ReturnTurn DEF Return
  <1> QED
    BY <1>1, <1>2, <1>3, <1>4, <1>5, <1>6, <1>7 DEF DeleteStep

\* Every manifest has a container to begin with: a node's dnsmasq.
LEMMA WantedSome ==
    ASSUME NEW m \in Manifest
    PROVE  Wanted(m) # {}
  <1>1. PICK n \in NodesOf[m] : n \in Node
    BY ManifestAssumption
  <1>2. <<n, Dnsmasq>> \in Wanted(m)
    BY <1>1, NamesAssumption DEF Wanted, Slot, Name
  <1> QED
    BY <1>2

\* Requests, the lock and the surroundings.
LEMMA OtherTurn ==
    ASSUME TypeOK, ControlInv, TurnInv,
           (\E w \in Worker : Request(w) \/ Lock(w)) \/ Outside
    PROVE  TurnInv'
  <1> USE ControlStates
  <1>1. ASSUME NEW w \in Worker, Request(w) PROVE TurnInv'
    <2>1. /\ UNCHANGED <<mu, todo, node, cid>> /\ pc[w] \notin HoldsMu
          /\ \A v \in Worker \ {w} : pc'[v] = pc[v]
          /\ pc'[w] \in {"lockApply", "lockDelete", "idle"}
      BY <1>1 DEF Request, CallApply, CallDelete, SaveManifestFromFile, Done, TypeOK, Goto, local
    <2>2. Turn(w)'
      BY <2>1 DEF TurnInv, Turn
    <2> QED
      BY <2>1, <2>2, TurnFrame DEF Alone
  <1>2. ASSUME NEW w \in Worker, Lock(w) PROVE TurnInv'
    <2>1. /\ mu' = w /\ UNCHANGED <<node, cid>> /\ pc[w] \in {"lockApply", "lockDelete"}
          /\ todo' = [todo EXCEPT ![w] = Wanted(job[w])]
          /\ \A v \in Worker \ {w} : pc'[v] = pc[v]
          /\ pc'[w] \in {"node", "dnode"}
      BY <1>2 DEF Lock, TypeOK, Goto
    <2>2. todo'[w] # {} /\ \A v \in Worker \ {w} : todo'[v] = todo[v]
      <3>1. job[w] \in Manifest
        BY <2>1 DEF ControlInv, Control
      <3> QED
        BY <2>1, <3>1, WantedSome DEF TypeOK
    <2>3. Turn(w)'
      BY <2>1, <2>2 DEF TurnInv, Turn
    <2> QED
      BY <2>1, <2>2, <2>3, TurnFrame DEF Alone
  <1>3. ASSUME NEW s \in Slot, ContainerExit(s) \/ StartStopped(s) PROVE TurnInv'
    BY <1>3 DEF ContainerExit, StartStopped, local, TurnInv, Turn
  <1>4. ASSUME Interrupt PROVE TurnInv'
    BY <1>4 DEF Interrupt, local, TurnInv, Turn
  <1>5. ASSUME Exit \/ Kill PROVE TurnInv'
    <2>1. FreshProcess
      BY <1>5 DEF Exit, Kill
    <2> QED
      BY <2>1, IdlePC, NoneFacts DEF FreshProcess, TurnInv, Turn
  <1> QED
    BY <1>1, <1>2, <1>3, <1>4, <1>5 DEF Outside

LEMMA NextTurn ==
    ASSUME TypeOK, ControlInv, TurnInv, [Next]_vars
    PROVE  TurnInv'
  <1>1. CASE UNCHANGED vars
    BY <1>1 DEF vars, TurnInv, Turn
  <1>2. CASE Next
    BY <1>2, ApplyTurn, DeleteTurn, OtherTurn DEF Next, EngineStep
  <1> QED
    BY <1>1, <1>2

LEMMA InitTurn == Init => TurnInv
  BY ControlStates, NoneFacts DEF Init, TurnInv, Turn

\* Whatever Docker and Redis answer, every call brings Apply or Delete nearer to
\* its return: the containers left become fewer, or their number stays and a later
\* stage begins.  Both orders are well-founded where nodes and containers are
\* finitely many, so that no operation goes on for ever.
THEOREM OperationsAdvance == Spec => CallsAdvance
  <1> DEFINE I == IInv /\ TurnInv
  <1>1. Init => I
    BY InitIInv, InitTurn
  <1>2. I /\ [Next]_vars => I'
    BY NextProgress, NextTurn DEF IInv
  <1>3. I /\ [Next]_vars =>
            [\A w \in Worker : ApplyStep(w) \/ DeleteStep(w) => Advances(w)]_vars
    BY ApplyTurn, DeleteTurn DEF IInv
  <1> HIDE DEF I
  <1> QED
    BY <1>1, <1>2, <1>3, PTL DEF Spec, CallsAdvance

\* Of the containers a node has left, one comes first.
LEMMA FirstOne ==
    ASSUME NEW w, OnNode(todo[w], node[w]) # {}
    PROVE  ApplyHead(w) # {} /\ DeleteHead(w) # {}
  <1> DEFINE here == OnNode(todo[w], node[w])
  <1>1. \A s : ApplyRank(s) \in 1..3 /\ DeleteRank(s) \in 1..3
    BY DEF ApplyRank, DeleteRank
  <1>2. \E s \in here : \A t \in here : ApplyRank(s) <= ApplyRank(t)
    <2>1. CASE \E s \in here : ApplyRank(s) = 1
      BY <1>1, <2>1
    <2>2. CASE (\A s \in here : ApplyRank(s) # 1) /\ \E s \in here : ApplyRank(s) = 2
      BY <1>1, <2>2
    <2>3. CASE \A s \in here : ApplyRank(s) \notin {1, 2}
      BY <1>1, <2>3
    <2> QED
      BY <2>1, <2>2, <2>3
  <1>3. \E s \in here : \A t \in here : DeleteRank(s) <= DeleteRank(t)
    <2>1. CASE \E s \in here : DeleteRank(s) = 1
      BY <1>1, <2>1
    <2>2. CASE (\A s \in here : DeleteRank(s) # 1) /\ \E s \in here : DeleteRank(s) = 2
      BY <1>1, <2>2
    <2>3. CASE \A s \in here : DeleteRank(s) \notin {1, 2}
      BY <1>1, <2>3
    <2> QED
      BY <2>1, <2>2, <2>3
  <1> QED
    BY <1>2, <1>3 DEF ApplyHead, DeleteHead

\* Whoever has the mutex has a next step: it was not kept by a return, and every
\* loop has something to do.
THEOREM HolderGoesOn == Spec => []NeverStuck
  <1> DEFINE I == IInv /\ HandInv /\ CacheInv /\ TurnInv
  <1>1. Init => I
    BY InitIInv, InitHandCache, InitTurn
  <1>2. I /\ [Next]_vars => I'
    BY NextProgress, NextHandCache, NextTurn DEF IInv
  <1>3. I => NeverStuck
    <2> SUFFICES ASSUME I, mu # None
                 PROVE  /\ pc[mu] \in HoldsMu
                        /\ pc[mu] \in {"node", "dnode"} =>
                              \E n \in Node : OnNode(todo[mu], n) # {}
                        /\ pc[mu] = "inspect" => ApplyHead(mu) # {}
                        /\ pc[mu] = "create" => \E id \in Id : Fresh(slot[mu], id)
                        /\ pc[mu] = "dstop" => DeleteHead(mu) # {}
      BY DEF NeverStuck
    <2>1. PICK w \in Worker : w = mu
      BY DEF IInv, TypeOK
    <2>2. TypeOK /\ Control(w) /\ Turn(w) /\ InHand(w)
      BY DEF IInv, ControlInv, TurnInv, HandInv
    <2>3. pc[w] \in HoldsMu
      BY <2>1, <2>2 DEF Turn
    <2>4. pc[w] \in {"node", "dnode"} => \E n \in Node : OnNode(todo[w], n) # {}
      <3> SUFFICES ASSUME pc[w] \in {"node", "dnode"}
                   PROVE  \E n \in Node : OnNode(todo[w], n) # {}
        OBVIOUS
      <3>1. PICK s : s \in todo[w] /\ s \in Slot
        BY <2>2 DEF Turn, TypeOK
      <3>2. s[1] \in Node /\ s \in OnNode(todo[w], s[1])
        BY <3>1 DEF Slot, OnNode
      <3> QED
        BY <3>2
    <2>5. pc[w] \in {"inspect", "dstop"} => ApplyHead(w) # {} /\ DeleteHead(w) # {}
      BY <2>2, FirstOne DEF Turn
    <2>6. pc[w] = "create" => \E id \in Id : Fresh(slot[w], id)
      <3> SUFFICES ASSUME pc[w] = "create"
                   PROVE  \E id \in Id : Fresh(slot[w], id)
        OBVIOUS
      <3>1. slot[w] \in Slot /\ docker[slot[w]] = None
        BY <2>2, ControlStates DEF Control, OnNode, TypeOK, InHand
      <3>2. rec[slot[w]] \in Id \cup {None} /\ cid[w] \in Id \cup {None}
        BY <2>2, <3>1 DEF TypeOK
      <3>3. PICK id \in Id : id \notin {rec[slot[w]], cid[w]}
        BY <3>2, IdAssumption
      <3>4. \A v \in Worker \ {w} : cid[v] = None
        <4>1. \A v \in Worker \ {w} : pc[v] \notin HoldsMu /\ Turn(v)
          BY <2>1 DEF IInv, ControlInv, Control, TurnInv
        <4> QED
          BY <4>1, ControlStates DEF Turn
      <3>5. ~Exists(slot[w], id) /\ \A v \in Worker : cid[v] # id
        BY <3>1, <3>3, <3>4, NoneFacts DEF Exists
      <3> QED
        BY <3>3, <3>5 DEF Fresh
    <2> QED
      BY <2>1, <2>3, <2>4, <2>5, <2>6
  <1> HIDE DEF I
  <1> QED
    BY <1>1, <1>2, <1>3, PTL DEF Spec
=============================================================================
