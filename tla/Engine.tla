------------------------------- MODULE Engine -------------------------------
(***************************************************************************)
(* engine.Engine: Apply and Delete of one KLite process, call by call.     *)
(*                                                                         *)
(* Each goroutine that calls the engine (an HTTP handler of the web        *)
(* server, or the main goroutine of "klite apply" and "klite delete") is a *)
(* Worker.  A step of a worker is one call to Docker or to Redis together  *)
(* with the local code up to the next call: between two calls the          *)
(* reconciler, Docker itself and the other workers may move.  Every call   *)
(* may succeed, fail, or take effect while its reply is lost; Docker may   *)
(* refuse to create a network and to create or start a container.          *)
(*                                                                         *)
(* A slot <<n, c>> is the container name klite-n-c (buildContainerName).   *)
(***************************************************************************)
EXTENDS Naturals

CONSTANTS
    Node,          \* node names
    App,           \* names of user containers
    Dnsmasq,       \* dns.DnsmasqContainerName
    NginxProxy,    \* proxy.NginxContainerName
    Manifest,      \* manifests that pass config.validate
    NodesOf,       \* NodesOf[m]: the nodes of manifest m
    AppSpec,       \* AppSpec[m][<<n, a>>]: spec of a user container, or None
    ServicesOf,    \* ServicesOf[m]: the services of manifest m
    Service,
    Uploads,       \* manifests the web server may store ahead of an Apply
    ContainerSpec, \* specs of user containers
    Matches,       \* pairs <<wanted, actual>> that SpecMatches accepts
    Id,            \* Docker container IDs, per slot
    Worker,
    None,          \* nil, "not found", "no such container"
    RefusedNets,   \* nodes of which Docker may refuse to create the network
    RefusedSlots,  \* slots of which it may refuse to create or start the container
    MaxFaults,     \* bound: how many calls may fail or lose their reply
    MaxCrashes     \* bound: how often the process is killed or interrupted

Name == App \cup {Dnsmasq, NginxProxy}
Slot == Node \X Name

OnNode(S, n) == {s \in S : s[1] = n}

\* The containers of manifest m: injectRoutingContainers puts dnsmasq and
\* nginx-proxy on every node.
Wanted(m) ==
    {s \in Slot : /\ s[1] \in NodesOf[m]
                  /\ s[2] \in App => AppSpec[m][s] # None}

\* Mutant of SpecFor: nginx-proxy is injected without its spec.
SpecForNoProxy(m, s) ==
    IF s[2] = Dnsmasq THEN Dnsmasq
    ELSE IF s[2] = NginxProxy THEN None ELSE AppSpec[m][s]

\* What each container is created from.  The spec of dnsmasq depends on the
\* node alone, the published ports of nginx-proxy on the whole manifest.
SpecFor(m, s) ==
    IF s[2] = Dnsmasq THEN Dnsmasq
    ELSE IF s[2] = NginxProxy THEN m ELSE AppSpec[m][s]

AnySpec == ContainerSpec \cup Manifest \cup {Dnsmasq}

\* "running" is the one status the code tells apart; "loaded" names the manifest
\* whose hosts file or nginx.conf the container read when it last started.
Container == [id : Id, spec : AnySpec, running : BOOLEAN,
              loaded : Manifest \cup {None}]

ASSUME NamesAssumption == /\ Dnsmasq \notin App
                          /\ NginxProxy \notin App
                          /\ Dnsmasq # NginxProxy
ASSUME NoneAssumption == None \notin
            Node \cup App \cup Slot \cup Manifest \cup ContainerSpec \cup Id
                 \cup Worker \cup Container \cup {Dnsmasq, NginxProxy}
ASSUME ManifestAssumption ==
    /\ NodesOf \in [Manifest -> (SUBSET Node) \ {{}}]
    /\ AppSpec \in [Manifest -> [Node \X App -> ContainerSpec \cup {None}]]
    /\ ServicesOf \in [Manifest -> SUBSET Service]
    /\ Uploads \subseteq Manifest
\* A container created from a spec matches that spec: SpecMatches looks for what
\* CreateContainer put in.  (A volume listed twice would fail volumesMatch, but
\* Docker refuses to create such a container.)
ASSUME MatchesAssumption == \A x \in AnySpec : <<x, x>> \in Matches
ASSUME RefusalAssumption == RefusedNets \subseteq Node /\ RefusedSlots \subseteq Slot
ASSUME BoundsAssumption == MaxFaults \in Nat /\ MaxCrashes \in Nat
\* Docker has an ID for a new container, whatever ID a record and a variable hold.
ASSUME IdAssumption == \A a, b \in Id \cup {None} : \E id \in Id : id \notin {a, b}

VARIABLES
    docker,     \* slot -> the container of that name, or None
    net,        \* nodes whose Docker network exists
    conf,       \* node -> manifest its config files were last written for
    rec,        \* Redis klite:containers: slot -> container ID, or None
    netRec,     \* Redis klite:networks: nodes with a record
    svcRec,     \* Redis klite:services: services with a record
    stored,     \* Redis klite:manifests:active
    netCache,   \* network.Manager.nodeNetworks of this process
    mu,         \* Engine.mu: the worker that holds it, or None
    pc,         \* worker -> where it is in Apply or Delete
    job,        \* worker -> the manifest argument
    todo,       \* worker -> slots of the job it has not dealt with yet
    node,       \* worker -> loop variable of the node loop
    slot,       \* worker -> loop variable of the container loop
    cid,        \* worker -> existing.ID or containerState.ID
    errs,       \* worker -> len(errs) > 0
    cancelled,  \* the context of this process is cancelled (SIGINT)
    faults,     \* calls that failed or lost their reply so far
    crashes     \* kills and interrupts so far

outside == <<docker, net, conf>>
redis == <<rec, netRec, svcRec, stored>>
local == <<todo, node, slot, cid>>
counters == <<cancelled, crashes>>
vars == <<docker, net, conf, rec, netRec, svcRec, stored, netCache, mu, pc, job,
          todo, node, slot, cid, errs, cancelled, faults, crashes>>

ApplySlotPC == {"compare", "stop", "remove", "create", "start", "state", "save"}
ApplyNodePC == {"netrec", "files", "inspect"} \cup ApplySlotPC
ApplyPC == {"node", "services", "commit"} \cup ApplyNodePC
DeleteNodePC == {"dstop", "dremove", "drecords"}
DeletePC == {"dnode", "dnet", "dnetrec", "dcommit"} \cup DeleteNodePC
HoldsMu == ApplyPC \cup DeletePC
PC == {"idle", "lockApply", "lockDelete", "done", "failed"} \cup HoldsMu

TypeOK ==
    /\ docker \in [Slot -> Container \cup {None}]
    /\ net \in SUBSET Node
    /\ conf \in [Node -> Manifest \cup {None}]
    /\ rec \in [Slot -> Id \cup {None}]
    /\ netRec \in SUBSET Node
    /\ svcRec \in SUBSET Service
    /\ stored \in Manifest \cup {None}
    /\ netCache \in SUBSET Node
    /\ mu \in Worker \cup {None}
    /\ pc \in [Worker -> PC]
    /\ job \in [Worker -> Manifest \cup {None}]
    /\ todo \in [Worker -> SUBSET Slot]
    /\ node \in [Worker -> Node \cup {None}]
    /\ slot \in [Worker -> Slot \cup {None}]
    /\ cid \in [Worker -> Id \cup {None}]
    /\ errs \in [Worker -> BOOLEAN]
    /\ cancelled \in BOOLEAN
    /\ faults \in Nat
    /\ crashes \in Nat

Init ==
    /\ docker = [s \in Slot |-> None]
    /\ net = {}
    /\ conf = [n \in Node |-> None]
    /\ rec = [s \in Slot |-> None]
    /\ netRec = {}
    /\ svcRec = {}
    /\ stored = None
    /\ netCache = {}
    /\ mu = None
    /\ pc = [w \in Worker |-> "idle"]
    /\ job = [w \in Worker |-> None]
    /\ todo = [w \in Worker |-> {}]
    /\ node = [w \in Worker |-> None]
    /\ slot = [w \in Worker |-> None]
    /\ cid = [w \in Worker |-> None]
    /\ errs = [w \in Worker |-> FALSE]
    /\ cancelled = FALSE
    /\ faults = 0
    /\ crashes = 0

-----------------------------------------------------------------------------
(* Calls to Docker and Redis. *)

\* "fail": an error and no effect; "lost": the effect, and an error.
Reply == {"ok", "fail", "lost"}

\* "refused": an error, with no effect, that is the answer of a Docker that works:
\* the subnet of a network is taken, an image is not to be had, a host port is in
\* use.  Network and Rollout follow which subnet, image and port it is.
Refusal(may) == {r \in {"refused"} : may}

Effect(r) == r \in {"ok", "lost"}

Charge(r) ==
    IF r \in {"ok", "refused"} THEN UNCHANGED faults
    ELSE faults < MaxFaults /\ faults' = faults + 1

\* Docker calls carry the process's context, Redis calls context.Background().
DockerCall(r) ==
    IF cancelled THEN r = "fail" /\ UNCHANGED faults ELSE Charge(r)
RedisCall(r) == Charge(r)

Exists(s, id) == docker[s] # None /\ docker[s].id = id

\* Docker's ID is the pair of the slot and a member of Id: the code compares IDs
\* of one slot only.  One that nothing refers to any more may stand for a new one.
Fresh(s, id) == /\ rec[s] # id
                /\ ~Exists(s, id)
                /\ \A w \in Worker : cid[w] # id
NewId(s) == CHOOSE id \in Id : Fresh(s, id)

\* dnsmasq and nginx-proxy read the node's files when they start.
Started(s) == [docker EXCEPT ![s].running = TRUE,
                             ![s].loaded = IF s[2] \in App THEN None ELSE conf[s[1]]]
Stopped(s) == [docker EXCEPT ![s].running = FALSE]

Attached(n) == {s \in OnNode(Slot, n) : docker[s] # None /\ docker[s].running}

-----------------------------------------------------------------------------
(* Control flow of a worker. *)

Goto(w, p) == pc' = [pc EXCEPT ![w] = p]
Fail(w) == errs' = [errs EXCEPT ![w] = TRUE]

\* Mutant of Note: a call's outcome overwrites the errors noted before.
NoteLast(w, failed) == errs' = [errs EXCEPT ![w] = failed]

\* errs = append(errs, ...) when failed
Note(w, failed) == errs' = [errs EXCEPT ![w] = @ \/ failed]

\* Mutant of Return: the mutex stays locked.
ReturnLocked(w, result) ==
    /\ Goto(w, result)
    /\ node' = [node EXCEPT ![w] = None]
    /\ slot' = [slot EXCEPT ![w] = None]
    /\ errs' = [errs EXCEPT ![w] = FALSE]
    /\ UNCHANGED mu

\* return, with the deferred e.mu.Unlock()
Return(w, result) ==
    /\ Goto(w, result)
    /\ mu' = None
    /\ node' = [node EXCEPT ![w] = None]
    /\ slot' = [slot EXCEPT ![w] = None]
    /\ errs' = [errs EXCEPT ![w] = FALSE]

\* The next thing Apply does when the slots in rest are left.
ApplyNext(rest, n) ==
    IF OnNode(rest, n) # {} THEN "inspect"
    ELSE IF rest # {} THEN "node" ELSE "services"

\* Mutant of EndSlot: "continue" without "errs = append(errs, err)".
EndSlotUnnoted(w, s, failed) ==
    LET rest == todo[w] \ {s}
    IN  /\ todo' = [todo EXCEPT ![w] = rest]
        /\ cid' = [cid EXCEPT ![w] = None]
        /\ Goto(w, ApplyNext(rest, node[w]))
        /\ UNCHANGED errs

\* Mutant of EndSlot: a container that failed is tried again.
EndSlotRetries(w, s, failed) ==
    LET rest == IF failed THEN todo[w] ELSE todo[w] \ {s}
    IN  /\ todo' = [todo EXCEPT ![w] = rest]
        /\ cid' = [cid EXCEPT ![w] = None]
        /\ Note(w, failed)
        /\ Goto(w, ApplyNext(rest, node[w]))

\* End of one turn of the container loop, by "continue" when failed.
EndSlot(w, s, failed) ==
    LET rest == todo[w] \ {s}
    IN  /\ todo' = [todo EXCEPT ![w] = rest]
        /\ cid' = [cid EXCEPT ![w] = None]
        /\ Note(w, failed)
        /\ Goto(w, ApplyNext(rest, node[w]))

\* "continue" of the node loop after an error.
SkipNode(w, n) ==
    LET rest == todo[w] \ OnNode(todo[w], n)
    IN  /\ todo' = [todo EXCEPT ![w] = rest]
        /\ Fail(w)
        /\ Goto(w, ApplyNext(rest, n))

\* dnsmasq first, user containers next, nginx-proxy last.
ApplyRank(s) == IF s[2] = Dnsmasq THEN 1 ELSE IF s[2] = NginxProxy THEN 3 ELSE 2
DeleteRank(s) == IF s[2] = Dnsmasq THEN 1 ELSE IF s[2] = NginxProxy THEN 2 ELSE 3

\* Mutant of ApplyHead: the containers come in no particular order.
ApplyAny(w) == OnNode(todo[w], node[w])

ApplyHead(w) ==
    LET here == OnNode(todo[w], node[w])
    IN  {s \in here : \A t \in here : ApplyRank(s) <= ApplyRank(t)}
DeleteHead(w) ==
    LET here == OnNode(todo[w], node[w])
    IN  {s \in here : \A t \in here : DeleteRank(s) <= DeleteRank(t)}

-----------------------------------------------------------------------------
(* Entering the engine. *)

CallApply(w, m) ==
    /\ pc[w] = "idle" /\ ~cancelled
    /\ Goto(w, "lockApply")
    /\ job' = [job EXCEPT ![w] = m]
    /\ UNCHANGED <<outside, redis, netCache, mu, local, errs, faults, counters>>

CallDelete(w, m) ==
    /\ pc[w] = "idle" /\ ~cancelled
    /\ Goto(w, "lockDelete")
    /\ job' = [job EXCEPT ![w] = m]
    /\ UNCHANGED <<outside, redis, netCache, mu, local, errs, faults, counters>>

\* Mutant of Lock: the call does not wait for the mutex.
LockAnyway(w) ==
    /\ \/ pc[w] = "lockApply" /\ Goto(w, "node")
       \/ pc[w] = "lockDelete" /\ Goto(w, "dnode")
    /\ mu' = w
    /\ todo' = [todo EXCEPT ![w] = Wanted(job[w])]
    /\ UNCHANGED <<outside, redis, netCache, job, node, slot, cid, errs,
                   faults, counters>>

\* e.mu.Lock()
Lock(w) ==
    /\ mu = None
    /\ \/ pc[w] = "lockApply" /\ Goto(w, "node")
       \/ pc[w] = "lockDelete" /\ Goto(w, "dnode")
    /\ mu' = w
    /\ todo' = [todo EXCEPT ![w] = Wanted(job[w])]
    /\ UNCHANGED <<outside, redis, netCache, job, node, slot, cid, errs,
                   faults, counters>>

\* The caller sees the result and is free for the next request.
Done(w) ==
    /\ pc[w] \in {"done", "failed"}
    /\ Goto(w, "idle")
    /\ job' = [job EXCEPT ![w] = None]
    /\ UNCHANGED <<outside, redis, netCache, mu, local, errs, faults, counters>>

\* SaveManifestFromFile stores a manifest without holding e.mu.
SaveManifestFromFile(w, m, r) ==
    /\ pc[w] = "idle" /\ ~cancelled
    /\ m \in Uploads
    /\ RedisCall(r)
    /\ stored' = IF r = "fail" THEN stored ELSE m
    /\ UNCHANGED <<outside, rec, netRec, svcRec, netCache, mu, pc, job, local,
                   errs, counters>>

-----------------------------------------------------------------------------
(* Apply: the node loop. *)

\* EnsureNetworkForNode: a cached network costs no call and is not looked at; one
\* that Docker has is found; Docker may refuse to create another.
EnsureNetwork(w, n) ==
    /\ pc[w] = "node"
    /\ OnNode(todo[w], n) # {}
    /\ node' = [node EXCEPT ![w] = n]
    /\ \/ /\ n \in netCache
          /\ Goto(w, "netrec")
          /\ UNCHANGED <<net, netCache, todo, errs, faults>>
       \/ /\ n \notin netCache
          /\ \E r \in Reply \cup Refusal(n \in RefusedNets) :
                /\ DockerCall(r)
                /\ r = "refused" => n \notin net
                /\ net' = IF Effect(r) THEN net \cup {n} ELSE net
                /\ IF r = "ok"
                   THEN /\ netCache' = netCache \cup {n}
                        /\ Goto(w, "netrec")
                        /\ UNCHANGED <<todo, errs>>
                   ELSE SkipNode(w, n) /\ UNCHANGED netCache
    /\ UNCHANGED <<docker, conf, redis, mu, job, slot, cid, counters>>

\* SaveNetwork: its error is noted and the loop goes on.
SaveNetwork(w) ==
    /\ pc[w] = "netrec"
    /\ \E r \in Reply :
          /\ RedisCall(r)
          /\ netRec' = IF r = "fail" THEN netRec ELSE netRec \cup {node[w]}
          /\ Note(w, r # "ok")
    /\ Goto(w, "files")
    /\ UNCHANGED <<outside, rec, svcRec, stored, netCache, mu, job, local, counters>>

\* GetNodeSubnet, GenerateHostsFile and GenerateConfigForNode.
WriteFiles(w) ==
    /\ pc[w] = "files"
    /\ \E r \in Reply :
          /\ Charge(r)
          /\ conf' = IF r = "fail" THEN conf ELSE [conf EXCEPT ![node[w]] = job[w]]
          /\ IF r = "ok" THEN Goto(w, "inspect") /\ UNCHANGED <<todo, errs>>
                         ELSE SkipNode(w, node[w])
    /\ UNCHANGED <<docker, net, redis, netCache, mu, job, node, slot, cid, counters>>

-----------------------------------------------------------------------------
(* Apply: the container loop. *)

\* Mutant of Inspect: a container that does not run is taken for none.
InspectRunning(w, s) ==
    /\ pc[w] = "inspect"
    /\ s \in ApplyHead(w)
    /\ \/ /\ DockerCall("fail")
          /\ EndSlot(w, s, TRUE)
          /\ UNCHANGED slot
       \/ /\ DockerCall("ok")
          /\ slot' = [slot EXCEPT ![w] = s]
          /\ IF docker[s] = None \/ ~docker[s].running
             THEN Goto(w, "create") /\ UNCHANGED cid
             ELSE /\ cid' = [cid EXCEPT ![w] = docker[s].id]
                  /\ Goto(w, IF s[2] = NginxProxy THEN "stop" ELSE "compare")
          /\ UNCHANGED <<todo, errs>>
    /\ UNCHANGED <<outside, redis, netCache, mu, job, node, counters>>

\* GetContainerByName, and the decision that needs no further call.
Inspect(w, s) ==
    /\ pc[w] = "inspect"
    /\ s \in ApplyHead(w)
    /\ \/ /\ DockerCall("fail")
          /\ EndSlot(w, s, TRUE)
          /\ UNCHANGED slot
       \/ /\ DockerCall("ok")
          /\ slot' = [slot EXCEPT ![w] = s]
          /\ IF docker[s] = None
             THEN Goto(w, "create") /\ UNCHANGED cid
             ELSE /\ cid' = [cid EXCEPT ![w] = docker[s].id]
                  /\ Goto(w, IF s[2] = NginxProxy \/ ~docker[s].running
                             THEN "stop" ELSE "compare")
          /\ UNCHANGED <<todo, errs>>
    /\ UNCHANGED <<outside, redis, netCache, mu, job, node, counters>>

\* SpecMatches inspects the container again, by ID.
Compare(w) ==
    /\ pc[w] = "compare"
    /\ \/ /\ DockerCall("ok")
          /\ Exists(slot[w], cid[w])
          /\ Goto(w, IF <<SpecFor(job[w], slot[w]), docker[slot[w]].spec>> \in Matches
                     THEN "save" ELSE "stop")
          /\ UNCHANGED <<todo, cid, errs>>
       \/ /\ \/ DockerCall("fail")
             \/ DockerCall("ok") /\ ~Exists(slot[w], cid[w])
          /\ EndSlot(w, slot[w], TRUE)
    /\ UNCHANGED <<outside, redis, netCache, mu, job, node, slot, counters>>

\* StopContainer: an error is only a warning.
StopContainer(w) ==
    /\ pc[w] = "stop"
    /\ \E r \in Reply :
          /\ DockerCall(r)
          /\ docker' = IF r # "fail" /\ Exists(slot[w], cid[w])
                       THEN Stopped(slot[w]) ELSE docker
    /\ Goto(w, "remove")
    /\ UNCHANGED <<net, conf, redis, netCache, mu, job, local, errs, counters>>

RemoveContainer(w) ==
    /\ pc[w] = "remove"
    /\ \E r \in Reply :
          LET found == Exists(slot[w], cid[w])
          IN  /\ DockerCall(r)
              /\ docker' = IF r # "fail" /\ found
                           THEN [docker EXCEPT ![slot[w]] = None] ELSE docker
              /\ IF r = "ok" /\ found
                 THEN Goto(w, "create") /\ UNCHANGED <<todo, cid, errs>>
                 ELSE EndSlot(w, slot[w], TRUE)
    /\ UNCHANGED <<net, conf, redis, netCache, mu, job, node, slot, counters>>

\* CreateContainer; Docker refuses a name in use, or has no such image.
CreateContainer(w) ==
    /\ pc[w] = "create"
    /\ \E id \in Id : Fresh(slot[w], id)
    /\ \E r \in Reply \cup Refusal(slot[w] \in RefusedSlots) :
          LET free == docker[slot[w]] = None
          IN  /\ DockerCall(r)
              /\ docker' = IF Effect(r) /\ free
                           THEN [docker EXCEPT ![slot[w]] =
                                   [id |-> NewId(slot[w]), spec |-> SpecFor(job[w], slot[w]),
                                    running |-> FALSE, loaded |-> None]]
                           ELSE docker
              /\ IF r = "ok" /\ free
                 THEN /\ cid' = [cid EXCEPT ![w] = NewId(slot[w])]
                      /\ Goto(w, "start")
                      /\ UNCHANGED <<todo, errs>>
                 ELSE EndSlot(w, slot[w], TRUE)
    /\ UNCHANGED <<net, conf, redis, netCache, mu, job, node, slot, counters>>

\* StartContainer; Docker refuses a container whose network is gone, or whose host
\* port is taken.
StartContainer(w) ==
    /\ pc[w] = "start"
    /\ \E r \in Reply \cup Refusal(slot[w] \in RefusedSlots) :
          LET able == Exists(slot[w], cid[w]) /\ node[w] \in net
          IN  /\ DockerCall(r)
              /\ docker' = IF Effect(r) /\ able THEN Started(slot[w]) ELSE docker
              /\ IF r = "ok" /\ able
                 THEN Goto(w, "state") /\ UNCHANGED <<todo, cid, errs>>
                 ELSE EndSlot(w, slot[w], TRUE)
    /\ UNCHANGED <<net, conf, redis, netCache, mu, job, node, slot, counters>>

\* GetContainerState: its error is noted, the create-time state is used instead.
GetContainerState(w) ==
    /\ pc[w] = "state"
    /\ \/ DockerCall("ok") /\ Note(w, ~Exists(slot[w], cid[w]))
       \/ DockerCall("fail") /\ Fail(w)
    /\ Goto(w, "save")
    /\ UNCHANGED <<outside, redis, netCache, mu, job, local, counters>>

\* Mutant of SaveContainer: a record that exists is not written again.
SaveContainerOnce(w) ==
    /\ pc[w] = "save"
    /\ \E r \in Reply :
          /\ RedisCall(r)
          /\ rec' = IF r = "fail" \/ rec[slot[w]] # None THEN rec
                    ELSE [rec EXCEPT ![slot[w]] = cid[w]]
          /\ EndSlot(w, slot[w], r # "ok")
    /\ UNCHANGED <<outside, netRec, svcRec, stored, netCache, mu, job, node, slot,
                   counters>>

SaveContainer(w) ==
    /\ pc[w] = "save"
    /\ \E r \in Reply :
          /\ RedisCall(r)
          /\ rec' = IF r = "fail" THEN rec ELSE [rec EXCEPT ![slot[w]] = cid[w]]
          /\ EndSlot(w, slot[w], r # "ok")
    /\ UNCHANGED <<outside, netRec, svcRec, stored, netCache, mu, job, node, slot,
                   counters>>

-----------------------------------------------------------------------------
(* Apply: after the node loop. *)

\* SaveService for every service, then "if len(errs) > 0 return".
SaveServices(w) ==
    /\ pc[w] = "services"
    /\ \E r \in Reply, saved \in SUBSET ServicesOf[job[w]] :
          /\ RedisCall(r)
          /\ r = "ok" => saved = ServicesOf[job[w]]
          /\ svcRec' = svcRec \cup saved
          /\ IF r = "ok" /\ ~errs[w] THEN Goto(w, "commit") /\ UNCHANGED <<errs, mu, node, slot>>
                                     ELSE Return(w, "failed")
    /\ UNCHANGED <<outside, rec, netRec, stored, netCache, job, todo, cid, counters>>

\* SaveManifest("active", manifest)
CommitApply(w) ==
    /\ pc[w] = "commit"
    /\ \E r \in Reply :
          /\ RedisCall(r)
          /\ stored' = IF r = "fail" THEN stored ELSE job[w]
          /\ Return(w, IF r = "ok" THEN "done" ELSE "failed")
    /\ UNCHANGED <<outside, rec, netRec, svcRec, netCache, job, todo, cid, counters>>

-----------------------------------------------------------------------------
(* Delete: containers are stopped and removed by name. *)

\* Where Delete goes when the slots in rest are left.
DeleteNext(rest, n) == IF OnNode(rest, n) # {} THEN "dstop" ELSE "drecords"

DeleteNode(w, n) ==
    /\ pc[w] = "dnode"
    /\ OnNode(todo[w], n) # {}
    /\ node' = [node EXCEPT ![w] = n]
    /\ Goto(w, "dstop")
    /\ UNCHANGED <<outside, redis, netCache, mu, job, todo, slot, cid, errs,
                   faults, counters>>

DeleteStop(w, s) ==
    /\ pc[w] = "dstop"
    /\ s \in DeleteHead(w)
    /\ slot' = [slot EXCEPT ![w] = s]
    /\ \E r \in Reply :
          LET found == docker[s] # None
          IN  /\ DockerCall(r)
              /\ docker' = IF r # "fail" /\ found THEN Stopped(s) ELSE docker
              /\ Note(w, r # "ok" \/ ~found)
    /\ Goto(w, "dremove")
    /\ UNCHANGED <<net, conf, redis, netCache, mu, job, todo, node, cid, counters>>

\* Mutant of DeleteRemove: a failed removal is only a warning.
DeleteRemoveWarns(w) ==
    /\ pc[w] = "dremove"
    /\ \E r \in Reply :
          /\ DockerCall(r)
          /\ docker' = IF r # "fail" /\ docker[slot[w]] # None
                       THEN [docker EXCEPT ![slot[w]] = None] ELSE docker
    /\ LET rest == todo[w] \ {slot[w]}
       IN  /\ todo' = [todo EXCEPT ![w] = rest]
           /\ Goto(w, DeleteNext(rest, node[w]))
    /\ UNCHANGED <<net, conf, redis, netCache, mu, job, node, slot, cid, errs, counters>>

DeleteRemove(w) ==
    /\ pc[w] = "dremove"
    /\ \E r \in Reply :
          LET found == docker[slot[w]] # None
          IN  /\ DockerCall(r)
              /\ docker' = IF r # "fail" /\ found
                           THEN [docker EXCEPT ![slot[w]] = None] ELSE docker
              /\ Note(w, r # "ok" \/ ~found)
    /\ LET rest == todo[w] \ {slot[w]}
       IN  /\ todo' = [todo EXCEPT ![w] = rest]
           /\ Goto(w, DeleteNext(rest, node[w]))
    /\ UNCHANGED <<net, conf, redis, netCache, mu, job, node, slot, cid, counters>>

\* DeleteContainer and DeleteService for the node, whatever the removals did.
DeleteRecords(w) ==
    /\ pc[w] = "drecords"
    /\ \E r \in Reply, gone \in SUBSET OnNode(Wanted(job[w]), node[w]),
          ended \in SUBSET ServicesOf[job[w]] :
          /\ RedisCall(r)
          /\ r = "ok" => /\ gone = OnNode(Wanted(job[w]), node[w])
                         /\ ended = ServicesOf[job[w]]
          /\ rec' = [s \in Slot |-> IF s \in gone THEN None ELSE rec[s]]
          /\ svcRec' = svcRec \ ended
          /\ Note(w, r # "ok")
    /\ Goto(w, "dnet")
    /\ UNCHANGED <<outside, netRec, stored, netCache, mu, job, local, counters>>

\* Mutant of RemoveNetwork: the cache keeps the network that was removed.
RemoveNetworkKeeps(w) ==
    /\ pc[w] = "dnet"
    /\ \/ node[w] \notin netCache /\ UNCHANGED <<net, errs, faults>>
       \/ /\ node[w] \in netCache
          /\ \E r \in Reply :
                LET able == node[w] \in net /\ Attached(node[w]) = {}
                IN  /\ DockerCall(r)
                    /\ net' = IF r # "fail" /\ able THEN net \ {node[w]} ELSE net
                    /\ Note(w, r # "ok" \/ ~able)
    /\ Goto(w, "dnetrec")
    /\ UNCHANGED <<docker, conf, redis, netCache, mu, job, local, counters>>

\* RemoveNetworkForNode: without a cache entry it returns nil at once; Docker
\* refuses a network that is gone or has running containers attached.
RemoveNetwork(w) ==
    /\ pc[w] = "dnet"
    /\ \/ /\ node[w] \notin netCache
          /\ UNCHANGED <<net, netCache, errs, faults>>
       \/ /\ node[w] \in netCache
          /\ \E r \in Reply :
                LET able == node[w] \in net /\ Attached(node[w]) = {}
                IN  /\ DockerCall(r)
                    /\ net' = IF r # "fail" /\ able THEN net \ {node[w]} ELSE net
                    /\ netCache' = IF r = "ok" /\ able
                                   THEN netCache \ {node[w]} ELSE netCache
                    /\ Note(w, r # "ok" \/ ~able)
    /\ Goto(w, "dnetrec")
    /\ UNCHANGED <<docker, conf, redis, mu, job, local, counters>>

\* DeleteNetwork drops the record, whatever RemoveNetworkForNode did; after the
\* last node "if len(errs) > 0 return".
DeleteNetworkRecord(w) ==
    /\ pc[w] = "dnetrec"
    /\ \E r \in Reply :
          /\ RedisCall(r)
          /\ netRec' = IF r = "fail" THEN netRec ELSE netRec \ {node[w]}
          /\ \/ /\ todo[w] # {}
                /\ Note(w, r # "ok")
                /\ Goto(w, "dnode")
                /\ UNCHANGED <<mu, node, slot>>
             \/ /\ todo[w] = {} /\ r = "ok" /\ ~errs[w]
                /\ Goto(w, "dcommit")
                /\ UNCHANGED <<errs, mu, node, slot>>
             \/ /\ todo[w] = {} /\ (r # "ok" \/ errs[w])
                /\ Return(w, "failed")
    /\ UNCHANGED <<outside, rec, svcRec, stored, netCache, job, todo, cid, counters>>

\* DeleteManifest("active")
CommitDelete(w) ==
    /\ pc[w] = "dcommit"
    /\ \E r \in Reply :
          /\ RedisCall(r)
          /\ stored' = IF r = "fail" THEN stored ELSE None
          /\ Return(w, IF r = "ok" THEN "done" ELSE "failed")
    /\ UNCHANGED <<outside, rec, netRec, svcRec, netCache, job, todo, cid, counters>>

-----------------------------------------------------------------------------
(* The surroundings. *)

\* A container's main process exits.
ContainerExit(s) ==
    /\ docker[s] # None /\ docker[s].running
    /\ docker' = Stopped(s)
    /\ UNCHANGED <<net, conf, redis, netCache, mu, pc, job, local, errs, faults,
                   counters>>

\* Somebody outside e.mu starts a stopped container: the reconciler does.
StartStopped(s) ==
    /\ docker[s] # None /\ ~docker[s].running
    /\ s[1] \in net
    /\ docker' = Started(s)
    /\ UNCHANGED <<net, conf, redis, netCache, mu, pc, job, local, errs, faults,
                   counters>>

\* SIGINT of a CLI process: setupSignalHandler cancels the context.
Interrupt ==
    /\ ~cancelled /\ crashes < MaxCrashes
    /\ cancelled' = TRUE
    /\ crashes' = crashes + 1
    /\ UNCHANGED <<outside, redis, netCache, mu, pc, job, local, errs, faults>>

\* A new process: NewManager starts with an empty cache, the mutex is free.
FreshProcess ==
    /\ netCache' = {}
    /\ mu' = None
    /\ pc' = [w \in Worker |-> "idle"]
    /\ job' = [w \in Worker |-> None]
    /\ todo' = [w \in Worker |-> {}]
    /\ node' = [w \in Worker |-> None]
    /\ slot' = [w \in Worker |-> None]
    /\ cid' = [w \in Worker |-> None]
    /\ errs' = [w \in Worker |-> FALSE]
    /\ cancelled' = FALSE
    /\ UNCHANGED <<outside, redis, faults>>

\* The process ends between two requests, as every CLI process does.
Exit ==
    /\ \A w \in Worker : pc[w] = "idle"
    /\ FreshProcess
    /\ UNCHANGED crashes

\* The process is killed, in the middle of its requests.
Kill ==
    /\ crashes < MaxCrashes
    /\ FreshProcess
    /\ crashes' = crashes + 1

-----------------------------------------------------------------------------

ApplyStep(w) ==
    \/ \E n \in Node : EnsureNetwork(w, n)
    \/ \E s \in Slot : Inspect(w, s)
    \/ SaveNetwork(w) \/ WriteFiles(w) \/ Compare(w) \/ StopContainer(w)
    \/ RemoveContainer(w) \/ CreateContainer(w) \/ StartContainer(w)
    \/ GetContainerState(w) \/ SaveContainer(w) \/ SaveServices(w) \/ CommitApply(w)

DeleteStep(w) ==
    \/ \E n \in Node : DeleteNode(w, n)
    \/ \E s \in Slot : DeleteStop(w, s)
    \/ DeleteRemove(w) \/ DeleteRecords(w) \/ RemoveNetwork(w)
    \/ DeleteNetworkRecord(w) \/ CommitDelete(w)

EngineStep(w) == Lock(w) \/ ApplyStep(w) \/ DeleteStep(w)

Request(w) ==
    \/ \E m \in Manifest : CallApply(w, m) \/ CallDelete(w, m)
    \/ \E m \in Manifest, r \in Reply : SaveManifestFromFile(w, m, r)
    \/ Done(w)

Outside ==
    \/ \E s \in Slot : ContainerExit(s) \/ StartStopped(s)
    \/ Interrupt \/ Exit \/ Kill

Next == (\E w \in Worker : Request(w) \/ EngineStep(w)) \/ Outside

Spec == Init /\ [][Next]_vars

\* Every call returns (Docker, Redis and the file system answer) and a waiting
\* goroutine gets e.mu in the end: Go's mutex hands over to starved waiters.
Fairness == \A w \in Worker : /\ WF_vars(ApplyStep(w) \/ DeleteStep(w) \/ Done(w))
                              /\ SF_vars(Lock(w))
FairSpec == Spec /\ Fairness

-----------------------------------------------------------------------------
(* Properties. *)

\* What a successful Apply promises of one container: Docker has it with a
\* matching spec, Redis has its current ID, its network exists and is recorded,
\* and its node's proxy, if up, serves this manifest's routes.
Deployed(m, s) ==
    /\ docker[s] # None
    /\ <<SpecFor(m, s), docker[s].spec>> \in Matches
    /\ rec[s] = docker[s].id
    /\ s[1] \in net \cap netRec
    /\ conf[s[1]] = m
    /\ s[2] = NginxProxy /\ docker[s].running => docker[s].loaded = m

\* When Apply gets past its error check, everything its manifest names is
\* deployed, whatever other requests, exits and restarts happened meanwhile.
ApplySound ==
    \A w \in Worker : pc[w] = "commit" =>
        /\ \A s \in Wanted(job[w]) : Deployed(job[w], s)
        /\ ServicesOf[job[w]] \subseteq svcRec

\* When Delete gets past its error check, none of its manifest's containers is
\* left in Docker and none of its records is left in Redis.
DeleteSound ==
    \A w \in Worker : pc[w] = "dcommit" =>
        /\ \A s \in Wanted(job[w]) :
              docker[s] = None /\ rec[s] = None /\ s[1] \notin netRec
        /\ ServicesOf[job[w]] \cap svcRec = {}

\* engine.go:497-499: as long as nothing failed, a user container is created
\* and started after the node's dnsmasq, and nginx-proxy after all the others.
StartOrder ==
    \A w \in Worker : pc[w] \in {"create", "start"} /\ ~errs[w] =>
        \A s \in OnNode(Wanted(job[w]), node[w]) :
            ApplyRank(s) < ApplyRank(slot[w]) => Deployed(job[w], s)

\* Without faults and crashes, Redis mirrors Docker whenever no operation runs: of
\* the containers that Docker never refuses, those it has have a record with their
\* current ID, and only those.
RedisMirrorsDocker ==
    mu = None /\ faults = 0 /\ crashes = 0 =>
        \A s \in Slot \ RefusedSlots : rec[s] = IF docker[s] = None THEN None ELSE docker[s].id

\* What Docker may refuse to worker w where it is: a network it has to create, a
\* container of a name that is free, a container it has whose network is there.
Refusable(w) ==
    \/ pc[w] = "node" /\ node'[w] \in RefusedNets \ (net \cup netCache)
    \/ pc[w] = "create" /\ slot[w] \in RefusedSlots /\ docker[slot[w]] = None
    \/ pc[w] = "start" /\ slot[w] \in RefusedSlots /\ Exists(slot[w], cid[w])
       /\ node[w] \in net

\* Worker w notes its first error in Apply, or fails, only where a call of its own
\* fails, the process is interrupted, Docker refuses a subnet, an image or a port,
\* or after a fault the cache names a network that is gone.
ErrorExplained(w) ==
    pc[w] \in ApplyPC /\ ~errs[w] /\ (errs'[w] \/ pc'[w] = "failed") =>
        \/ faults' # faults \/ cancelled
        \/ Refusable(w)
        \/ faults > 0 /\ node[w] \in netCache \ net

\* A failed or killed Apply may be repeated, and Apply repairs what a failed Delete
\* left behind: no container name in use, no container or network that vanished
\* under its hands makes it fail.  (A subnet may: an earlier process's network may
\* have the first one that a new process tries, Network's UniqueSubnet.)
ApplyErrorsExplained == [][\A w \in Worker : ErrorExplained(w)]_vars

\* dns/manager.go:63 "All service names resolve to nginx proxy IP": after a
\* successful Apply a running dnsmasq knows the manifest's services.  The code
\* breaks it: dnsmasq reads its hosts file when it starts, and Apply keeps a
\* running dnsmasq because its spec has not changed.
DnsServesManifest ==
    \A w \in Worker : pc[w] = "commit" =>
        \A s \in Wanted(job[w]) : s[2] = Dnsmasq /\ docker[s].running =>
            ServicesOf[job[w]] \subseteq ServicesOf[docker[s].loaded]

\* engine.go:266 "Delete removes all resources from a manifest": after a
\* successful Delete the networks of its nodes are gone.  The code breaks it: a
\* process that did not apply the manifest has no cache entry for them.
DeleteRemovesNetworks ==
    \A w \in Worker : pc[w] = "dcommit" => NodesOf[job[w]] \cap net = {}

\* The order of the calls Apply makes for a node and of those Delete makes; the
\* records of a node are the last thing before Delete begins another.
Stage ==
    [node |-> 1, netrec |-> 2, files |-> 3, inspect |-> 4, compare |-> 5, stop |-> 6,
     remove |-> 7, create |-> 8, start |-> 9, state |-> 10, save |-> 11, services |-> 12,
     commit |-> 13,
     drecords |-> 1, dnet |-> 2, dnetrec |-> 3, dnode |-> 4, dstop |-> 5, dremove |-> 6,
     dcommit |-> 7]

\* A call returns and unlocks, is done with a container, or gets further with it.
Advances(w) ==
    IF pc'[w] \notin HoldsMu THEN mu' = None
    ELSE \/ todo'[w] \subseteq todo[w] /\ todo'[w] # todo[w]
         \/ todo'[w] = todo[w] /\ Stage[pc[w]] < Stage[pc'[w]]

\* engine.go:97-331: whatever its calls to Docker and Redis answer, an operation
\* comes nearer to its return with every one of them; nothing is tried again.
CallsAdvance == [][\A w \in Worker : ApplyStep(w) \/ DeleteStep(w) => Advances(w)]_vars

\* Whoever has e.mu has a next step, whatever was removed, stopped or lost while it
\* had it: nobody has returned with it, and no loop has run out of what it is at.
NeverStuck ==
    mu # None =>
        /\ pc[mu] \in HoldsMu
        /\ pc[mu] \in {"node", "dnode"} => \E n \in Node : OnNode(todo[mu], n) # {}
        /\ pc[mu] = "inspect" => ApplyHead(mu) # {}
        /\ pc[mu] = "create" => \E id \in Id : Fresh(slot[mu], id)
        /\ pc[mu] = "dstop" => DeleteHead(mu) # {}

\* Every call of Apply or Delete returns.
CallsReturn ==
    \A w \in Worker : pc[w] \in {"lockApply", "lockDelete"} ~> pc[w] = "idle"
=============================================================================
