------------------------------- MODULE Rollout -------------------------------
(***************************************************************************)
(* One process that applies and deletes manifests, container by container: *)
(* where Engine follows every call and takes specs for model values, this  *)
(* module has the specs, the ports and the routes, and a Docker that tells *)
(* them apart.  No call fails but those Docker has a reason to refuse.     *)
(***************************************************************************)
EXTENDS Config, Routing

CONSTANTS
    Manifest,   \* names of the manifests handed to Parse, valid or not
    Content,    \* manifest -> its record
    MaxExits    \* bound: how many containers exit on their own

ASSUME ExitsAssumption == MaxExits \in Nat /\ None \notin Manifest

\* The lists and the ports of a manifest.
IsList(s) == s \in Seq(Range(s))
ASSUME ContentAssumption ==
    \A m \in Manifest :
        LET nodes == Content[m].nodes
            services == Content[m].services
        IN  /\ IsList(nodes) /\ IsList(services)
            /\ \A j \in DOMAIN services : services[j].port \in Int
            /\ \A i \in DOMAIN nodes :
                  LET containers == nodes[i].containers
                  IN  /\ nodes[i].proxyPort \in Int
                      /\ IsList(containers)
                      /\ \A c \in DOMAIN containers :
                            IsList(containers[c].volumes) /\ IsList(containers[c].command)

NodeNames == UNION {{Content[m].nodes[i].name : i \in DOMAIN Content[m].nodes} : m \in Manifest}

VARIABLES
    docker,   \* Docker name -> the container, or None
    conf,     \* node name -> its nginx.conf and hosts file, or None
    pc,       \* "idle", "node", "container", "end"
    job,      \* the manifest Apply works on
    k,        \* index of the node loop
    todo,     \* containersToApply, as far as the container loop has not got
    errs,     \* len(errs) > 0
    replaced, \* Docker names stopped, removed or created by this Apply
    settled,  \* history: manifest of the last operation, if that was an Apply that
              \* succeeded with all its containers up since
    tried,    \* history: manifest of the last operation, if that was Apply
    calm,     \* history: no container has exited since this Apply began
    exits     \* containers that exited on their own so far

history == <<replaced, settled, tried, calm>>
vars == <<docker, conf, pc, job, k, todo, errs, replaced, settled, tried, calm, exits>>

\* What the nginx.conf of a node may hold.
NginxFiles ==
    UNION {{NginxConf(Content[m], Content[m].nodes[i]) : i \in DOMAIN Content[m].nodes} :
               m \in Manifest}

\* The containers of a manifest in the order of the loops, each with its node.
ToApply(m, i) ==
    LET node == Content[m].nodes[i]
    IN  InjectRoutingContainers(node, ServiceRoutes(Content[m], node.name))
Planned ==
    [m \in Manifest |->
        UNION {{[node |-> Content[m].nodes[i].name, spec |-> ToApply(m, i)[j], at |-> <<i, j>>] :
                    j \in DOMAIN ToApply(m, i)} : i \in DOMAIN Content[m].nodes}]

ConfigOf(spec) == Created(spec, UsesDnsmasq(spec.name), StaticIP(spec.name))
ASSUME ContainerAssumption ==
    /\ None \notin NginxFiles
    /\ \A m \in Manifest : \A p \in Planned[m], up \in BOOLEAN, file \in NginxFiles \cup {None} :
          None # [node |-> p.node, name |-> p.spec.name, config |-> ConfigOf(p.spec),
                  running |-> up, nginx |-> file]

NameOf(p) == DockerName(p.node, p.spec.name)
Names == [m \in Manifest |-> {NameOf(p) : p \in Planned[m]}]
AllNames == UNION Range(Names)

Init ==
    /\ docker = [s \in AllNames |-> None]
    /\ conf = [n \in NodeNames |-> None]
    /\ pc = "idle" /\ job = None /\ k = 0 /\ todo = <<>>
    /\ errs = FALSE /\ replaced = {}
    /\ settled = None /\ tried = None /\ calm = TRUE /\ exits = 0

-----------------------------------------------------------------------------
(* Docker. *)

Running(d) == {s \in DOMAIN d : d[s] # None /\ d[s].running}

\* The names under which a container is known on its node's network: its aliases
\* and, with Docker, its Docker name.
DnsNames(n, c) == BuildNetworkAliases(n, c) \cup {<<<<"klite">> \o DockerName(n, c)>>}

\* The containers for which Docker's DNS gives an answer in node n's network.
Answering(d, n, name) == {s \in Running(d) : d[s].node = n /\ name \in DnsNames(n, d[s].name)}

\* Host ports are Docker's to give: one container each.
PortsFree(d, config) ==
    /\ \A q, r \in DOMAIN config.bindings :
          config.bindings[q] = config.bindings[r] => q = r
    /\ \A s \in Running(d) : HostPorts(d[s].config) \cap HostPorts(config) = {}

\* nginx exits unless the names of its upstreams resolve.
UpstreamsUp(d, n, nginx) ==
    /\ \A i \in DOMAIN nginx.services : nginx.services[i].isLocal =>
          Answering(d, n, FullName(nginx.services[i].targetContainer, n)) # {}
    /\ \A i \in DOMAIN nginx.routes :
          Answering(d, n, nginx.routes[i].upstream) # {}

\* Two servers or two locations for the same: what nginx does depends on the
\* version, it may refuse its configuration.
Clashing(nginx) ==
    \/ \E i, j \in DOMAIN nginx.services :
          i # j /\ nginx.services[i].port = nginx.services[j].port
    \/ \E i \in DOMAIN nginx.services : nginx.services[i].port = DefaultNginxPort
    \/ \E i, j \in DOMAIN nginx.routes :
          i # j /\ nginx.routes[i].path = nginx.routes[j].path

\* nginx-proxy has read the file it started with.
NginxFile(n, c) == IF c = NginxProxy THEN conf[n].nginx ELSE None
Container(n, spec, config, up) ==
    [node |-> n, name |-> spec.name, config |-> config, running |-> up,
     nginx |-> NginxFile(n, spec.name)]

Outcomes(d, n, c) ==
    IF c # NginxProxy THEN {TRUE}
    ELSE IF ~UpstreamsUp(d, n, conf[n].nginx) THEN {FALSE}
    ELSE IF Clashing(conf[n].nginx) THEN BOOLEAN ELSE {TRUE}

-----------------------------------------------------------------------------
(* Apply *)

\* Parse accepts the manifest, runApply goes on to the engine.
Apply(m) ==
    /\ pc = "idle" /\ Valid(Content[m])
    /\ job' = m /\ k' = 1 /\ pc' = "node"
    /\ errs' = FALSE /\ replaced' = {} /\ calm' = TRUE
    /\ UNCHANGED <<docker, conf, todo, settled, tried, exits>>

\* The node's files are written and its containers determined.
BeginNode ==
    LET node == Content[job].nodes[k]
    IN  /\ pc = "node"
        /\ conf' = [conf EXCEPT ![node.name] =
                      [nginx |-> NginxConf(Content[job], node), hosts |-> HostsFile(Content[job])]]
        /\ todo' = ToApply(job, k)
        /\ pc' = "container"
        /\ UNCHANGED <<docker, job, k, errs, history, exits>>

\* Mutant of Proceed: the node loop runs one past its end.
ProceedPastLast ==
    /\ todo' = Tail(todo)
    /\ IF Len(todo) > 1 THEN UNCHANGED <<pc, k>>
       ELSE IF k <= Len(Content[job].nodes) THEN pc' = "node" /\ k' = k + 1
       ELSE pc' = "end" /\ UNCHANGED k

\* On to the next container, the next node, or the error check.
Proceed ==
    /\ todo' = Tail(todo)
    /\ IF Len(todo) > 1 THEN UNCHANGED <<pc, k>>
       ELSE IF k < Len(Content[job].nodes) THEN pc' = "node" /\ k' = k + 1
       ELSE pc' = "end" /\ UNCHANGED k

\* The containers that need no change: never nginx-proxy, whose files are new.
Kept(existing, spec) ==
    /\ existing # None
    /\ spec.name # NginxProxy
    /\ existing.running
    /\ SpecMatches(spec, existing.config)

Keep ==
    LET n == Content[job].nodes[k].name
    IN  /\ pc = "container"
        /\ Kept(docker[DockerName(n, Head(todo).name)], Head(todo))
        /\ Proceed
        /\ UNCHANGED <<docker, conf, job, errs, history, exits>>

\* Mutant of Recreate: the old container goes only once the new one is accepted.
RecreateLate ==
    LET n == Content[job].nodes[k].name
        spec == Head(todo)
        s == DockerName(n, spec.name)
        config == ConfigOf(spec)
        accepted == Creatable(config) /\ PortsFree(docker, config)
    IN  /\ pc = "container"
        /\ ~Kept(docker[s], spec)
        /\ replaced' = replaced \cup {s}
        /\ \E up \in Outcomes(docker, n, spec.name) :
              docker' = IF accepted
                        THEN [docker EXCEPT ![s] = Container(n, spec, config, up)]
                        ELSE docker
        /\ errs' = (errs \/ ~accepted)
        /\ Proceed
        /\ UNCHANGED <<conf, job, settled, tried, calm, exits>>

\* The old container is removed, then the new one created and started.
Recreate ==
    LET n == Content[job].nodes[k].name
        spec == Head(todo)
        s == DockerName(n, spec.name)
        config == ConfigOf(spec)
        rest == [docker EXCEPT ![s] = None]
    IN  /\ pc = "container"
        /\ ~Kept(docker[s], spec)
        /\ replaced' = replaced \cup {s}
        /\ \/ /\ Creatable(config) /\ PortsFree(rest, config)
              /\ \E up \in Outcomes(rest, n, spec.name) :
                    docker' = [docker EXCEPT ![s] = Container(n, spec, config, up)]
              /\ UNCHANGED errs
           \/ /\ Creatable(config) /\ ~PortsFree(rest, config)
              /\ docker' = [docker EXCEPT ![s] = Container(n, spec, config, FALSE)]
              /\ errs' = TRUE
           \/ /\ ~Creatable(config)
              /\ docker' = rest
              /\ errs' = TRUE
        /\ Proceed
        /\ UNCHANGED <<conf, job, settled, tried, calm, exits>>

\* Apply returns.
Return ==
    /\ pc = "end"
    /\ pc' = "idle" /\ job' = None /\ k' = 0
    /\ errs' = FALSE /\ replaced' = {}
    /\ settled' = IF ~errs /\ Names[job] \subseteq Running(docker) THEN job ELSE None
    /\ tried' = job
    /\ UNCHANGED <<docker, conf, todo, calm, exits>>

-----------------------------------------------------------------------------

\* Delete, with its containers by name; the files stay.
Delete(m) ==
    /\ pc = "idle" /\ Valid(Content[m])
    /\ docker' = [s \in DOMAIN docker |-> IF s \in Names[m] THEN None ELSE docker[s]]
    /\ settled' = None /\ tried' = None
    /\ UNCHANGED <<conf, pc, job, k, todo, errs, replaced, calm, exits>>

\* A container's main process exits.
ContainerExit(s) ==
    /\ exits < MaxExits
    /\ s \in Running(docker)
    /\ docker' = [docker EXCEPT ![s].running = FALSE]
    /\ exits' = exits + 1
    /\ settled' = None /\ calm' = FALSE
    /\ UNCHANGED <<conf, pc, job, k, todo, errs, replaced, tried>>

\* The reconciler starts a stopped container, which reads its file again.
StartStopped(s) ==
    /\ docker[s] # None /\ ~docker[s].running
    /\ LET d == docker[s]
       IN  /\ PortsFree(docker, d.config)
           /\ \E up \in Outcomes(docker, d.node, d.name) :
                 docker' = [docker EXCEPT ![s].running = up,
                                          ![s].nginx = NginxFile(d.node, d.name)]
    /\ UNCHANGED <<conf, pc, job, k, todo, errs, history, exits>>

Next ==
    \/ \E m \in Manifest : Apply(m) \/ Delete(m)
    \/ BeginNode \/ Keep \/ Recreate \/ Return
    \/ \E s \in AllNames : ContainerExit(s) \/ StartStopped(s)

Spec == Init /\ [][Next]_vars

-----------------------------------------------------------------------------
(* Properties. *)

TypeOK ==
    /\ pc \in {"idle", "node", "container", "end"}
    /\ job \in Manifest \cup {None}
    /\ IF job = None THEN k = 0 ELSE k \in DOMAIN Content[job].nodes
    /\ errs \in BOOLEAN /\ calm \in BOOLEAN
    /\ replaced \subseteq DOMAIN docker
    /\ {settled, tried} \subseteq Manifest \cup {None}
    /\ exits \in 0..MaxExits
    /\ \A s \in DOMAIN docker : docker[s] = None \/
          /\ docker[s].running \in BOOLEAN
          /\ DockerName(docker[s].node, docker[s].name) = s
          /\ Creatable(docker[s].config)
    /\ \A n \in DOMAIN conf : conf[n] = None \/ DOMAIN conf[n] = {"nginx", "hosts"}

\* The last entry of a manifest for its Docker name.
NotAfter(q, p) == \/ q.at[1] < p.at[1]
                  \/ q.at[1] = p.at[1] /\ q.at[2] <= p.at[2]
IsLast(m, p) == \A q \in Planned[m] : NameOf(q) = NameOf(p) => NotAfter(q, p)

\* What a container may owe to an earlier spec: a pinned image, variables the
\* spec no longer sets, and a command when the spec has none.
GoodFor(spec, config) ==
    LET fresh == ConfigOf(spec)
    IN  /\ config.image.ref = fresh.image.ref
        /\ spec.image.digest # None => config.image = fresh.image
        /\ config.bindings = fresh.bindings
        /\ Range(config.binds) = Range(fresh.binds)
        /\ \A v \in DOMAIN spec.env : config.env[v] = spec.env[v]
        /\ spec.command # <<>> => config.cmd = spec.command
        /\ config.dns = fresh.dns /\ config.ip = fresh.ip

\* manager.go:344-345, config.go:127-149: when Apply succeeds, each of its
\* containers, kept or new, gives what its spec asks for; of entries for one
\* Docker name, which validation lets pass, the last one wins.
ApplyGivesSpec ==
    pc = "end" /\ ~errs =>
        \A p \in Planned[job] : IsLast(job, p) =>
            docker[NameOf(p)] # None /\ GoodFor(p.spec, docker[NameOf(p)].config)

\* No two entries of the manifest fight for a name, a port or a path.
PortsOf(m) == UNION {{<<p, q>> : q \in DOMAIN ConfigOf(p.spec).bindings} : p \in Planned[m]}
HostPort(x) == ConfigOf(x[1].spec).bindings[x[2]]
NamesClash(m) == \E p, q \in Planned[m] : p # q /\ NameOf(p) = NameOf(q)
PortsClash(m) == \E x, y \in PortsOf(m) : x # y /\ HostPort(x) = HostPort(y)
Refused(m) == \E p \in Planned[m] : ~Creatable(ConfigOf(p.spec))

-----------------------------------------------------------------------------
(* The way of a connection. *)

\* Server blocks for a port of a running nginx-proxy, if there is just one.
Server(s, port) ==
    LET d == docker[s]
        blocks == {i \in DOMAIN d.nginx.services : d.nginx.services[i].port = port}
    IN  IF s \notin Running(docker) \/ d.nginx = None \/ Cardinality(blocks) # 1
           \/ port = DefaultNginxPort
        THEN {} ELSE {d.nginx.services[i] : i \in blocks}

\* Containers behind the local services of nginx-proxy s.
Behind(s, port) ==
    LET n == docker[s].node
    IN  UNION {Answering(docker, n, FullName(r.targetContainer, n)) :
                   r \in {x \in Server(s, port) : x.isLocal}}

\* host.docker.internal:hostPort, as <<container, port inside>>.
AtHost(hostPort) ==
    UNION {{<<s, q[1]>> : q \in {x \in DOMAIN docker[s].config.bindings :
                                    docker[s].config.bindings[x] = hostPort}} :
               s \in Running(docker)}

\* The proxy of node n at the address that the hosts file gives for the service,
\* then its container or the proxy of another node.
ThroughProxy(n, svc) ==
    LET s == DockerName(n, NginxProxy)
        there == {r \in Server(s, svc.port) : ~r.isLocal}
    IN  IF docker[s] = None \/ conf[n].hosts[svc.name] # docker[s].config.ip THEN {}
        ELSE Behind(s, svc.port)
             \cup UNION {UNION {Behind(x[1], x[2]) : x \in AtHost(r.targetNodeProxyPort)} :
                            r \in there}

\* From a container of node n by the service's name: Docker's DNS asks the node's
\* dnsmasq only for names that no container of the network has.
Reached(n, svc) ==
    LET bearers == Answering(docker, n, <<svc.name>>)
    IN  IF bearers # {} THEN bearers ELSE ThroughProxy(n, svc)

\* From the host: proxyPort of node n, then the location of the path.
Exposed(proxyPort, path) ==
    UNION {UNION {Answering(docker, docker[x[1]].node, docker[x[1]].nginx.routes[i].upstream) :
                     i \in {j \in DOMAIN docker[x[1]].nginx.routes :
                               docker[x[1]].nginx.routes[j].path = path}} :
              x \in {y \in AtHost(proxyPort) :
                        y[2] = DefaultNginxPort /\ docker[y[1]].nginx # None}}

\* challenges.txt item 8, testing.txt "Test Cross-Node Service Call": when Apply
\* succeeds and no container exits, every exposed path is reached from the host,
\* and every service reaches its container from every node, but for those where a
\* container that is not the service's has its name: that one is reached instead.
\* (The names are those of the hosts file; what dnsmasq has read of it is Engine's
\* DnsServesManifest.)
RoutesReach ==
    pc = "end" /\ ~errs /\ calm /\ ~NamesClash(job) =>
        \A i \in DOMAIN Content[job].nodes :
            LET n == Content[job].nodes[i]
            IN  ~Clashing(conf[n.name].nginx) =>
                /\ \A j \in DOMAIN Content[job].services :
                      LET svc == Content[job].services[j]
                          target == DockerName(svc.target[1], svc.target[2])
                      IN  /\ \A l \in DOMAIN Content[job].nodes :
                                ~Clashing(conf[Content[job].nodes[l].name].nginx)
                          /\ Answering(docker, n.name, <<svc.name>>) \subseteq {target}
                          => Reached(n.name, svc) = {target}
                /\ n.proxyPort > 0 => \A c \in DOMAIN n.containers :
                      n.containers[c].expose # None =>
                          Exposed(n.proxyPort, n.containers[c].expose.path)
                              = {DockerName(n.name, n.containers[c].name)}

\* The theorem about ApplyGivesSpec is for these manifests: an injected container
\* shares its Docker name only with its like, or with other images.
InjectedApart(m) ==
    \A p \in Planned[m] : \A l \in Manifest : \A q \in Planned[l] :
        NameOf(q) = NameOf(p) =>
            \/ q.spec.name = p.spec.name
            \/ {q.spec.name, p.spec.name} \cap {Dnsmasq, NginxProxy} = {}
            \/ q.spec.image.ref # p.spec.image.ref

\* So are all, where user containers keep off the names and the images of the
\* injected ones.
OwnNamesAndImages ==
    \A m \in Manifest : \A i \in DOMAIN Content[m].nodes :
        LET containers == Content[m].nodes[i].containers
        IN  \A c \in DOMAIN containers :
               /\ containers[c].name \notin {Dnsmasq, NginxProxy}
               /\ containers[c].image.ref \notin {"dnsmasq", "nginx"}

\* The theorem about RoutesReach is for these manifests: wherever a Docker name is
\* also that of a container of another node, images tell the two apart; and no
\* proxy port is negative, for a sum below 1 would not be published.
ImagesTellApart(m) ==
    \A p \in Planned[m] : \A l \in Manifest : \A q \in Planned[l] :
        NameOf(q) = NameOf(p) => \/ q.node = p.node /\ q.spec.name = p.spec.name
                                 \/ q.spec.image.ref # p.spec.image.ref
NoNegativePort(m) == \A i \in DOMAIN Content[m].nodes : Content[m].nodes[i].proxyPort >= 0

\* Applying a manifest again, with all its containers up, replaces nginx-proxy
\* and nothing else.
ApplyIsIdempotent ==
    pc = "end" /\ settled = job /\ ~NamesClash(job) =>
        ~errs /\ replaced = {DockerName(Content[job].nodes[i].name, NginxProxy) :
                                 i \in DOMAIN Content[job].nodes}

\* What can make an Apply of m fail.
InTheWay(m) ==
    \/ Refused(m)
    \/ PortsClash(m)
    \/ \E s \in AllNames \ Names[m], x \in PortsOf(m) :
          docker[s] # None /\ HostPort(x) \in HostPorts(docker[s].config)

\* A failed Apply may be repeated: the second time only the manifest itself or a
\* container that it does not name can be in the way.  (The first time two nodes
\* that swap ports are.)
RetrySucceeds ==
    pc = "end" /\ errs /\ tried = job /\ ~NamesClash(job) => InTheWay(job)
=============================================================================
