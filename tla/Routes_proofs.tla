---------------------------- MODULE Routes_proofs ----------------------------
(***************************************************************************)
(* Proofs about the routes of Rollout: what a successful Apply leaves      *)
(* behind answers, from every node and from the host.                      *)
(***************************************************************************)
EXTENDS Rollout_proofs

Entry(m, i, j) ==
    [node |-> NodeOf(m, i).name, spec |-> ToApply(m, i)[j], at |-> <<i, j>>]
Proxy(m, i) == NginxSpec(NodeOf(m, i), ServiceRoutes(Content[m], NodeOf(m, i).name))
Files(m, i) ==
    [nginx |-> NginxConf(Content[m], NodeOf(m, i)), hosts |-> HostsFile(Content[m])]

\* The files of the nodes that Apply has begun are its manifest's.
Begun(i) == i < k \/ (i = k /\ pc # "node")
FilesInv ==
    job # None =>
        /\ Valid(Content[job])
        /\ ~NamesClash(job) => \A i \in DOMAIN Nodes(job) :
              Begun(i) => conf[NodeOf(job, i).name] = Files(job, i)

\* The container d serves entry p: it is the entry's, in its node, with its ports,
\* and runs; nginx-proxy runs unless nginx may refuse its file.
ServedBy(p, d, files) ==
    /\ d # None
    /\ d.node = p.node /\ d.name = p.spec.name
    /\ d.config.bindings = ConfigOf(p.spec).bindings
    /\ p.spec.name # NginxProxy => d.running
    /\ p.spec.name = NginxProxy =>
          /\ d.config.ip = NginxServiceIP
          /\ d.nginx = files.nginx
          /\ ~Clashing(d.nginx) => d.running
Serves(p) == ServedBy(p, docker[NameOf(p)], conf[p.node])

ServingInv ==
    job # None /\ ~errs /\ calm /\ ~NamesClash(job) /\ ImagesTellApart(job) =>
        \A p \in Planned[job] : Passed(p.at) => Serves(p)

-----------------------------------------------------------------------------
(* Entries of the plan. *)

\* The containers of a node come after dnsmasq and before nginx-proxy.
LEMMA OwnEntry ==
    ASSUME NEW m \in Manifest, NEW i \in DOMAIN Nodes(m),
           NEW c \in DOMAIN NodeOf(m, i).containers
    PROVE  /\ c + 1 \in DOMAIN ToApply(m, i) /\ c \in Nat
           /\ c + 1 < Len(ToApply(m, i))
           /\ ToApply(m, i)[c + 1] = NodeOf(m, i).containers[c]
           /\ Entry(m, i, c + 1) \in Planned[m]
           /\ NameOf(Entry(m, i, c + 1))
                 = DockerName(NodeOf(m, i).name, NodeOf(m, i).containers[c].name)
  <1> DEFINE own == NodeOf(m, i).containers
             first == DnsmasqSpec(NodeOf(m, i))
             all == ToApply(m, i)
  <1>1. own \in Seq(Range(own))
    BY NodesAreLists
  <1>2. all = <<first>> \o own \o <<Proxy(m, i)>>
    BY DEF ToApply, InjectRoutingContainers, NodeOf, Proxy
  <1>3. DOMAIN all = 1..Len(all)
    BY ToApplyFacts
  <1>4. c \in 1..Len(own) /\ Len(own) \in Nat
    BY <1>1
  <1>5. Len(all) = Len(own) + 2 /\ all[c + 1] = own[c]
    <2> DEFINE X == {first, Proxy(m, i)} \cup Range(own)
    <2>1. own \in Seq(X) /\ first \in X /\ Proxy(m, i) \in X
      BY <1>1
    <2> HIDE DEF X, first, own, all
    <2> QED
      BY <1>2, <1>4, <2>1
  <1>6. c + 1 \in DOMAIN all /\ c \in Nat /\ c + 1 < Len(all)
    <2> HIDE DEF own, all
    <2> QED
      BY <1>3, <1>4, <1>5
  <1>7. Entry(m, i, c + 1) \in Planned[m]
    BY <1>6, PlannedFacts DEF Entry
  <1>8. NameOf(Entry(m, i, c + 1)) = DockerName(NodeOf(m, i).name, own[c].name)
    BY <1>5 DEF NameOf, Entry
  <1> QED
    BY <1>5, <1>6, <1>7, <1>8

LEMMA ProxyEntry ==
    ASSUME NEW m \in Manifest, NEW i \in DOMAIN Nodes(m)
    PROVE  LET p == Entry(m, i, Len(ToApply(m, i)))
           IN  /\ p \in Planned[m] /\ p.spec = Proxy(m, i) /\ p.spec.name = NginxProxy
               /\ p.node = NodeOf(m, i).name /\ p.at = <<i, Len(ToApply(m, i))>>
               /\ NameOf(p) = DockerName(NodeOf(m, i).name, NginxProxy)
  <1>1. /\ Len(ToApply(m, i)) \in DOMAIN ToApply(m, i)
        /\ ToApply(m, i)[Len(ToApply(m, i))] = Proxy(m, i)
    BY ToApplyFacts DEF Proxy
  <1>2. Entry(m, i, Len(ToApply(m, i))) \in Planned[m]
    BY <1>1, PlannedFacts DEF Entry
  <1>3. Proxy(m, i).name = NginxProxy
    BY DEF Proxy, NginxSpec
  <1> QED
    BY <1>1, <1>2, <1>3 DEF Entry, NameOf

\* No two nodes have one name, or their proxies would.
LEMMA NodesDiffer ==
    ASSUME NEW m \in Manifest, ~NamesClash(m),
           NEW i \in DOMAIN Nodes(m), NEW l \in DOMAIN Nodes(m),
           NodeOf(m, i).name = NodeOf(m, l).name
    PROVE  i = l
  <1> DEFINE p(x) == Entry(m, x, Len(ToApply(m, x)))
  <1>1. /\ p(i) \in Planned[m] /\ p(l) \in Planned[m] /\ NameOf(p(i)) = NameOf(p(l))
        /\ p(i).at[1] = i /\ p(l).at[1] = l
    BY ProxyEntry
  <1> HIDE DEF p
  <1> QED
    BY <1>1 DEF NamesClash

\* nginx-proxy is the injected one, and the last of its node.
LEMMA ProxyIsLast ==
    ASSUME NEW m \in Manifest, ~NamesClash(m), NEW p \in Planned[m], p.spec.name = NginxProxy
    PROVE  \E i \in DOMAIN Nodes(m) : p = Entry(m, i, Len(ToApply(m, i)))
  <1>1. PICK i \in DOMAIN Nodes(m) : NameOf(p) = DockerName(NodeOf(m, i).name, NginxProxy)
    BY ProxyFacts DEF Proxies
  <1>2. Entry(m, i, Len(ToApply(m, i))) \in Planned[m]
        /\ NameOf(p) = NameOf(Entry(m, i, Len(ToApply(m, i))))
    BY <1>1, ProxyEntry
  <1> QED
    BY <1>2 DEF NamesClash

\* A user container does not have nginx-proxy's name.
LEMMA OwnIsNoProxy ==
    ASSUME NEW m \in Manifest, ~NamesClash(m), NEW i \in DOMAIN Nodes(m),
           NEW c \in DOMAIN NodeOf(m, i).containers
    PROVE  NodeOf(m, i).containers[c].name # NginxProxy
  <1> DEFINE p == Entry(m, i, c + 1)
             q == Entry(m, i, Len(ToApply(m, i)))
  <1>1. SUFFICES ASSUME NodeOf(m, i).containers[c].name = NginxProxy
                 PROVE  FALSE
    OBVIOUS
  <1>2. p \in Planned[m] /\ q \in Planned[m] /\ NameOf(p) = NameOf(q)
    BY <1>1, OwnEntry, ProxyEntry
  <1>3. p.at[2] = c + 1 /\ q.at[2] = Len(ToApply(m, i))
    BY DEF Entry
  <1>4. c + 1 # Len(ToApply(m, i))
    BY OwnEntry, ToApplyFacts
  <1> HIDE DEF p, q
  <1> QED
    BY <1>2, <1>3, <1>4 DEF NamesClash

\* The target of a service, as validation finds it.
LEMMA ServiceTarget ==
    ASSUME NEW m \in Manifest, Valid(Content[m]), NEW j \in DOMAIN Content[m].services
    PROVE  LET svc == Content[m].services[j]
           IN  /\ Len(svc.target) = 2 /\ svc.port \in Int /\ svc.port > 0
               /\ \E i \in DOMAIN Nodes(m) : \E c \in DOMAIN NodeOf(m, i).containers :
                     /\ NodeOf(m, i).name = svc.target[1]
                     /\ NodeOf(m, i).containers[c].name = svc.target[2]
  <1>1. ServiceValid(Content[m], j)
    BY DEF Valid, ValidateServices
  <1> QED
    BY <1>1, ContentAssumption DEF ServiceValid, TargetExists, Nodes, NodeOf

\* The ports of a manifest are integers.
LEMMA PortTypes ==
    ASSUME NEW m \in Manifest, NEW i \in DOMAIN Nodes(m)
    PROVE  NodeOf(m, i).proxyPort \in Int
  BY ContentAssumption DEF Nodes, NodeOf

LEMMA ProxyPortOfNode ==
    ASSUME NEW m \in Manifest, ~NamesClash(m), NEW i \in DOMAIN Nodes(m)
    PROVE  NodeProxyPort(Content[m], NodeOf(m, i).name) = NodeOf(m, i).proxyPort
  <1>1. {l \in DOMAIN Nodes(m) : NodeOf(m, l).name = NodeOf(m, i).name} = {i}
    BY NodesDiffer
  <1>2. LastOf({i}) = i
    <2>1. i \in Nat
      BY NodesAreLists
    <2> QED
      BY <2>1 DEF LastOf
  <1> QED
    BY <1>1, <1>2 DEF NodeProxyPort, Nodes, NodeOf

-----------------------------------------------------------------------------
(* Routes and published ports. *)

Services(m) == Content[m].services
NodeRoutes(m, i) == ServiceRoutes(Content[m], NodeOf(m, i).name)
IsLocal(m, i, j) == NodeOf(m, i).name = Services(m)[j].target[1]

LEMMA RouteFacts ==
    ASSUME NEW m, NEW svc, NEW n
    PROVE  LET r == Route(m, svc, n)
           IN  /\ r.port = svc.port /\ r.targetContainer = svc.target[2]
               /\ r.isLocal = (n = svc.target[1])
               /\ r.targetNodeProxyPort
                     = PublishedPort(NodeProxyPort(m, svc.target[1]), svc.port)
  BY DEF Route

\* A node has one route for every service.
LEMMA RoutesOfNode ==
    ASSUME NEW m \in Manifest, Valid(Content[m]), ~NamesClash(m), NEW i \in DOMAIN Nodes(m)
    PROVE  /\ \A j \in DOMAIN Services(m) :
                 /\ <<j, i>> \in DOMAIN NodeRoutes(m, i)
                 /\ NodeRoutes(m, i)[<<j, i>>]
                       = Route(Content[m], Services(m)[j], NodeOf(m, i).name)
           /\ \A x \in DOMAIN NodeRoutes(m, i) :
                 x[1] \in DOMAIN Services(m) /\ x = <<x[1], i>>
  <1> DEFINE routed == {j \in DOMAIN Services(m) : Len(Services(m)[j].target) = 2}
             here == {l \in DOMAIN Nodes(m) : NodeOf(m, l).name = NodeOf(m, i).name}
  <1>1. here = {i}
    BY NodesDiffer
  <1>2. routed = DOMAIN Services(m)
    BY ServiceTarget DEF Services
  <1>3. NodeRoutes(m, i) = [x \in routed \X here |->
                               Route(Content[m], Services(m)[x[1]], NodeOf(m, i).name)]
    BY DEF NodeRoutes, ServiceRoutes, Services, Nodes, NodeOf
  <1> HIDE DEF routed, here
  <1> QED
    BY <1>1, <1>2, <1>3

\* Where nginx has no reason to refuse its file, services have ports of their own.
LEMMA PortsOfTheirOwn ==
    ASSUME NEW m \in Manifest, Valid(Content[m]), ~NamesClash(m), NEW i \in DOMAIN Nodes(m),
           ~Clashing(NginxConf(Content[m], NodeOf(m, i)))
    PROVE  /\ \A j \in DOMAIN Services(m) : Services(m)[j].port # DefaultNginxPort
           /\ \A j, l \in DOMAIN Services(m) : Services(m)[j].port = Services(m)[l].port => j = l
  <1> DEFINE routes == NodeRoutes(m, i)
  <1>1. NginxConf(Content[m], NodeOf(m, i)).services = routes
    BY DEF NginxConf, NodeRoutes
  <1>2. \A j \in DOMAIN Services(m) :
           <<j, i>> \in DOMAIN routes /\ routes[<<j, i>>].port = Services(m)[j].port
    BY RoutesOfNode, RouteFacts
  <1>3. \A x, y \in DOMAIN routes : routes[x].port = routes[y].port => x = y
    BY <1>1 DEF Clashing
  <1>4. \A x \in DOMAIN routes : routes[x].port # DefaultNginxPort
    BY <1>1 DEF Clashing
  <1> HIDE DEF routes
  <1>5. ASSUME NEW j \in DOMAIN Services(m), NEW l \in DOMAIN Services(m),
               Services(m)[j].port = Services(m)[l].port
        PROVE  j = l
    <2>1. <<j, i>> = <<l, i>>
      BY <1>2, <1>3, <1>5
    <2> QED
      BY <2>1
  <1> QED
    BY <1>2, <1>4, <1>5

\* What nginx-proxy publishes: its HTTP port, and the local services.
LEMMA ProxyPorts ==
    ASSUME NEW m \in Manifest, Valid(Content[m]), ~NamesClash(m), NEW i \in DOMAIN Nodes(m)
    PROVE  LET ports == Proxy(m, i).ports
               port == NodeOf(m, i).proxyPort
           IN  /\ 0 \in DOMAIN ports /\ ports[0] = Publish(DefaultNginxPort, port)
               /\ \A j \in DOMAIN Services(m) : IsLocal(m, i, j) =>
                     /\ j \in DOMAIN ports
                     /\ ports[j] = Publish(Services(m)[j].port,
                                           PublishedPort(port, Services(m)[j].port))
               /\ \A x \in DOMAIN ports : x = 0 \/ (x \in DOMAIN Services(m) /\ IsLocal(m, i, x))
               /\ \A x \in DOMAIN ports : x \in Nat
  <1> DEFINE routes == NodeRoutes(m, i)
             node == NodeOf(m, i)
             locals == {x \in DOMAIN routes : routes[x].isLocal}
             port == [j \in {x[1] : x \in locals} |-> routes[CHOOSE x \in locals : x[1] = j].port]
             ports == Proxy(m, i).ports
  <1>1. ports = [x \in {0} \cup DOMAIN port |->
                    IF x = 0 THEN Publish(DefaultNginxPort, node.proxyPort)
                    ELSE Publish(port[x], PublishedPort(node.proxyPort, port[x]))]
    BY DEF Proxy, NginxSpec, NginxPorts, NodeRoutes
  <1>2. /\ \A j \in DOMAIN Services(m) :
              /\ <<j, i>> \in DOMAIN routes
              /\ routes[<<j, i>>].port = Services(m)[j].port
              /\ routes[<<j, i>>].isLocal = IsLocal(m, i, j)
        /\ \A x \in DOMAIN routes : x[1] \in DOMAIN Services(m) /\ x = <<x[1], i>>
    <2>1. \A j \in DOMAIN Services(m) :
             LET r == Route(Content[m], Services(m)[j], NodeOf(m, i).name)
             IN  r.port = Services(m)[j].port /\ r.isLocal = IsLocal(m, i, j)
      BY RouteFacts DEF IsLocal
    <2> QED
      BY <2>1, RoutesOfNode
  <1>3. DOMAIN Services(m) \subseteq Nat \ {0}
    <2>1. Services(m) \in Seq(Range(Services(m)))
      BY ContentAssumption DEF IsList, Services
    <2> QED
      BY <2>1
  <1> HIDE DEF routes, node, ports
  <1>4. \A j : j \in DOMAIN port <=> j \in DOMAIN Services(m) /\ IsLocal(m, i, j)
    <2>1. ASSUME NEW j \in DOMAIN port PROVE j \in DOMAIN Services(m) /\ IsLocal(m, i, j)
      <3>1. PICK x \in locals : j = x[1]
        OBVIOUS
      <3>2. x \in DOMAIN routes /\ routes[x].isLocal /\ x = <<j, i>> /\ j \in DOMAIN Services(m)
        BY <1>2, <3>1
      <3> QED
        BY <1>2, <3>2
    <2>2. ASSUME NEW j \in DOMAIN Services(m), IsLocal(m, i, j) PROVE j \in DOMAIN port
      <3>1. <<j, i>> \in locals /\ <<j, i>>[1] = j
        BY <1>2, <2>2
      <3>2. j \in {x[1] : x \in locals}
        BY <3>1
      <3> QED
        BY <3>2
    <2> QED
      BY <2>1, <2>2
  <1>5. ASSUME NEW j \in DOMAIN port PROVE port[j] = Services(m)[j].port
    <2> DEFINE x == CHOOSE y \in locals : y[1] = j
    <2>1. x \in locals /\ x[1] = j
      BY <1>5
    <2> HIDE DEF x
    <2>2. x = <<j, i>>
      BY <1>2, <2>1
    <2>3. port[j] = routes[x].port
      BY <1>5 DEF x
    <2>4. j \in DOMAIN Services(m)
      BY <1>4, <1>5
    <2> QED
      BY <1>2, <2>2, <2>3, <2>4
  <1> HIDE DEF port
  <1>6. DOMAIN ports = {0} \cup DOMAIN port
    BY <1>1
  <1>7. 0 \in DOMAIN ports /\ ports[0] = Publish(DefaultNginxPort, node.proxyPort)
    BY <1>1
  <1>8. ASSUME NEW j \in DOMAIN Services(m), IsLocal(m, i, j)
        PROVE  /\ j \in DOMAIN ports
               /\ ports[j] = Publish(Services(m)[j].port,
                                     PublishedPort(node.proxyPort, Services(m)[j].port))
    BY <1>1, <1>3, <1>4, <1>5, <1>8
  <1>9. \A x \in DOMAIN ports : x = 0 \/ (x \in DOMAIN Services(m) /\ IsLocal(m, i, x))
    BY <1>4, <1>6
  <1>10. \A x \in DOMAIN ports : x \in Nat
    BY <1>3, <1>9
  <1> QED
    BY <1>7, <1>8, <1>9, <1>10 DEF node, ports

\* The binding of a port that no other entry asks for.
LEMMA OnlyBinding ==
    ASSUME NEW ports, NEW i \in DOMAIN ports, i \in Nat, ports[i].hostPort > 0,
           \A j \in DOMAIN ports : NatPort(ports[j]) = NatPort(ports[i]) => j = i
    PROVE  /\ NatPort(ports[i]) \in DOMAIN BuildPortBindings(ports)
           /\ BuildPortBindings(ports)[NatPort(ports[i])] = ports[i].hostPort
  <1> DEFINE published == {j \in DOMAIN ports : ports[j].hostPort > 0}
             q == NatPort(ports[i])
  <1>1. {j \in published : NatPort(ports[j]) = q} = {i}
    OBVIOUS
  <1>2. LastOf({i}) = i
    BY DEF LastOf
  <1>3. q \in {NatPort(ports[j]) : j \in published}
    OBVIOUS
  <1>4. BuildPortBindings(ports) = [x \in {NatPort(ports[j]) : j \in published} |->
            ports[LastOf({j \in published : NatPort(ports[j]) = x})].hostPort]
    BY DEF BuildPortBindings
  <1> HIDE DEF published, q
  <1>5. q \in DOMAIN BuildPortBindings(ports)
        /\ BuildPortBindings(ports)[q] = ports[LastOf({i})].hostPort
    BY <1>1, <1>3, <1>4
  <1> QED
    BY <1>2, <1>5 DEF q

LEMMA PublishFacts ==
    ASSUME NEW c, NEW h
    PROVE  /\ Publish(c, h).containerPort = c /\ Publish(c, h).hostPort = h
           /\ c \in 0..MaxPort => NatPort(Publish(c, h)) = <<c, "tcp">>
           /\ c \notin 0..MaxPort => NatPort(Publish(c, h)) = NoPort
           /\ NoPort # <<c, "tcp">>
           /\ \A d : <<c, "tcp">> = <<d, "tcp">> => c = d
  <1>1. Publish(c, h).containerPort = c /\ Publish(c, h).hostPort = h
        /\ Publish(c, h).protocol = ""
    BY DEF Publish
  <1>2. Protocol(Publish(c, h)) = "tcp"
    BY <1>1 DEF Protocol
  <1>3. NatPort(Publish(c, h)) = IF c \in 0..MaxPort THEN <<c, "tcp">> ELSE NoPort
    BY <1>1, <1>2, Zenon DEF NatPort
  <1>4. NoPort # <<c, "tcp">>
    BY DEF NoPort
  <1>5. \A d : <<c, "tcp">> = <<d, "tcp">> => c = d
    OBVIOUS
  <1> QED
    BY <1>1, <1>3, <1>4, <1>5

\* A nginx-proxy with no port that is none, and whose file nginx accepts, has its
\* HTTP port and the ports of the local services on the host.
LEMMA ProxyBindings ==
    ASSUME NEW m \in Manifest, Valid(Content[m]), ~NamesClash(m), NEW i \in DOMAIN Nodes(m),
           ~Clashing(NginxConf(Content[m], NodeOf(m, i))), NoNegativePort(m),
           NoPort \notin DOMAIN ConfigOf(Proxy(m, i)).bindings
    PROVE  LET bindings == ConfigOf(Proxy(m, i)).bindings
               port == NodeOf(m, i).proxyPort
           IN  /\ port > 0 => /\ <<DefaultNginxPort, "tcp">> \in DOMAIN bindings
                              /\ bindings[<<DefaultNginxPort, "tcp">>] = port
               /\ \A j \in DOMAIN Services(m) : IsLocal(m, i, j) =>
                     LET q == <<Services(m)[j].port, "tcp">>
                     IN  /\ q \in DOMAIN bindings
                         /\ bindings[q] = PublishedPort(port, Services(m)[j].port)
  <1> DEFINE ports == Proxy(m, i).ports
             port == NodeOf(m, i).proxyPort
             bindings == ConfigOf(Proxy(m, i)).bindings
             sp(j) == Services(m)[j].port
  <1>1. bindings = BuildPortBindings(ports)
    BY DEF ConfigOf, Created
  <1>2. NoPort \notin DOMAIN bindings
    OBVIOUS
  <1>3. /\ 0 \in DOMAIN ports /\ ports[0] = Publish(DefaultNginxPort, port)
        /\ \A j \in DOMAIN Services(m) : IsLocal(m, i, j) =>
              j \in DOMAIN ports /\ ports[j] = Publish(sp(j), PublishedPort(port, sp(j)))
        /\ \A x \in DOMAIN ports : x = 0 \/ (x \in DOMAIN Services(m) /\ IsLocal(m, i, x))
        /\ \A x \in DOMAIN ports : x \in Nat
    BY ProxyPorts
  <1>4. /\ \A j \in DOMAIN Services(m) : sp(j) # DefaultNginxPort
        /\ \A j, l \in DOMAIN Services(m) : sp(j) = sp(l) => j = l
    BY PortsOfTheirOwn
  <1>5. port \in Int /\ port >= 0
    BY PortTypes DEF NoNegativePort, Nodes, NodeOf
  <1>6. \A j \in DOMAIN Services(m) : sp(j) \in Int /\ sp(j) > 0 /\ PublishedPort(port, sp(j)) > 0
    BY <1>5, ServiceTarget DEF PublishedPort, Services
  <1> HIDE DEF ports, port, bindings, sp
  <1>7. DefaultNginxPort \in 0..MaxPort
    BY DEF DefaultNginxPort, MaxPort
  <1>8. \A x \in DOMAIN ports : \E c, h : ports[x] = Publish(c, h)
    BY <1>3
  <1>9. ASSUME NEW j \in DOMAIN Services(m), IsLocal(m, i, j)
        PROVE  sp(j) \in 0..MaxPort
    <2>1. SUFFICES ASSUME sp(j) \notin 0..MaxPort PROVE NoPort \in DOMAIN bindings
      BY <1>2
    <2>2. j \in DOMAIN ports /\ ports[j].hostPort > 0 /\ NatPort(ports[j]) = NoPort
      BY <1>3, <1>6, <1>9, <2>1, PublishFacts
    <2>3. NatPort(ports[j]) \in DOMAIN BuildPortBindings(ports)
      BY <2>2 DEF BuildPortBindings
    <2> QED
      BY <1>1, <2>2, <2>3
  <1>10. /\ NatPort(ports[0]) = <<DefaultNginxPort, "tcp">> /\ ports[0].hostPort = port
         /\ \A j \in DOMAIN Services(m) : IsLocal(m, i, j) =>
               /\ NatPort(ports[j]) = <<sp(j), "tcp">>
               /\ ports[j].hostPort = PublishedPort(port, sp(j))
    BY <1>3, <1>7, <1>9, PublishFacts
  <1>11. \A x, y \in DOMAIN ports : NatPort(ports[x]) = NatPort(ports[y]) => x = y
    <2> DEFINE cp(x) == IF x = 0 THEN DefaultNginxPort ELSE sp(x)
    <2>1. \A x \in DOMAIN ports : x # 0 => x \in DOMAIN Services(m) /\ IsLocal(m, i, x)
      BY <1>3
    <2>2. \A x \in DOMAIN ports : NatPort(ports[x]) = <<cp(x), "tcp">>
      BY <1>10, <2>1
    <2>3. \A x, y \in DOMAIN ports : cp(x) = cp(y) => x = y
      BY <1>4, <2>1
    <2> HIDE DEF cp
    <2> QED
      BY <2>2, <2>3
  <1>12. port > 0 => /\ <<DefaultNginxPort, "tcp">> \in DOMAIN bindings
                     /\ bindings[<<DefaultNginxPort, "tcp">>] = port
    BY <1>1, <1>3, <1>10, <1>11, OnlyBinding
  <1>13. ASSUME NEW j \in DOMAIN Services(m), IsLocal(m, i, j)
         PROVE  /\ <<sp(j), "tcp">> \in DOMAIN bindings
                /\ bindings[<<sp(j), "tcp">>] = PublishedPort(port, sp(j))
    <2>1. j \in DOMAIN ports /\ j \in Nat /\ ports[j].hostPort > 0
      BY <1>3, <1>6, <1>10, <1>13
    <2> QED
      BY <1>1, <1>10, <1>11, <1>13, <2>1, OnlyBinding
  <1> QED
    BY <1>12, <1>13 DEF port, bindings, sp

-----------------------------------------------------------------------------
(* FilesInv. *)

\* Proceed begins no node.
LEMMA ProceedBegins ==
    ASSUME LoopInv, pc = "container", Proceed
    PROVE  \A i \in DOMAIN Nodes(job) : Begun(i)' => Begun(i)
  <1>1. job \in Manifest /\ k \in DOMAIN Nodes(job) /\ k \in Nat /\ DOMAIN Nodes(job) \subseteq Nat
    BY CurrentFacts, NodesAreLists
  <1>2. \/ UNCHANGED <<pc, k>>
        \/ pc' = "node" /\ k' = k + 1
        \/ pc' = "end" /\ k' = k
    BY DEF Proceed
  <1> QED
    BY <1>1, <1>2 DEF Begun

LEMMA FilesNext ==
    ASSUME LoopInv, DockerInv, FilesInv, [Next]_vars
    PROVE  FilesInv'
  <1>1. CASE UNCHANGED vars
    BY <1>1 DEF vars, FilesInv, Begun
  <1>2. ASSUME NEW m \in Manifest, Apply(m) PROVE FilesInv'
    <2>1. job' = m /\ k' = 1 /\ pc' = "node" /\ Valid(Content[m])
      BY <1>2 DEF Apply
    <2>2. \A i \in DOMAIN Nodes(m) : ~Begun(i)'
      <3>1. DOMAIN Nodes(m) \subseteq Nat \ {0}
        BY NodesAreLists
      <3> QED
        BY <2>1, <3>1 DEF Begun
    <2> QED
      BY <2>1, <2>2 DEF FilesInv
  <1>3. ASSUME NEW m \in Manifest, Delete(m) PROVE FilesInv'
    BY <1>3 DEF Delete, FilesInv, Begun
  <1>4. CASE BeginNode
    <2>1. /\ pc = "node" /\ pc' = "container" /\ UNCHANGED <<job, k>>
          /\ conf' = [conf EXCEPT ![NodeOf(job, k).name] = Files(job, k)]
      BY <1>4 DEF BeginNode, NodeOf, Files
    <2>2. job \in Manifest /\ job # None /\ k \in DOMAIN Nodes(job)
      BY <2>1, ExitsAssumption DEF LoopInv
    <2>3. k \in Nat /\ DOMAIN Nodes(job) \subseteq Nat
      BY <2>2, NodesAreLists
    <2> SUFFICES ASSUME ~NamesClash(job), NEW i \in DOMAIN Nodes(job), Begun(i)'
                 PROVE  conf'[NodeOf(job, i).name] = Files(job, i)
      BY <2>1, <2>2 DEF FilesInv
    <2>4. NodeOf(job, i).name \in DOMAIN conf
      BY <2>2 DEF DockerInv, NodeNames, Nodes, NodeOf
    <2>5. CASE i = k
      BY <2>1, <2>4, <2>5
    <2>6. CASE i # k
      <3>1. Begun(i)
        BY <2>1, <2>3, <2>6 DEF Begun
      <3>2. NodeOf(job, i).name # NodeOf(job, k).name
        BY <2>2, <2>6, NodesDiffer
      <3>3. conf'[NodeOf(job, i).name] = conf[NodeOf(job, i).name]
        BY <2>1, <2>4, <3>2
      <3> QED
        BY <2>2, <3>1, <3>3 DEF FilesInv
    <2> QED
      BY <2>5, <2>6
  <1>5. CASE Keep \/ Recreate
    <2>1. pc = "container" /\ Proceed /\ UNCHANGED <<job, conf>>
      BY <1>5 DEF Keep, Recreate
    <2>2. \A i \in DOMAIN Nodes(job) : Begun(i)' => Begun(i)
      BY <2>1, ProceedBegins
    <2> QED
      BY <2>1, <2>2 DEF FilesInv
  <1>6. CASE Return
    BY <1>6 DEF Return, FilesInv
  <1>7. ASSUME NEW s \in AllNames, ContainerExit(s) \/ StartStopped(s) PROVE FilesInv'
    BY <1>7 DEF ContainerExit, StartStopped, FilesInv, Begun
  <1> QED
    BY <1>1, <1>2, <1>3, <1>4, <1>5, <1>6, <1>7 DEF Next

\* The files of the node in hand.
LEMMA FilesInHand ==
    ASSUME LoopInv, FilesInv, pc = "container", ~NamesClash(job)
    PROVE  conf[NodeOf(job, k).name] = Files(job, k)
  BY CurrentFacts, ExitsAssumption DEF FilesInv, Begun

-----------------------------------------------------------------------------
(* ServingInv. *)

LEMMA ContainerFields ==
    ASSUME NEW n, NEW spec, NEW config, NEW up
    PROVE  LET d == Container(n, spec, config, up)
           IN  /\ d.node = n /\ d.name = spec.name /\ d.config = config /\ d.running = up
               /\ d.nginx = NginxFile(n, spec.name)
  BY DEF Container

\* Of the names of a container only its full name has three labels.
LEMMA FullNames ==
    ASSUME NEW n, NEW c, NEW m, NEW a
    PROVE  FullName(a, m) \in DnsNames(n, c) <=> a = c /\ m = n
  <1>1. /\ FullName(a, m) # <<c>> /\ FullName(a, m) # <<c, n>>
        /\ FullName(a, m) # <<<<"klite">> \o DockerName(n, c)>>
    BY DEF FullName
  <1>2. FullName(a, m) = FullName(c, n) <=> a = c /\ m = n
    BY DEF FullName
  <1> QED
    BY <1>1, <1>2 DEF DnsNames, BuildNetworkAliases

\* Before nginx-proxy everything else of its node has been done, so the names in
\* its file resolve.
LEMMA UpstreamsReady ==
    ASSUME LoopInv, DockerInv, FilesInv, ServingInv, pc = "container",
           ~errs, calm, ~NamesClash(job), ImagesTellApart(job), Head(todo).name = NginxProxy
    PROVE  UpstreamsUp([docker EXCEPT ![NameOf(Current)] = None],
                       NodeOf(job, k).name, Files(job, k).nginx)
  <1> DEFINE rest == [docker EXCEPT ![NameOf(Current)] = None]
             n == NodeOf(job, k).name
             own == NodeOf(job, k).containers
  <1>1. /\ job \in Manifest /\ job # None /\ k \in DOMAIN Nodes(job)
        /\ Current \in Planned[job] /\ Current.spec = Head(todo)
        /\ NameOf(Current) \in AllNames /\ Current.at = <<k, Pos>>
    BY CurrentFacts, ExitsAssumption DEF Current
  <1>2. Pos = Len(ToApply(job, k))
    <2>1. PICK i \in DOMAIN Nodes(job) : Current = Entry(job, i, Len(ToApply(job, i)))
      BY <1>1, ProxyIsLast
    <2>2. Current.at = <<i, Len(ToApply(job, i))>>
      BY <2>1 DEF Entry
    <2>3. k = i /\ Pos = Len(ToApply(job, i))
      BY <1>1, <2>2
    <2> QED
      BY <2>3
  <1>3. ASSUME NEW c \in DOMAIN own
        PROVE  Answering(rest, n, FullName(own[c].name, n)) # {}
    <2> DEFINE p == Entry(job, k, c + 1)
    <2>1. /\ p \in Planned[job] /\ c + 1 < Len(ToApply(job, k))
          /\ p.spec = own[c] /\ p.node = n /\ p.at = <<k, c + 1>>
      BY <1>1, OwnEntry DEF Entry
    <2>2. Passed(p.at)
      <3>1. p.at[1] = k /\ p.at[2] = c + 1
        BY <2>1
      <3> QED
        BY <1>2, <2>1, <3>1 DEF Passed
    <2>3. own[c].name # NginxProxy
      BY <1>1, OwnIsNoProxy
    <2> HIDE DEF p
    <2>4. Serves(p)
      BY <1>1, <2>1, <2>2 DEF ServingInv
    <2>5. /\ docker[NameOf(p)] # None /\ docker[NameOf(p)].running
          /\ docker[NameOf(p)].node = n /\ docker[NameOf(p)].name = own[c].name
      BY <2>1, <2>3, <2>4 DEF Serves, ServedBy
    <2>6. NameOf(p) \in AllNames
      BY <1>1, <2>1, PlannedNames
    <2>7. NameOf(p) # NameOf(Current)
      BY <1>1, <2>1, <2>3 DEF NamesClash
    <2>8. DOMAIN rest = AllNames /\ rest[NameOf(p)] = docker[NameOf(p)]
      BY <2>6, <2>7 DEF DockerInv
    <2>9. FullName(own[c].name, n) \in DnsNames(n, own[c].name)
      BY FullNames
    <2> HIDE DEF rest, n, own
    <2> QED
      BY <2>5, <2>6, <2>8, <2>9 DEF Answering, Running
  <1> DEFINE nginx == Files(job, k).nginx
  <1>4. nginx.services = NodeRoutes(job, k) /\ nginx.routes = RoutesForNode(NodeOf(job, k))
    BY DEF Files, NginxConf, NodeRoutes
  <1>5. Valid(Content[job])
    BY <1>1 DEF FilesInv
  <1>6. ASSUME NEW x \in DOMAIN nginx.services, nginx.services[x].isLocal
        PROVE  Answering(rest, n, FullName(nginx.services[x].targetContainer, n)) # {}
    <2>1. PICK j \in DOMAIN Services(job) : x = <<j, k>>
      BY <1>1, <1>4, <1>5, <1>6, RoutesOfNode
    <2>2. nginx.services[x] = Route(Content[job], Services(job)[j], n)
      BY <1>1, <1>4, <1>5, <2>1, RoutesOfNode
    <2>3. /\ nginx.services[x].targetContainer = Services(job)[j].target[2]
          /\ n = Services(job)[j].target[1]
      <3>1. nginx.services[x].isLocal = (n = Services(job)[j].target[1])
        BY <2>2, RouteFacts
      <3> HIDE DEF nginx, n
      <3>2. n = Services(job)[j].target[1]
        BY <1>6, <3>1
      <3> QED
        BY <2>2, <3>2, RouteFacts
    <2>4. PICK i \in DOMAIN Nodes(job) : \E c \in DOMAIN NodeOf(job, i).containers :
              /\ NodeOf(job, i).name = Services(job)[j].target[1]
              /\ NodeOf(job, i).containers[c].name = Services(job)[j].target[2]
      BY <1>1, <1>5, <2>1, ServiceTarget DEF Services
    <2>5. i = k
      BY <1>1, <2>3, <2>4, NodesDiffer
    <2> HIDE DEF nginx, rest
    <2> QED
      BY <1>3, <2>3, <2>4, <2>5
  <1>7. ASSUME NEW x \in DOMAIN nginx.routes
        PROVE  Answering(rest, n, nginx.routes[x].upstream) # {}
    <2>1. x \in DOMAIN own /\ nginx.routes[x].upstream = FullName(own[x].name, n)
      BY <1>4, <1>7 DEF RoutesForNode
    <2> QED
      BY <1>3, <2>1
  <1> HIDE DEF rest, n, nginx
  <1> QED
    BY <1>6, <1>7 DEF UpstreamsUp, rest, n, nginx

\* One turn of the container loop.
LEMMA ServingStep ==
    ASSUME LoopInv, DockerInv, ServingInv, pc = "container", Proceed,
           UNCHANGED <<job, conf, calm>>,
           NEW x, docker' = [docker EXCEPT ![NameOf(Current)] = x],
           ~errs' /\ calm /\ ~NamesClash(job) /\ ImagesTellApart(job) =>
               ~errs /\ ServedBy(Current, x, conf[Current.node])
    PROVE  ServingInv'
  <1> DEFINE s == NameOf(Current)
  <1>1. job \in Manifest /\ job # None /\ Current \in Planned[job] /\ s \in AllNames
    BY CurrentFacts, ExitsAssumption
  <1>2. \A p \in Planned[job] : Passed(p.at)' <=> Passed(p.at) \/ p = Current
    BY PassedStep
  <1>3. \A t \in AllNames : t # s => docker'[t] = docker[t]
    BY <1>1 DEF DockerInv
  <1> SUFFICES ASSUME ~errs', calm, ~NamesClash(job), ImagesTellApart(job),
                      NEW p \in Planned[job], Passed(p.at)'
               PROVE  Serves(p)'
    BY <1>1 DEF ServingInv
  <1>4. CASE p = Current
    <2>1. ServedBy(p, x, conf[p.node])
      BY <1>4
    <2>2. docker'[NameOf(p)] = x
      BY <1>1, <1>4 DEF DockerInv
    <2> QED
      BY <2>1, <2>2 DEF Serves
  <1>5. CASE p # Current
    <2>1. NameOf(p) # s /\ NameOf(p) \in AllNames
      BY <1>1, <1>5, PlannedNames DEF NamesClash
    <2>2. Serves(p)
      BY <1>1, <1>2, <1>5 DEF ServingInv
    <2> HIDE DEF s
    <2>3. docker'[NameOf(p)] = docker[NameOf(p)]
      BY <1>3, <2>1
    <2> QED
      BY <2>2, <2>3 DEF Serves
  <1> QED
    BY <1>4, <1>5

\* What Apply keeps serves: another manifest may have created it, but for a node and
\* a name that join to the same Docker name and with the same image.
LEMMA KeptServes ==
    ASSUME LoopInv, DockerInv, pc = "container", ImagesTellApart(job),
           Kept(docker[NameOf(Current)], Head(todo))
    PROVE  ServedBy(Current, docker[NameOf(Current)], conf[Current.node])
  <1> DEFINE s == NameOf(Current)
             d == docker[s]
             fresh == ConfigOf(Current.spec)
  <1>1. job \in Manifest /\ Current \in Planned[job] /\ s \in AllNames /\ Current.spec = Head(todo)
    BY CurrentFacts DEF Current
  <1>2. d # None /\ Current.spec.name # NginxProxy /\ d.running /\ SpecMatches(Current.spec, d.config)
    BY <1>1 DEF Kept
  <1>3. IsContainer(s, d)
    BY <1>1, <1>2 DEF DockerInv
  <1>4. Gives(Current.spec, d.config, fresh)
    BY <1>1, <1>2, <1>3, MatchingContainer
  <1>5. PICK l \in Manifest : \E q \in Planned[l] :
            /\ NameOf(q) = s /\ d.node = q.node /\ d.name = q.spec.name
            /\ d.config = ConfigOf(q.spec)
    BY <1>3 DEF IsContainer
  <1>6. PICK q \in Planned[l] : /\ NameOf(q) = s /\ d.node = q.node /\ d.name = q.spec.name
                                /\ d.config = ConfigOf(q.spec)
    BY <1>5
  <1> HIDE DEF d, fresh
  <1>7. d.config.image = q.spec.image /\ fresh.image = Current.spec.image
    BY <1>1, <1>6, ConfigFacts DEF fresh
  <1>8. q.spec.image.ref = Current.spec.image.ref /\ d.config.bindings = fresh.bindings
    BY <1>4, <1>7 DEF Gives
  <1>9. q.node = Current.node /\ q.spec.name = Current.spec.name
    BY <1>1, <1>6, <1>8 DEF ImagesTellApart
  <1> HIDE DEF s
  <1> QED
    BY <1>2, <1>6, <1>8, <1>9 DEF ServedBy, d, fresh, s

\* What Apply creates without an error serves.
LEMMA RecreatedServes ==
    ASSUME LoopInv, DockerInv, FilesInv, ServingInv, Recreate,
           ~errs', calm, ~NamesClash(job), ImagesTellApart(job)
    PROVE  \E x : /\ docker' = [docker EXCEPT ![NameOf(Current)] = x]
                  /\ ~errs /\ ServedBy(Current, x, conf[Current.node])
  <1> DEFINE s == NameOf(Current)
             n == NodeOf(job, k).name
             config == ConfigOf(Head(todo))
             rest == [docker EXCEPT ![s] = None]
             made(up) == Container(n, Head(todo), config, up)
  <1>1. /\ pc = "container" /\ n = Content[job].nodes[k].name
        /\ s = DockerName(n, Head(todo).name)
        /\ Current.spec = Head(todo) /\ Current.node = n /\ job \in Manifest /\ job # None
        /\ k \in DOMAIN Nodes(job)
    BY CurrentFacts, ExitsAssumption DEF Recreate, NodeOf, Current
  <1>2. /\ Creatable(config) /\ ~errs
        /\ \E up \in Outcomes(rest, n, Head(todo).name) : docker' = [docker EXCEPT ![s] = made(up)]
    <2> HIDE DEF s, n, config, rest, made
    <2>1. \/ /\ Creatable(config)
             /\ \E up \in Outcomes(rest, n, Head(todo).name) : docker' = [docker EXCEPT ![s] = made(up)]
             /\ UNCHANGED errs
          \/ errs' = TRUE
      BY <1>1 DEF Recreate, n, config, made, rest
    <2> QED
      BY <2>1
  <1>3. PICK up \in Outcomes(rest, n, Head(todo).name) : docker' = [docker EXCEPT ![s] = made(up)]
    BY <1>2
  <1>4. up \in BOOLEAN
    BY OutcomesAreBoolean
  <1>5. /\ made(up).node = n /\ made(up).name = Head(todo).name /\ made(up).config = config
        /\ made(up).running = up /\ made(up).nginx = NginxFile(n, Head(todo).name)
    BY ContainerFields
  <1>6. made(up) # None
    BY <1>1, <1>2, <1>4, RecreatedContainer, IsContainerFacts
  <1> HIDE DEF made, rest
  <1>7. Head(todo).name # NginxProxy => made(up).running
    BY <1>3, <1>5 DEF Outcomes
  <1>8. ASSUME Head(todo).name = NginxProxy
        PROVE  /\ made(up).config.ip = NginxServiceIP
               /\ made(up).nginx = conf[n].nginx
               /\ ~Clashing(made(up).nginx) => made(up).running
    <2>1. made(up).nginx = conf[n].nginx
      BY <1>5, <1>8 DEF NginxFile
    <2>2. made(up).config.ip = NginxServiceIP
      <3>1. config.ip = StaticIP(NginxProxy)
        BY <1>8 DEF ConfigOf, Created
      <3>2. NginxProxy # Dnsmasq
        BY DEF NginxProxy, Dnsmasq
      <3> QED
        BY <1>5, <3>1, <3>2 DEF StaticIP
    <2>3. UpstreamsUp(rest, n, conf[n].nginx)
      BY <1>1, <1>2, <1>8, FilesInHand, UpstreamsReady DEF rest
    <2>4. ~Clashing(conf[n].nginx) => up = TRUE
      BY <1>3, <1>8, <2>3 DEF Outcomes
    <2> QED
      BY <1>5, <2>1, <2>2, <2>4
  <1>9. ServedBy(Current, made(up), conf[n])
    <2> HIDE DEF config, n
    <2> QED
      BY <1>1, <1>5, <1>6, <1>7, <1>8 DEF ServedBy, config
  <1> QED
    BY <1>1, <1>2, <1>3, <1>9

\* The reconciler may have to start a nginx-proxy that did not accept its file; it
\* reads the same file again.
LEMMA RestartServes ==
    ASSUME LoopInv, DockerInv, FilesInv, ServingInv, NEW s \in AllNames, StartStopped(s),
           NEW m \in Manifest, NEW p \in Planned[m], Serves(p)
    PROVE  Serves(p)'
  <1> DEFINE d == docker[s]
  <1>1. UNCHANGED <<conf, job>> /\ d # None /\ ~d.running
    BY DEF StartStopped
  <1>2. CASE NameOf(p) = s
    <2>1. PICK up \in Outcomes(docker, d.node, d.name) :
              docker' = [docker EXCEPT ![s].running = up,
                                       ![s].nginx = NginxFile(d.node, d.name)]
      BY DEF StartStopped
    <2>2. ServedBy(p, d, conf[p.node])
      BY <1>2 DEF Serves
    <2>3. /\ p.spec.name = NginxProxy /\ d.name = NginxProxy /\ d.node = p.node
          /\ Clashing(d.nginx) /\ d.nginx = conf[p.node].nginx
      BY <1>1, <2>2 DEF ServedBy
    <2>4. NginxFile(d.node, d.name) = d.nginx
      BY <2>3 DEF NginxFile
    <2>5. IsContainer(s, d)
      BY <1>1 DEF DockerInv
    <2>6. docker'[s] = [[d EXCEPT !.running = up] EXCEPT !.nginx = NginxFile(d.node, d.name)]
      BY <2>1 DEF DockerInv
    <2> DEFINE e == [[d EXCEPT !.running = up] EXCEPT !.nginx = NginxFile(d.node, d.name)]
    <2>7. /\ e # None /\ e.node = d.node /\ e.name = d.name /\ e.config = d.config
          /\ e.nginx = d.nginx
      <3> DEFINE file == NginxFile(d.node, d.name)
                 c == [d EXCEPT !.running = up]
      <3>1. up \in BOOLEAN
        BY OutcomesAreBoolean
      <3>2. file \in NginxFiles \cup {None}
        BY <1>1, NginxFileFacts DEF DockerInv
      <3>3. /\ IsContainer(s, c) /\ c.node = d.node /\ c.name = d.name
            /\ c.config = d.config
        BY <2>5, <3>1, IsContainerFacts
      <3>4. \E f : c.nginx = f /\ c = [c EXCEPT !.nginx = f]
        BY <3>3 DEF IsContainer
      <3> HIDE DEF c, file
      <3>5. [c EXCEPT !.nginx = file].nginx = file
        BY <3>3 DEF IsContainer
      <3>6. LET f == [c EXCEPT !.nginx = file]
            IN  IsContainer(s, f) /\ f.node = c.node /\ f.name = c.name /\ f.config = c.config
        BY <3>2, <3>3, IsContainerFacts
      <3>7. [c EXCEPT !.nginx = file] # None
        BY <3>6, IsContainerFacts
      <3> QED
        BY <2>4, <3>3, <3>5, <3>6, <3>7 DEF c, file
    <2> HIDE DEF e, d
    <2>8. ServedBy(p, e, conf[p.node])
      BY <2>2, <2>3, <2>7 DEF ServedBy
    <2> QED
      BY <1>1, <1>2, <2>6, <2>8 DEF Serves, e
  <1>3. CASE NameOf(p) # s
    <2>1. NameOf(p) \in AllNames
      BY PlannedNames
    <2>2. docker'[NameOf(p)] = docker[NameOf(p)]
      BY <1>3, <2>1 DEF StartStopped, DockerInv
    <2> QED
      BY <1>1, <2>2 DEF Serves
  <1> QED
    BY <1>2, <1>3

LEMMA ServingNext ==
    ASSUME LoopInv, DockerInv, FilesInv, ServingInv, [Next]_vars
    PROVE  ServingInv'
  <1>1. CASE UNCHANGED vars
    BY <1>1 DEF vars, ServingInv, Serves, Passed, Pos, ToApply
  <1>2. ASSUME NEW m \in Manifest, Apply(m) PROVE ServingInv'
    <2>1. job' = m
      BY <1>2 DEF Apply
    <2>2. \A p \in Planned[m] : ~Passed(p.at)'
      BY <1>2, PassedAtStart
    <2> QED
      BY <2>1, <2>2 DEF ServingInv
  <1>3. CASE Return \/ \E m \in Manifest : Delete(m)
    BY <1>3 DEF Return, Delete, LoopInv, ServingInv
  <1>4. CASE BeginNode
    <2>1. /\ pc = "node" /\ UNCHANGED <<docker, job, errs, calm>>
          /\ conf' = [conf EXCEPT ![NodeOf(job, k).name] = Files(job, k)]
      BY <1>4 DEF BeginNode, history, NodeOf, Files
    <2>2. job \in Manifest /\ k \in DOMAIN Nodes(job) /\ job # None
      BY <2>1, ExitsAssumption DEF LoopInv
    <2>3. \A p \in Planned[job] : Passed(p.at)' <=> Passed(p.at)
      BY <1>4, PassedAtNode
    <2> SUFFICES ASSUME ~errs, calm, ~NamesClash(job), ImagesTellApart(job),
                        NEW p \in Planned[job], Passed(p.at)
                 PROVE  Serves(p)'
      BY <2>1, <2>3 DEF ServingInv
    <2>4. Serves(p)
      BY <2>2 DEF ServingInv
    <2>5. p.node # NodeOf(job, k).name
      <3>1. PICK i \in DOMAIN Nodes(job) : \E j \in DOMAIN ToApply(job, i) :
               p = [node |-> NodeOf(job, i).name, spec |-> ToApply(job, i)[j], at |-> <<i, j>>]
        BY <2>2, PlannedFacts
      <3>2. p.at[1] = i /\ p.node = NodeOf(job, i).name
        BY <3>1
      <3>3. i # k
        <4>1. i < k
          BY <2>1, <3>2 DEF Passed
        <4> QED
          BY <2>2, <4>1, NodesAreLists
      <3> QED
        BY <2>2, <3>2, <3>3, NodesDiffer
    <2>6. conf'[p.node] = conf[p.node]
      BY <2>1, <2>5
    <2> QED
      BY <2>1, <2>4, <2>6 DEF Serves
  <1>5. CASE Keep
    <2> DEFINE s == NameOf(Current)
    <2>1. /\ pc = "container" /\ Proceed /\ UNCHANGED <<docker, conf, job, errs, calm>>
          /\ Kept(docker[DockerName(Content[job].nodes[k].name, Head(todo).name)], Head(todo))
      BY <1>5 DEF Keep, history
    <2>2. s = DockerName(Content[job].nodes[k].name, Head(todo).name) /\ s \in AllNames
      BY <2>1, CurrentFacts
    <2>3. ImagesTellApart(job) => ServedBy(Current, docker[s], conf[Current.node])
      BY <2>1, <2>2, KeptServes
    <2>4. docker' = [docker EXCEPT ![s] = docker[s]]
      <3> HIDE DEF s
      <3> QED
        BY <2>1, <2>2 DEF DockerInv
    <2> QED
      BY <2>1, <2>3, <2>4, ServingStep
  <1>6. CASE Recreate
    <2>1. pc = "container" /\ Proceed /\ UNCHANGED <<job, conf, calm>>
      BY <1>6 DEF Recreate
    <2>2. CASE ~errs' /\ calm /\ ~NamesClash(job) /\ ImagesTellApart(job)
      <3>1. PICK x : /\ docker' = [docker EXCEPT ![NameOf(Current)] = x]
                     /\ ~errs /\ ServedBy(Current, x, conf[Current.node])
        BY <1>6, <2>2, RecreatedServes
      <3> QED
        BY <2>1, <3>1, ServingStep
    <2>3. CASE ~(~errs' /\ calm /\ ~NamesClash(job) /\ ImagesTellApart(job))
      BY <2>1, <2>3 DEF ServingInv
    <2> QED
      BY <2>2, <2>3
  <1>7. ASSUME NEW s \in AllNames, ContainerExit(s) PROVE ServingInv'
    BY <1>7 DEF ContainerExit, ServingInv
  <1>8. ASSUME NEW s \in AllNames, StartStopped(s) PROVE ServingInv'
    <2>1. UNCHANGED <<pc, job, k, todo, errs, calm>>
      BY <1>8 DEF StartStopped, history
    <2>2. \A p : Passed(p.at)' <=> Passed(p.at)
      BY <2>1 DEF Passed, Pos, ToApply
    <2>3. \A m \in Manifest : \A p \in Planned[m] : Serves(p) => Serves(p)'
      BY <1>8, RestartServes
    <2>4. job \in Manifest \cup {None}
      BY DEF LoopInv
    <2> QED
      BY <2>1, <2>2, <2>3, <2>4 DEF ServingInv
  <1> QED
    BY <1>1, <1>2, <1>3, <1>4, <1>5, <1>6, <1>7, <1>8 DEF Next

-----------------------------------------------------------------------------
(* RoutesReach. *)

\* Apply is about to return without an error.
Done ==
    /\ LoopInv /\ DockerInv /\ PortsInv /\ FilesInv /\ ServingInv
    /\ pc = "end" /\ ~errs /\ calm
    /\ ~NamesClash(job) /\ ImagesTellApart(job) /\ NoNegativePort(job)

ProxyOf(i) == DockerName(NodeOf(job, i).name, NginxProxy)
Accepted(i) == ~Clashing(conf[NodeOf(job, i).name].nginx)
TargetOf(j) == DockerName(Services(job)[j].target[1], Services(job)[j].target[2])

LEMMA DoneFacts ==
    ASSUME Done
    PROVE  /\ job \in Manifest /\ job # None /\ Valid(Content[job])
           /\ \A p \in Planned[job] : Serves(p)
           /\ \A i \in DOMAIN Nodes(job) : conf[NodeOf(job, i).name] = Files(job, i)
  <1>1. job \in Manifest /\ job # None /\ k = Len(Nodes(job))
    BY ExitsAssumption DEF Done, LoopInv
  <1>2. \A i \in DOMAIN Nodes(job) : Begun(i)
    BY <1>1, NodesAreLists DEF Begun, Done
  <1>3. \A p : Passed(p.at)
    BY DEF Passed, Done
  <1> QED
    BY <1>1, <1>2, <1>3 DEF Done, FilesInv, ServingInv

\* One container answers to a full name in a network: its Docker name is both.
LEMMA AnsweringIs ==
    ASSUME DockerInv, NEW n, NEW c, DockerName(n, c) \in Running(docker),
           docker[DockerName(n, c)].node = n, docker[DockerName(n, c)].name = c
    PROVE  Answering(docker, n, FullName(c, n)) = {DockerName(n, c)}
  <1>1. ASSUME NEW s \in Answering(docker, n, FullName(c, n)) PROVE s = DockerName(n, c)
    <2>1. s \in AllNames /\ docker[s] # None /\ docker[s].node = n
          /\ FullName(c, n) \in DnsNames(n, docker[s].name)
      BY <1>1 DEF Answering, Running, DockerInv
    <2>2. docker[s].name = c
      BY <2>1, FullNames
    <2>3. IsContainer(s, docker[s])
      BY <2>1 DEF DockerInv
    <2> QED
      BY <2>1, <2>2, <2>3, IsContainerFacts
  <1>2. FullName(c, n) \in DnsNames(n, c)
    BY FullNames
  <1>3. DockerName(n, c) \in Answering(docker, n, FullName(c, n))
    BY <1>2 DEF Answering
  <1> QED
    BY <1>1, <1>3

LEMMA OwnAnswers ==
    ASSUME Done, NEW i \in DOMAIN Nodes(job), NEW c \in DOMAIN NodeOf(job, i).containers
    PROVE  LET n == NodeOf(job, i).name
               name == NodeOf(job, i).containers[c].name
           IN  Answering(docker, n, FullName(name, n)) = {DockerName(n, name)}
  <1> DEFINE p == Entry(job, i, c + 1)
             n == NodeOf(job, i).name
             name == NodeOf(job, i).containers[c].name
  <1>1. job \in Manifest /\ ~NamesClash(job) /\ DockerInv
    BY DoneFacts DEF Done
  <1>2. /\ p \in Planned[job] /\ NameOf(p) = DockerName(n, name)
        /\ p.node = n /\ p.spec.name = name
    BY <1>1, OwnEntry DEF Entry
  <1>3. name # NginxProxy
    BY <1>1, OwnIsNoProxy
  <1> HIDE DEF p, n, name
  <1>4. /\ docker[NameOf(p)] # None /\ docker[NameOf(p)].running
        /\ docker[NameOf(p)].node = n /\ docker[NameOf(p)].name = name
    BY <1>2, <1>3, DoneFacts DEF Serves, ServedBy
  <1>5. NameOf(p) \in Running(docker)
    BY <1>1, <1>2, <1>4, PlannedNames DEF Running, DockerInv
  <1>6. Answering(docker, n, FullName(name, n)) = {DockerName(n, name)}
    BY <1>1, <1>2, <1>4, <1>5, AnsweringIs
  <1> QED
    BY <1>6 DEF n, name

\* The containers of the services answer.
LEMMA TargetAnswers ==
    ASSUME Done, NEW j \in DOMAIN Services(job)
    PROVE  LET target == Services(job)[j].target
           IN  Answering(docker, target[1], FullName(target[2], target[1])) = {TargetOf(j)}
  <1>1. PICK i \in DOMAIN Nodes(job) : \E c \in DOMAIN NodeOf(job, i).containers :
            /\ NodeOf(job, i).name = Services(job)[j].target[1]
            /\ NodeOf(job, i).containers[c].name = Services(job)[j].target[2]
    BY DoneFacts, ServiceTarget DEF Services
  <1> QED
    BY <1>1, OwnAnswers DEF TargetOf

\* nginx-proxy of a node whose file nginx accepts.
LEMMA ProxyServes ==
    ASSUME Done, NEW i \in DOMAIN Nodes(job), Accepted(i)
    PROVE  LET d == docker[ProxyOf(i)]
           IN  /\ ProxyOf(i) \in Running(docker) /\ d # None
               /\ d.node = NodeOf(job, i).name
               /\ d.config.ip = NginxServiceIP
               /\ d.config.bindings = ConfigOf(Proxy(job, i)).bindings
               /\ NoPort \notin DOMAIN d.config.bindings
               /\ d.nginx = NginxConf(Content[job], NodeOf(job, i)) /\ d.nginx # None
               /\ ~Clashing(NginxConf(Content[job], NodeOf(job, i)))
  <1> DEFINE p == Entry(job, i, Len(ToApply(job, i)))
             d == docker[ProxyOf(i)]
             n == NodeOf(job, i).name
             nginx == NginxConf(Content[job], NodeOf(job, i))
  <1>1. job \in Manifest /\ ~NamesClash(job) /\ DockerInv
    BY DoneFacts DEF Done
  <1>2. /\ p \in Planned[job] /\ p.spec = Proxy(job, i) /\ p.spec.name = NginxProxy
        /\ p.node = n /\ NameOf(p) = ProxyOf(i)
    BY <1>1, ProxyEntry DEF ProxyOf
  <1>3. conf[n].nginx = nginx /\ ~Clashing(nginx)
    <2>1. conf[n] = Files(job, i)
      BY DoneFacts
    <2> QED
      BY <2>1 DEF Files, Accepted
  <1>4. nginx \in NginxFiles
    BY <1>1 DEF NginxFiles, Nodes, NodeOf
  <1>5. nginx # None
    BY <1>4, ContainerAssumption
  <1> HIDE DEF p, n, nginx, d
  <1>6. ServedBy(p, d, conf[n])
    BY <1>2, DoneFacts DEF Serves, d
  <1>7. /\ d # None /\ d.node = n /\ d.config.bindings = ConfigOf(Proxy(job, i)).bindings
        /\ d.config.ip = NginxServiceIP /\ d.nginx = nginx /\ d.running
    BY <1>2, <1>3, <1>6 DEF ServedBy
  <1>8. ProxyOf(i) \in AllNames
    BY <1>1, <1>2, PlannedNames
  <1>9. ProxyOf(i) \in Running(docker)
    BY <1>1, <1>7, <1>8 DEF Running, DockerInv, d
  <1>10. NoPort \notin DOMAIN d.config.bindings
    <2>1. IsContainer(ProxyOf(i), d)
      BY <1>1, <1>7, <1>8 DEF DockerInv, d
    <2> QED
      BY <2>1, IsContainerFacts DEF Creatable
  <1> QED
    BY <1>3, <1>5, <1>7, <1>9, <1>10 DEF d, n, nginx

\* It has one server block for a service's port, and that is the service's route.
LEMMA ServerIs ==
    ASSUME Done, NEW i \in DOMAIN Nodes(job), Accepted(i), NEW j \in DOMAIN Services(job)
    PROVE  Server(ProxyOf(i), Services(job)[j].port)
              = {Route(Content[job], Services(job)[j], NodeOf(job, i).name)}
  <1> DEFINE s == ProxyOf(i)
             port == Services(job)[j].port
             services == docker[s].nginx.services
             blocks == {x \in DOMAIN services : services[x].port = port}
  <1>1. job \in Manifest /\ Valid(Content[job]) /\ ~NamesClash(job)
    BY DoneFacts DEF Done
  <1>2. /\ s \in Running(docker) /\ docker[s].nginx # None
        /\ docker[s].nginx = NginxConf(Content[job], NodeOf(job, i))
        /\ ~Clashing(NginxConf(Content[job], NodeOf(job, i)))
    BY ProxyServes
  <1>3. services = NodeRoutes(job, i)
    BY <1>2 DEF NginxConf, NodeRoutes
  <1>4. port # DefaultNginxPort
        /\ \A l \in DOMAIN Services(job) : Services(job)[l].port = port => l = j
    BY <1>1, <1>2, PortsOfTheirOwn
  <1>5. /\ \A l \in DOMAIN Services(job) :
              /\ <<l, i>> \in DOMAIN services
              /\ services[<<l, i>>] = Route(Content[job], Services(job)[l], NodeOf(job, i).name)
              /\ services[<<l, i>>].port = Services(job)[l].port
        /\ \A x \in DOMAIN services : x[1] \in DOMAIN Services(job) /\ x = <<x[1], i>>
    BY <1>1, <1>3, RoutesOfNode, RouteFacts
  <1> HIDE DEF services, port, s
  <1>6. blocks = {<<j, i>>}
    <2>1. <<j, i>> \in blocks
      BY <1>5 DEF port
    <2>2. ASSUME NEW x \in blocks PROVE x = <<j, i>>
      <3>1. x[1] \in DOMAIN Services(job) /\ x = <<x[1], i>> /\ services[x].port = port
        BY <1>5
      <3>2. x[1] = j
        BY <1>4, <1>5, <3>1
      <3> QED
        BY <3>1, <3>2
    <2> QED
      BY <2>1, <2>2
  <1>7. Cardinality(blocks) = 1
    BY <1>6, FS_Singleton
  <1>8. Server(s, port) = {services[x] : x \in blocks}
    BY <1>2, <1>4, <1>7 DEF Server, services
  <1>9. Server(s, port) = {services[<<j, i>>]}
    BY <1>6, <1>8
  <1> QED
    BY <1>5, <1>9 DEF s, port

\* Behind it is the service's container, when the service is local.
LEMMA BehindIs ==
    ASSUME Done, NEW i \in DOMAIN Nodes(job), Accepted(i), NEW j \in DOMAIN Services(job)
    PROVE  Behind(ProxyOf(i), Services(job)[j].port)
              = IF IsLocal(job, i, j) THEN {TargetOf(j)} ELSE {}
  <1> DEFINE svc == Services(job)[j]
             n == NodeOf(job, i).name
             r == Route(Content[job], svc, n)
             s == ProxyOf(i)
  <1>1. r.isLocal = IsLocal(job, i, j) /\ r.targetContainer = svc.target[2]
    BY RouteFacts DEF IsLocal
  <1>2. Server(s, svc.port) = {r}
    BY ServerIs
  <1>3. docker[s].node = n
    BY ProxyServes
  <1>4. Answering(docker, svc.target[1], FullName(svc.target[2], svc.target[1])) = {TargetOf(j)}
    BY TargetAnswers
  <1>5. IsLocal(job, i, j) => n = svc.target[1]
    BY DEF IsLocal
  <1> HIDE DEF svc, n, r, s
  <1>6. Behind(s, svc.port) = UNION {Answering(docker, n, FullName(x.targetContainer, n)) :
                                        x \in {y \in {r} : y.isLocal}}
    BY <1>2, <1>3 DEF Behind
  <1>7. CASE IsLocal(job, i, j)
    <2>1. {y \in {r} : y.isLocal} = {r}
      BY <1>1, <1>7
    <2>2. UNION {Answering(docker, n, FullName(x.targetContainer, n)) : x \in {r}}
             = Answering(docker, n, FullName(r.targetContainer, n))
      OBVIOUS
    <2> QED
      BY <1>1, <1>4, <1>5, <1>6, <1>7, <2>1, <2>2 DEF svc, s
  <1>8. CASE ~IsLocal(job, i, j)
    <2>1. {y \in {r} : y.isLocal} = {}
      BY <1>1, <1>8
    <2>2. UNION {Answering(docker, n, FullName(x.targetContainer, n)) : x \in {}} = {}
      OBVIOUS
    <2> QED
      BY <1>6, <1>8, <2>1, <2>2 DEF svc, s
  <1> QED
    BY <1>7, <1>8

\* One container listens at a port of the host.
LEMMA AtHostIs ==
    ASSUME PortsInv, NEW s \in Running(docker), NEW q \in DOMAIN docker[s].config.bindings
    PROVE  AtHost(docker[s].config.bindings[q]) = {<<s, q[1]>>}
  <1> DEFINE h == docker[s].config.bindings[q]
             at(t) == {x \in DOMAIN docker[t].config.bindings : docker[t].config.bindings[x] = h}
  <1>1. AtHost(h) = UNION {{<<t, x[1]>> : x \in at(t)} : t \in Running(docker)}
    BY DEF AtHost
  <1>2. at(s) = {q}
    BY DEF PortsInv
  <1>3. ASSUME NEW t \in Running(docker), t # s PROVE at(t) = {}
    <2>1. HostPorts(docker[t].config) \cap HostPorts(docker[s].config) = {}
      BY <1>3 DEF PortsInv
    <2>2. h \in HostPorts(docker[s].config)
      BY DEF HostPorts, Range
    <2>3. \A x \in at(t) : h \in HostPorts(docker[t].config)
      BY DEF HostPorts, Range
    <2> QED
      BY <2>1, <2>2, <2>3
  <1> HIDE DEF h, at
  <1>4. \A y : y \in AtHost(h) <=> y = <<s, q[1]>>
    BY <1>1, <1>2, <1>3
  <1> QED
    BY <1>4 DEF h

\* The way through nginx-proxy: straight to its container in its own node, elsewhere over
\* the host to the proxy of its node.
LEMMA ProxyReaches ==
    ASSUME Done, NEW i \in DOMAIN Nodes(job), NEW j \in DOMAIN Services(job),
           \A l \in DOMAIN Nodes(job) : Accepted(l)
    PROVE  ThroughProxy(NodeOf(job, i).name, Services(job)[j]) = {TargetOf(j)}
  <1> DEFINE n == NodeOf(job, i).name
             svc == Services(job)[j]
             s == ProxyOf(i)
             r == Route(Content[job], svc, n)
             there == {x \in Server(s, svc.port) : ~x.isLocal}
             elsewhere == UNION {UNION {Behind(x[1], x[2]) : x \in AtHost(y.targetNodeProxyPort)} :
                                    y \in there}
  <1>1. job \in Manifest /\ Valid(Content[job]) /\ ~NamesClash(job) /\ NoNegativePort(job) /\ PortsInv
    BY DoneFacts DEF Done
  <1>2. docker[s] # None /\ docker[s].config.ip = NginxServiceIP
    BY ProxyServes
  <1>3. conf[n].hosts[svc.name] = NginxServiceIP
    <2>1. conf[n] = Files(job, i)
      BY DoneFacts
    <2>2. conf[n].hosts = HostsFile(Content[job])
      BY <2>1 DEF Files
    <2> QED
      BY <2>2 DEF HostsFile, Services
  <1>4. Server(s, svc.port) = {r} /\ r.isLocal = IsLocal(job, i, j)
        /\ r.targetNodeProxyPort
              = PublishedPort(NodeProxyPort(Content[job], svc.target[1]), svc.port)
    BY ServerIs, RouteFacts DEF IsLocal
  <1>5. Behind(s, svc.port) = IF IsLocal(job, i, j) THEN {TargetOf(j)} ELSE {}
    BY BehindIs
  <1>6. PICK l \in DOMAIN Nodes(job) : NodeOf(job, l).name = svc.target[1]
    BY <1>1, ServiceTarget DEF Services
  <1> DEFINE q == <<svc.port, "tcp">>
             t == ProxyOf(l)
  <1>7. IsLocal(job, l, j)
    BY <1>6 DEF IsLocal
  <1>8. AtHost(r.targetNodeProxyPort) = {<<t, svc.port>>}
    <2>1. /\ t \in Running(docker)
          /\ docker[t].config.bindings = ConfigOf(Proxy(job, l)).bindings
          /\ NoPort \notin DOMAIN docker[t].config.bindings
          /\ ~Clashing(NginxConf(Content[job], NodeOf(job, l)))
      BY ProxyServes
    <2>2. /\ q \in DOMAIN docker[t].config.bindings
          /\ docker[t].config.bindings[q] = PublishedPort(NodeOf(job, l).proxyPort, svc.port)
      BY <1>1, <1>7, <2>1, ProxyBindings
    <2>3. r.targetNodeProxyPort = PublishedPort(NodeOf(job, l).proxyPort, svc.port)
      BY <1>1, <1>4, <1>6, ProxyPortOfNode
    <2>4. q[1] = svc.port
      OBVIOUS
    <2> HIDE DEF q, t, r, svc
    <2> QED
      BY <1>1, <2>1, <2>2, <2>3, <2>4, AtHostIs
  <1>9. Behind(t, svc.port) = {TargetOf(j)}
    BY <1>7, BehindIs
  <1>10. ThroughProxy(n, svc) = Behind(s, svc.port) \cup elsewhere
    BY <1>2, <1>3 DEF ThroughProxy, ProxyOf
  <1> HIDE DEF n, svc, s, r, t, q
  <1>11. CASE IsLocal(job, i, j)
    <2>1. there = {}
      BY <1>4, <1>11
    <2>2. elsewhere = {}
      BY <2>1
    <2> QED
      BY <1>5, <1>10, <1>11, <2>2 DEF n, svc
  <1>12. CASE ~IsLocal(job, i, j)
    <2>1. there = {r}
      BY <1>4, <1>12
    <2>2. elsewhere = UNION {Behind(x[1], x[2]) : x \in {<<t, svc.port>>}}
      BY <1>8, <2>1
    <2>3. elsewhere = {TargetOf(j)}
      BY <1>9, <2>2
    <2> QED
      BY <1>5, <1>10, <1>12, <2>3 DEF n, svc
  <1> QED
    BY <1>11, <1>12

\* The way by the name of a service: its container alone may have that name.
LEMMA ServiceReached ==
    ASSUME Done, NEW i \in DOMAIN Nodes(job), NEW j \in DOMAIN Services(job),
           \A l \in DOMAIN Nodes(job) : Accepted(l),
           Answering(docker, NodeOf(job, i).name, <<Services(job)[j].name>>) \subseteq {TargetOf(j)}
    PROVE  Reached(NodeOf(job, i).name, Services(job)[j]) = {TargetOf(j)}
  <1> DEFINE bearers == Answering(docker, NodeOf(job, i).name, <<Services(job)[j].name>>)
  <1>1. CASE bearers = {}
    BY <1>1, ProxyReaches DEF Reached
  <1>2. CASE bearers # {}
    <2>1. bearers = {TargetOf(j)}
      BY <1>2
    <2> QED
      BY <2>1 DEF Reached
  <1> QED
    BY <1>1, <1>2

\* The way of an exposed path: the node's HTTP port on the host, then the location.
LEMMA PathReached ==
    ASSUME Done, NEW i \in DOMAIN Nodes(job), Accepted(i), NodeOf(job, i).proxyPort > 0,
           NEW c \in DOMAIN NodeOf(job, i).containers,
           NodeOf(job, i).containers[c].expose # None
    PROVE  Exposed(NodeOf(job, i).proxyPort, NodeOf(job, i).containers[c].expose.path)
              = {DockerName(NodeOf(job, i).name, NodeOf(job, i).containers[c].name)}
  <1> DEFINE node == NodeOf(job, i)
             own == node.containers
             path == own[c].expose.path
             s == ProxyOf(i)
             q == <<DefaultNginxPort, "tcp">>
             routes == docker[s].nginx.routes
             named == {x \in DOMAIN routes : routes[x].path = path}
  <1>1. job \in Manifest /\ Valid(Content[job]) /\ ~NamesClash(job) /\ NoNegativePort(job) /\ PortsInv
    BY DoneFacts DEF Done
  <1>2. /\ s \in Running(docker) /\ docker[s].node = node.name
        /\ docker[s].config.bindings = ConfigOf(Proxy(job, i)).bindings
        /\ NoPort \notin DOMAIN docker[s].config.bindings
        /\ docker[s].nginx = NginxConf(Content[job], node) /\ docker[s].nginx # None
        /\ ~Clashing(NginxConf(Content[job], node))
    BY ProxyServes
  <1>3. routes = RoutesForNode(node)
    BY <1>2 DEF NginxConf
  <1>4. c \in DOMAIN routes /\ routes[c].path = path /\ routes[c].upstream = FullName(own[c].name, node.name)
    BY <1>3 DEF RoutesForNode
  <1>5. named = {c}
    <2>1. \A x, y \in DOMAIN routes : routes[x].path = routes[y].path => x = y
      BY <1>2 DEF Clashing
    <2> HIDE DEF routes, path
    <2> QED
      BY <1>4, <2>1
  <1>6. AtHost(node.proxyPort) = {<<s, DefaultNginxPort>>}
    <2>1. q \in DOMAIN docker[s].config.bindings /\ docker[s].config.bindings[q] = node.proxyPort
      BY <1>1, <1>2, ProxyBindings
    <2>2. q[1] = DefaultNginxPort
      OBVIOUS
    <2> HIDE DEF q, s, node
    <2> QED
      BY <1>1, <1>2, <2>1, <2>2, AtHostIs
  <1>7. Answering(docker, node.name, FullName(own[c].name, node.name))
            = {DockerName(node.name, own[c].name)}
    BY OwnAnswers
  <1> DEFINE proxies == {y \in AtHost(node.proxyPort) :
                            y[2] = DefaultNginxPort /\ docker[y[1]].nginx # None}
             behind(x) == UNION {Answering(docker, docker[x].node, docker[x].nginx.routes[l].upstream) :
                                    l \in {y \in DOMAIN docker[x].nginx.routes :
                                              docker[x].nginx.routes[y].path = path}}
  <1>8. Exposed(node.proxyPort, path) = UNION {behind(x[1]) : x \in proxies}
    BY DEF Exposed
  <1>9. proxies = {<<s, DefaultNginxPort>>}
    <2> HIDE DEF node, s
    <2> QED
      BY <1>2, <1>6
  <1>10. behind(s) = Answering(docker, node.name, FullName(own[c].name, node.name))
    <2>1. behind(s) = UNION {Answering(docker, node.name, routes[l].upstream) : l \in named}
      BY <1>2
    <2> HIDE DEF routes, named, own, node, behind
    <2>2. behind(s) = Answering(docker, node.name, routes[c].upstream)
      BY <1>5, <2>1
    <2> QED
      BY <1>4, <2>2
  <1> HIDE DEF proxies, behind
  <1>11. Exposed(node.proxyPort, path) = behind(s)
    BY <1>8, <1>9
  <1> QED
    BY <1>7, <1>10, <1>11

\* When Apply succeeds and no container has exited since it began, every exposed
\* path is reached from the host, and by its name every service reaches its
\* container from every node on which no other container has that name: for all
\* manifests whose containers have Docker names of their own, that no other
\* manifest's container shares with the same image under another node or name, and
\* whose proxy ports are not negative.
THEOREM RoutesAreReached ==
    Spec => [](job # None /\ ImagesTellApart(job) /\ NoNegativePort(job) => RoutesReach)
  <1> DEFINE Inv == RInv /\ PortsInv /\ FilesInv /\ ServingInv
  <1>1. Init => Inv
    <2>1. Init => RInv /\ job = None /\ docker = [s \in AllNames |-> None]
      BY InitRInv DEF Init
    <2> QED
      BY <2>1 DEF PortsInv, Running, FilesInv, ServingInv
  <1>2. Inv /\ [Next]_vars => Inv'
    BY LoopNext, DockerNext, HistoryNext, PortsNext, FilesNext, ServingNext DEF RInv
  <1>3. Inv => (job # None /\ ImagesTellApart(job) /\ NoNegativePort(job) => RoutesReach)
    <2> SUFFICES ASSUME Inv, ImagesTellApart(job), NoNegativePort(job),
                        pc = "end", ~errs, calm, ~NamesClash(job),
                        NEW i \in DOMAIN Nodes(job), Accepted(i)
                 PROVE  /\ \A j \in DOMAIN Services(job) :
                              /\ \A l \in DOMAIN Nodes(job) : Accepted(l)
                              /\ Answering(docker, NodeOf(job, i).name, <<Services(job)[j].name>>)
                                     \subseteq {TargetOf(j)}
                              => Reached(NodeOf(job, i).name, Services(job)[j]) = {TargetOf(j)}
                        /\ NodeOf(job, i).proxyPort > 0 =>
                              \A c \in DOMAIN NodeOf(job, i).containers :
                                  NodeOf(job, i).containers[c].expose # None =>
                                      Exposed(NodeOf(job, i).proxyPort,
                                              NodeOf(job, i).containers[c].expose.path)
                                         = {DockerName(NodeOf(job, i).name,
                                                       NodeOf(job, i).containers[c].name)}
      BY DEF RoutesReach, Nodes, NodeOf, Services, Accepted, TargetOf
    <2>1. Done
      BY DEF Done, RInv
    <2> QED
      BY <2>1, ServiceReached, PathReached
  <1> QED
    BY <1>1, <1>2, <1>3, PTL DEF Spec
=============================================================================
