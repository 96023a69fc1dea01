------------------------------- MODULE Routing -------------------------------
(***************************************************************************)
(* What Apply derives from a manifest: the containers of a node, with the  *)
(* injected dnsmasq and nginx-proxy and the ports these publish, the       *)
(* routing table, nginx.conf and the hosts file.                           *)
(***************************************************************************)
EXTENDS Containers

Dnsmasq == <<"dnsmasq">>
NginxProxy == <<"nginx", "proxy">>
DefaultNginxPort == 80

\* Addresses by their last part, in the node's subnet.
DnsmasqIP == ".254"
NginxServiceIP == ".253"

\* buildContainerName joins the names with a dash.
DockerName(n, c) == n \o c

\* A DNS name is the sequence of its labels; the names of nodes, containers and
\* services are labels, without a dot.
FullName(c, n) == <<c, n, <<"klite">>>>
BuildNetworkAliases(n, c) == {<<c>>, <<c, n>>, FullName(c, n)}

\* A map from the node names; a node that is not in it has port 0.
NodeProxyPort(m, n) ==
    LET named == {k \in DOMAIN m.nodes : m.nodes[k].name = n}
    IN  IF named = {} THEN 0 ELSE m.nodes[LastOf(named)].proxyPort

PublishedPort(proxyPort, port) == proxyPort + 10000 + port

\* Mutant of Route: the way to a remote service is offset by the node's own port.
RouteOverOwnPort(m, svc, n) ==
    [service |-> svc.name, port |-> svc.port, targetContainer |-> svc.target[2],
     isLocal |-> n = svc.target[1],
     targetNodeProxyPort |-> PublishedPort(NodeProxyPort(m, n), svc.port)]

\* The ServiceRoute of a service for node n.
Route(m, svc, n) ==
    [service |-> svc.name, port |-> svc.port, targetContainer |-> svc.target[2],
     isLocal |-> n = svc.target[1],
     targetNodeProxyPort |-> PublishedPort(NodeProxyPort(m, svc.target[1]), svc.port)]

\* The entry of n in the table: every service, once for each node of that name.
\* <<i, l>> is the place of service i's route for node l.
ServiceRoutes(m, n) ==
    LET routed == {i \in DOMAIN m.services : Len(m.services[i].target) = 2}
        here == {l \in DOMAIN m.nodes : m.nodes[l].name = n}
    IN  [x \in routed \X here |-> Route(m, m.services[x[1]], n)]

-----------------------------------------------------------------------------
(* injectRoutingContainers *)

Mount(path, on) ==
    <<[hostPath |-> path, containerPath |-> on, readOnly |-> TRUE]>>

DnsmasqSpec(node) ==
    [name |-> Dnsmasq, image |-> [ref |-> "dnsmasq", digest |-> None], ports |-> <<>>,
     env |-> <<>>, command |-> <<"--addn-hosts">>,
     volumes |-> Mount(<<"dns">> \o node.name, "/etc/dnsmasq.d"),
     extraHosts |-> <<>>, expose |-> None]

Publish(port, hostPort) ==
    [containerPort |-> port, hostPort |-> hostPort, protocol |-> ""]

\* The local services are published so that other nodes can reach them, service i
\* at place i; a second route of it, for a node of the same name, adds nothing.
NginxPorts(node, routes) ==
    LET locals == {x \in DOMAIN routes : routes[x].isLocal}
        port == [i \in {x[1] : x \in locals} |-> routes[CHOOSE x \in locals : x[1] = i].port]
    IN  [i \in {0} \cup DOMAIN port |->
            IF i = 0 THEN Publish(DefaultNginxPort, node.proxyPort)
            ELSE Publish(port[i], PublishedPort(node.proxyPort, port[i]))]

NginxSpec(node, routes) ==
    [name |-> NginxProxy, image |-> [ref |-> "nginx", digest |-> None],
     ports |-> NginxPorts(node, routes), env |-> <<>>, command |-> <<"-c">>,
     volumes |-> Mount(node.name, "/etc/nginx/klite"),
     extraHosts |-> <<"host.docker.internal">>, expose |-> None]

InjectRoutingContainers(node, routes) ==
    <<DnsmasqSpec(node)>> \o node.containers \o <<NginxSpec(node, routes)>>

\* Address and name server of a container, chosen by its name.
StaticIP(c) == IF c = Dnsmasq THEN DnsmasqIP
               ELSE IF c = NginxProxy THEN NginxServiceIP ELSE None
UsesDnsmasq(c) == c # Dnsmasq

-----------------------------------------------------------------------------
(* The files of a node. *)

\* The exposed containers, in the http section of nginx.conf, each at its place
\* in the node.
RoutesForNode(node) ==
    LET exposed == {c \in DOMAIN node.containers : node.containers[c].expose # None}
        Of(c) == [path |-> c.expose.path, upstream |-> FullName(c.name, node.name),
                  upstreamPort |-> c.expose.port]
    IN  [c \in exposed |-> Of(node.containers[c])]

NginxConf(m, node) ==
    [routes |-> RoutesForNode(node), services |-> ServiceRoutes(m, node.name)]

\* dnsmasq.hosts: every service name, at the address of the node's proxy.
HostsFile(m) ==
    [name \in {m.services[i].name : i \in DOMAIN m.services} |-> NginxServiceIP]
=============================================================================
