------------------------------ MODULE MCRollout ------------------------------
(* Values of Rollout's constants for TLC. *)
EXTENDS Rollout, TLC

MCImageEnv == [i \in Image |-> IF i = "app" THEN ("PATH" :> "bin") ELSE <<>>]
MCImageCmd == [i \in Image |-> <<"run">>]

\* A user container; the optional parts of its spec are in the function with.
C(name, with) ==
    with @@ [name |-> name, image |-> [ref |-> "app", digest |-> None],
             ports |-> <<>>, env |-> <<>>, command |-> <<>>, volumes |-> <<>>,
             extraHosts |-> <<>>, expose |-> None]
N(name, proxyPort, containers) ==
    [name |-> name, proxyPort |-> proxyPort, containers |-> containers]
S(name, target, port) == [name |-> name, target |-> target, port |-> port]
M(nodes, services) == [given |-> HeaderFields, nodes |-> nodes, services |-> services]

x == <<"x">>
y == <<"y">>
web == <<"web">>
api == <<"api">>
At(path) == ("expose" :> [path |-> path, port |-> 3000])
Env(v, w) == ("env" :> (v :> w))
Port(c, h) == ("ports" :> <<[containerPort |-> c, hostPort |-> h, protocol |-> ""]>>)
Pinned == ("image" :> [ref |-> "app", digest |-> "d"])
Disk(ro) == ("volumes" :> <<[hostPath |-> <<"disk">>, containerPath |-> "/data", readOnly |-> ro]>>)
Cmd == ("command" :> <<"serve">>)

\* Two nodes, a service and an exposed container on each.
Base == M(<<N(x, 8080, <<C(web, At("/") @@ Cmd)>>),
            N(y, 8081, <<C(api, At("/api") @@ Env("DB", "1") @@ Port(22, 2222) @@ Pinned @@ Disk(TRUE))>>)>>,
          <<S(web, <<x, web>>, 3000), S(api, <<y, api>>, 9000)>>)

\* The nodes swap their proxy ports; web loses its command, and of
\* api only the port is another.
Swapped == M(<<N(x, 8081, <<C(web, Env("PATH", "sbin"))>>),
               N(y, 8080, <<C(api, Port(22, 2223) @@ Disk(TRUE))>>)>>,
             <<S(web, <<x, web>>, 3000), S(api, <<y, api>>, 9000)>>)

\* x is dropped, y takes its port and publishes the SSH port by itself.
OneNode == M(<<N(y, 8080, <<C(api, Env("DB", "2") @@ Port(22, 2222) @@ Disk(FALSE)), C(web, Cmd)>>)>>,
             <<S(api, <<y, api>>, 9000)>>)

\* 8080 + 10000 + 9001 = 8081 + 10000 + 9000
PortSums == M(<<N(x, 8080, <<C(web, Cmd)>>), N(y, 8081, <<C(api, Cmd)>>)>>,
              <<S(web, <<x, web>>, 9001), S(api, <<y, api>>, 9000)>>)

\* 8080 + 10000 + 50000 > 65535; and an image that is not to be had.
TooHigh == M(<<N(x, 8080, <<C(web, Cmd), C(api, "image" :> [ref |-> "gone", digest |-> None])>>)>>,
             <<S(web, <<x, web>>, 50000)>>)

\* Names that validation lets pass: "web" twice on a node, and "x-nginx" with a
\* "proxy", which is klite-x-nginx-proxy like the proxy of "x".
TwoOfAName == M(<<N(x, 0, <<C(web, Env("A", "1")), C(web, Env("A", "2"))>>),
                  N(<<"x", "nginx">>, 8082, <<C(<<"proxy">>, Cmd)>>)>>, <<>>)

\* The same for nodes; all services are routed twice.
TwoNodesOfAName == M(<<N(y, 8081, <<C(api, Cmd)>>), N(y, 0, <<C(web, Cmd)>>)>>,
                     <<S(api, <<y, api>>, 9000)>>)

\* Both services listen on one port of both proxies, and two paths are one.
SameListeners == M(<<N(x, 8080, <<C(web, Cmd @@ At("/")), C(api, At("/"))>>),
                     N(y, 8081, <<C(api, Cmd)>>)>>,
                   <<S(web, <<x, web>>, 3000), S(api, <<y, api>>, 3000)>>)

\* Refused by validate.
NoNodes == M(<<>>, <<>>)
NoContainer == M(<<N(x, 8080, <<>>)>>, <<S(web, <<x, web>>, 3000)>>)
NoNode == M(<<N(x, 8080, <<C(web, Cmd)>>)>>, <<S(api, <<y, api>>, 3000)>>)
NoTarget == M(<<N(x, 8080, <<C(web, Cmd)>>)>>, <<S(web, EmptyTarget, 3000)>>)
NoPortGiven == M(<<N(x, 8080, <<C(web, Cmd)>>)>>, <<S(web, <<x, web>>, 0)>>)
TwoServicesOfAName == M(<<N(x, 8080, <<C(web, Cmd)>>)>>,
                        <<S(web, <<x, web>>, 3000), S(web, <<x, web>>, 3001)>>)

MCContent ==
    [m \in Manifest |->
        CASE m = "Base" -> Base
          [] m = "Swapped" -> Swapped
          [] m = "OneNode" -> OneNode
          [] m = "PortSums" -> PortSums
          [] m = "TooHigh" -> TooHigh
          [] m = "TwoOfAName" -> TwoOfAName
          [] m = "TwoNodesOfAName" -> TwoNodesOfAName
          [] m = "SameListeners" -> SameListeners
          [] m = "NoNodes" -> NoNodes
          [] m = "NoContainer" -> NoContainer
          [] m = "NoNode" -> NoNode
          [] m = "NoTarget" -> NoTarget
          [] m = "NoPortGiven" -> NoPortGiven
          [] m = "TwoServicesOfAName" -> TwoServicesOfAName]

\* The hypotheses of the theorems about ApplyGivesSpec and RoutesReach hold of
\* these manifests.
ASSUME MCOwnNames == OwnNamesAndImages
ASSUME MCImagesTell == \A m \in Manifest : ImagesTellApart(m) /\ NoNegativePort(m)
=============================================================================
