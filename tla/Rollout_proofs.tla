--------------------------- MODULE Rollout_proofs ---------------------------
(***************************************************************************)
(* Proofs about Rollout: what Apply keeps or creates gives what its spec   *)
(* asks for, and what a second Apply can meet.                             *)
(***************************************************************************)
EXTENDS Rollout, Containers_proofs

Nodes(m) == Content[m].nodes
NodeOf(m, i) == Content[m].nodes[i]

\* The files of node n are some manifest's.
NodeFiles ==
    UNION {{[nginx |-> NginxConf(Content[m], NodeOf(m, i)), hosts |-> HostsFile(Content[m])] :
                i \in DOMAIN Nodes(m)} : m \in Manifest}
HasFiles(n) == conf[n] \in NodeFiles

\* Where a container under the name s comes from.
IsContainer(s, d) ==
    \E m \in Manifest : \E p \in Planned[m], up \in BOOLEAN, file \in NginxFiles \cup {None} :
        /\ NameOf(p) = s
        /\ Creatable(ConfigOf(p.spec))
        /\ d = [node |-> p.node, name |-> p.spec.name, config |-> ConfigOf(p.spec),
                running |-> up, nginx |-> file]

\* todo is what the container loop has left of containersToApply.
TodoOK ==
    LET all == ToApply(job, k)
    IN  /\ todo \in Seq(Range(all))
        /\ Len(todo) \in 1..Len(all)
        /\ \A l \in 1..Len(todo) : todo[l] = all[Len(all) - Len(todo) + l]

LoopInv ==
    /\ pc \in {"idle", "node", "container", "end"}
    /\ job \in Manifest \cup {None}
    /\ job = None <=> pc = "idle"
    /\ IF job = None THEN k = 0 ELSE k \in DOMAIN Nodes(job)
    /\ pc = "end" => k = Len(Nodes(job))
    /\ pc = "container" => TodoOK
    /\ errs \in BOOLEAN

DockerInv ==
    /\ docker = [s \in AllNames |-> docker[s]]
    /\ \A s \in AllNames : docker[s] = None \/ IsContainer(s, docker[s])
    /\ conf = [n \in NodeNames |-> conf[n]]
    /\ \A n \in NodeNames : conf[n] = None \/ HasFiles(n)
    /\ pc = "container" => HasFiles(NodeOf(job, k).name)
    /\ \A s \in AllNames : docker[s] # None /\ docker[s].name = NginxProxy => HasFiles(docker[s].node)

HistoryInv ==
    /\ replaced \subseteq AllNames
    /\ {settled, tried} \subseteq Manifest \cup {None}
    /\ calm \in BOOLEAN
    /\ exits \in 0..MaxExits

RInv == LoopInv /\ DockerInv /\ HistoryInv

-----------------------------------------------------------------------------
(* The containers of a manifest. *)

LEMMA NodesAreLists ==
    ASSUME NEW m \in Manifest
    PROVE  /\ Nodes(m) \in Seq(Range(Nodes(m)))
           /\ Len(Nodes(m)) \in Nat /\ DOMAIN Nodes(m) = 1..Len(Nodes(m))
           /\ \A i \in DOMAIN Nodes(m) :
                 /\ NodeOf(m, i).containers \in Seq(Range(NodeOf(m, i).containers))
                 /\ \A c \in DOMAIN NodeOf(m, i).containers :
                       /\ IsList(NodeOf(m, i).containers[c].volumes)
                       /\ IsList(NodeOf(m, i).containers[c].command)
  <1>1. Nodes(m) \in Seq(Range(Nodes(m)))
    BY ContentAssumption DEF Nodes, IsList
  <1>2. Len(Nodes(m)) \in Nat /\ DOMAIN Nodes(m) = 1..Len(Nodes(m))
    BY <1>1
  <1> QED
    BY <1>1, <1>2, ContentAssumption DEF Nodes, NodeOf, IsList

\* containersToApply of a node: dnsmasq, the node's own containers, nginx-proxy.
LEMMA ToApplyFacts ==
    ASSUME NEW m \in Manifest, NEW i \in DOMAIN Nodes(m)
    PROVE  LET all == ToApply(m, i)
               node == NodeOf(m, i)
               proxy == NginxSpec(node, ServiceRoutes(Content[m], node.name))
           IN  /\ all \in Seq(Range(all))
               /\ Len(all) \in Nat /\ Len(all) > 0 /\ DOMAIN all = 1..Len(all)
               /\ \A j \in DOMAIN all : \/ all[j] = DnsmasqSpec(node)
                                        \/ \E c \in DOMAIN node.containers :
                                              all[j] = node.containers[c]
                                        \/ all[j] = proxy
               /\ all[Len(all)] = proxy
  <1> DEFINE all == ToApply(m, i)
             node == NodeOf(m, i)
             proxy == NginxSpec(node, ServiceRoutes(Content[m], node.name))
             own == node.containers
             X == {DnsmasqSpec(node), proxy} \cup Range(own)
  <1>1. own \in Seq(Range(own))
    BY NodesAreLists
  <1>2. all = <<DnsmasqSpec(node)>> \o own \o <<proxy>>
    BY DEF ToApply, InjectRoutingContainers, NodeOf
  <1>3. all \in Seq(X) /\ Len(all) = Len(own) + 2
    <2>1. own \in Seq(X)
      BY <1>1
    <2>2. DnsmasqSpec(node) \in X /\ proxy \in X
      OBVIOUS
    <2> HIDE DEF X, proxy, own, node, all
    <2> QED
      BY <1>2, <2>1, <2>2
  <1>9. all[Len(all)] = proxy
    <2>1. own \in Seq(X) /\ Len(own) \in Nat
      BY <1>1
    <2>2. DnsmasqSpec(node) \in X /\ proxy \in X
      OBVIOUS
    <2> HIDE DEF X, proxy, own, node, all
    <2> QED
      BY <1>2, <1>3, <2>1, <2>2
  <1>4. Len(all) \in Nat /\ Len(all) > 0 /\ DOMAIN all = 1..Len(all)
    <2>1. Len(own) \in Nat
      BY <1>1
    <2> HIDE DEF X, proxy, own, all
    <2> QED
      BY <1>3, <2>1
  <1>5. all \in Seq(Range(all))
    <2> HIDE DEF X, proxy, own, all
    <2> QED
      BY <1>3, <1>4 DEF Range
  <1>6. \A j \in DOMAIN all : all[j] \in X
    <2> HIDE DEF X, proxy, own, all
    <2> QED
      BY <1>3
  <1>7. \A x \in Range(own) : \E c \in DOMAIN own : x = own[c]
    BY DEF Range
  <1> HIDE DEF proxy, own, all, node
  <1>8. \A j \in DOMAIN all : \/ all[j] = DnsmasqSpec(node)
                              \/ \E c \in DOMAIN own : all[j] = own[c]
                              \/ all[j] = proxy
    BY <1>6, <1>7
  <1> QED
    BY <1>4, <1>5, <1>8, <1>9 DEF proxy, own, all, node

\* The entries of Planned.
LEMMA PlannedFacts ==
    ASSUME NEW m \in Manifest
    PROVE  /\ \A i \in DOMAIN Nodes(m) : \A j \in DOMAIN ToApply(m, i) :
                 [node |-> NodeOf(m, i).name, spec |-> ToApply(m, i)[j], at |-> <<i, j>>]
                    \in Planned[m]
           /\ \A p \in Planned[m] : \E i \in DOMAIN Nodes(m) : \E j \in DOMAIN ToApply(m, i) :
                 p = [node |-> NodeOf(m, i).name, spec |-> ToApply(m, i)[j], at |-> <<i, j>>]
  BY DEF Planned, Nodes, NodeOf

LEMMA PlannedNames ==
    ASSUME NEW m \in Manifest, NEW p \in Planned[m]
    PROVE  NameOf(p) \in Names[m] /\ NameOf(p) \in AllNames
  <1>1. NameOf(p) \in Names[m]
    BY DEF Names
  <1>2. Names[m] \in Range(Names)
    BY DEF Names, Range
  <1> QED
    BY <1>1, <1>2 DEF AllNames

-----------------------------------------------------------------------------
(* The loops. *)

\* The container in hand, as an entry of the plan.
Pos == Len(ToApply(job, k)) - Len(todo) + 1
Current == [node |-> NodeOf(job, k).name, spec |-> Head(todo), at |-> <<k, Pos>>]

LEMMA CurrentFacts ==
    ASSUME LoopInv, pc = "container"
    PROVE  /\ job \in Manifest /\ k \in DOMAIN Nodes(job)
           /\ Pos \in DOMAIN ToApply(job, k) /\ Head(todo) = ToApply(job, k)[Pos]
           /\ Current \in Planned[job]
           /\ NameOf(Current) \in AllNames
           /\ NameOf(Current) = DockerName(Content[job].nodes[k].name, Head(todo).name)
  <1> DEFINE all == ToApply(job, k)
  <1>1. job \in Manifest /\ k \in DOMAIN Nodes(job)
    BY DEF LoopInv
  <1>2. Len(all) \in Nat /\ DOMAIN all = 1..Len(all)
    BY <1>1, ToApplyFacts
  <1>3. Pos \in DOMAIN all /\ Head(todo) = all[Pos]
    <2>1. /\ todo \in Seq(Range(all)) /\ Len(todo) \in 1..Len(all)
          /\ \A l \in 1..Len(todo) : todo[l] = all[Len(all) - Len(todo) + l]
      BY DEF LoopInv, TodoOK
    <2> HIDE DEF all
    <2>2. Head(todo) = todo[1]
      BY <1>2, <2>1
    <2> QED
      BY <1>2, <2>1, <2>2 DEF Pos, all
  <1>4. Current \in Planned[job]
    BY <1>1, <1>3, PlannedFacts DEF Current
  <1>5. NameOf(Current) = DockerName(Content[job].nodes[k].name, Head(todo).name)
    BY DEF NameOf, Current, NodeOf
  <1> QED
    BY <1>1, <1>3, <1>4, <1>5, PlannedNames

LEMMA ProceedLoop ==
    ASSUME LoopInv, pc = "container", Proceed, job' = job, errs' \in BOOLEAN
    PROVE  LoopInv'
  <1> DEFINE all == ToApply(job, k)
  <1>1. /\ job \in Manifest /\ k \in DOMAIN Nodes(job)
        /\ Len(Nodes(job)) \in Nat /\ DOMAIN Nodes(job) = 1..Len(Nodes(job))
    BY CurrentFacts, NodesAreLists DEF LoopInv
  <1>2. Len(all) \in Nat /\ DOMAIN all = 1..Len(all)
    BY <1>1, ToApplyFacts
  <1>3. /\ todo \in Seq(Range(all)) /\ Len(todo) \in 1..Len(all)
        /\ \A l \in 1..Len(todo) : todo[l] = all[Len(all) - Len(todo) + l]
    BY DEF LoopInv, TodoOK
  <1>4. CASE Len(todo) > 1
    <2>1. todo' = Tail(todo) /\ UNCHANGED <<pc, k>>
      BY <1>4 DEF Proceed
    <2>2. all' = all
      BY <2>1 DEF ToApply
    <2>3. TodoOK'
      <3> HIDE DEF all
      <3>1. /\ todo' \in Seq(Range(all)) /\ Len(todo') = Len(todo) - 1
            /\ \A l \in 1..(Len(todo) - 1) : todo'[l] = todo[l + 1]
        BY <1>3, <1>4, <2>1
      <3>2. Len(todo') \in 1..Len(all)
        BY <1>2, <1>3, <1>4, <3>1
      <3>3. \A l \in 1..Len(todo') : todo'[l] = all[Len(all) - Len(todo') + l]
        BY <1>2, <1>3, <1>4, <3>1
      <3> QED
        BY <2>2, <3>1, <3>2, <3>3 DEF TodoOK, all
    <2> QED
      BY <2>1, <2>3 DEF LoopInv
  <1>5. CASE ~(Len(todo) > 1) /\ k < Len(Content[job].nodes)
    BY <1>1, <1>5 DEF Proceed, LoopInv, Nodes
  <1>6. CASE ~(Len(todo) > 1) /\ ~(k < Len(Content[job].nodes))
    BY <1>1, <1>6 DEF Proceed, LoopInv, Nodes
  <1> QED
    BY <1>4, <1>5, <1>6

\* Every step keeps the loop variables in order.
LEMMA LoopNext ==
    ASSUME LoopInv, [Next]_vars
    PROVE  LoopInv'
  <1>1. CASE UNCHANGED vars
    BY <1>1 DEF vars, LoopInv, TodoOK
  <1>2. ASSUME NEW m \in Manifest, Apply(m) PROVE LoopInv'
    <2>1. m # None /\ Nodes(m) # <<>>
      BY <1>2, ExitsAssumption DEF Apply, Valid, Nodes
    <2>2. 1 \in DOMAIN Nodes(m)
      BY <2>1, NodesAreLists
    <2> QED
      BY <1>2, <2>1, <2>2 DEF Apply, LoopInv
  <1>3. ASSUME NEW m \in Manifest, Delete(m) PROVE LoopInv'
    BY <1>3 DEF Delete, LoopInv
  <1>4. CASE BeginNode
    <2>1. job \in Manifest /\ k \in DOMAIN Nodes(job)
      BY <1>4, ExitsAssumption DEF BeginNode, LoopInv
    <2>2. TodoOK'
      BY <1>4, <2>1, ToApplyFacts DEF BeginNode, TodoOK, ToApply
    <2> QED
      BY <1>4, <2>2 DEF BeginNode, LoopInv
  <1>5. CASE Keep \/ Recreate
    BY <1>5, ProceedLoop DEF Keep, Recreate, LoopInv
  <1>6. CASE Return
    BY <1>6 DEF Return, LoopInv
  <1>7. ASSUME NEW s \in AllNames, ContainerExit(s) \/ StartStopped(s) PROVE LoopInv'
    BY <1>7 DEF ContainerExit, StartStopped, LoopInv, TodoOK, ToApply
  <1> QED
    BY <1>1, <1>2, <1>3, <1>4, <1>5, <1>6, <1>7 DEF Next

-----------------------------------------------------------------------------
(* Docker and the files. *)

LEMMA NginxFileFacts ==
    ASSUME NEW n, NEW c, c = NginxProxy => HasFiles(n)
    PROVE  NginxFile(n, c) \in NginxFiles \cup {None}
  <1>1. CASE c # NginxProxy
    BY <1>1 DEF NginxFile
  <1>2. CASE c = NginxProxy
    <2>1. PICK m \in Manifest : \E i \in DOMAIN Nodes(m) :
              conf[n] = [nginx |-> NginxConf(Content[m], NodeOf(m, i)),
                         hosts |-> HostsFile(Content[m])]
      BY <1>2 DEF HasFiles, NodeFiles
    <2>2. PICK i \in DOMAIN Nodes(m) : conf[n].nginx = NginxConf(Content[m], NodeOf(m, i))
      BY <2>1
    <2>3. NginxConf(Content[m], NodeOf(m, i)) \in NginxFiles
      BY DEF NginxFiles, Nodes, NodeOf
    <2> QED
      BY <1>2, <2>2, <2>3 DEF NginxFile
  <1> QED
    BY <1>1, <1>2

LEMMA OutcomesAreBoolean ==
    ASSUME NEW d, NEW n, NEW c, NEW up \in Outcomes(d, n, c)
    PROVE  up \in BOOLEAN
  BY DEF Outcomes

\* What Apply creates is a container of the manifest.
LEMMA RecreatedContainer ==
    ASSUME LoopInv, DockerInv, pc = "container", NEW up \in BOOLEAN,
           Creatable(ConfigOf(Head(todo)))
    PROVE  LET d == Container(Content[job].nodes[k].name, Head(todo), ConfigOf(Head(todo)), up)
           IN  /\ IsContainer(NameOf(Current), d)
               /\ HasFiles(d.node)
  <1> DEFINE n == Content[job].nodes[k].name
             file == NginxFile(n, Head(todo).name)
  <1>1. n = NodeOf(job, k).name /\ HasFiles(n)
    BY DEF DockerInv, NodeOf
  <1>2. file \in NginxFiles \cup {None}
    BY <1>1, NginxFileFacts
  <1>3. job \in Manifest /\ Current \in Planned[job]
    BY CurrentFacts
  <1>4. Current.node = n /\ Current.spec = Head(todo)
    BY <1>1 DEF Current
  <1> HIDE DEF file
  <1>5. Container(n, Head(todo), ConfigOf(Head(todo)), up)
           = [node |-> n, name |-> Head(todo).name, config |-> ConfigOf(Head(todo)),
              running |-> up, nginx |-> file]
    BY DEF Container, file
  <1> HIDE DEF n
  <1>6. IsContainer(NameOf(Current), Container(n, Head(todo), ConfigOf(Head(todo)), up))
    BY <1>2, <1>3, <1>4, <1>5 DEF IsContainer
  <1>7. Container(n, Head(todo), ConfigOf(Head(todo)), up).node = n
    BY <1>5
  <1> QED
    BY <1>1, <1>6, <1>7 DEF n

\* A container stays one when it stops or starts again.
LEMMA IsContainerFacts ==
    ASSUME NEW s, NEW d, IsContainer(s, d)
    PROVE  /\ d # None
           /\ d.running \in BOOLEAN
           /\ DockerName(d.node, d.name) = s
           /\ Creatable(d.config)
           /\ d.node \in NodeNames
           /\ \A up \in BOOLEAN :
                 LET e == [d EXCEPT !.running = up]
                 IN  /\ IsContainer(s, e) /\ e.node = d.node /\ e.name = d.name
                     /\ e.config = d.config /\ e.running = up
           /\ \A file \in NginxFiles \cup {None} :
                 LET e == [d EXCEPT !.nginx = file]
                 IN  IsContainer(s, e) /\ e.node = d.node /\ e.name = d.name /\ e.config = d.config
  <1>0. PICK m \in Manifest :
          \E p \in Planned[m], was \in BOOLEAN, had \in NginxFiles \cup {None} :
           /\ NameOf(p) = s
           /\ Creatable(ConfigOf(p.spec))
           /\ d = [node |-> p.node, name |-> p.spec.name, config |-> ConfigOf(p.spec),
                   running |-> was, nginx |-> had]
    BY DEF IsContainer
  <1>1. PICK p \in Planned[m], was \in BOOLEAN, had \in NginxFiles \cup {None} :
           /\ NameOf(p) = s
           /\ Creatable(ConfigOf(p.spec))
           /\ d = [node |-> p.node, name |-> p.spec.name, config |-> ConfigOf(p.spec),
                   running |-> was, nginx |-> had]
    BY <1>0
  <1>2. d # None
    BY <1>1, ContainerAssumption
  <1>3. d.running \in BOOLEAN /\ Creatable(d.config)
    BY <1>1
  <1>4. DockerName(d.node, d.name) = s
    BY <1>1 DEF NameOf
  <1>5. d.node \in NodeNames
    <2>1. PICK i \in DOMAIN Nodes(m) : \E j \in DOMAIN ToApply(m, i) :
             p = [node |-> NodeOf(m, i).name, spec |-> ToApply(m, i)[j], at |-> <<i, j>>]
      BY PlannedFacts
    <2>2. p.node = NodeOf(m, i).name
      BY <2>1
    <2> QED
      BY <1>1, <2>2 DEF NodeNames, Nodes, NodeOf
  <1>6. ASSUME NEW up \in BOOLEAN
        PROVE  LET e == [d EXCEPT !.running = up]
               IN  /\ IsContainer(s, e) /\ e.node = d.node /\ e.name = d.name
                   /\ e.config = d.config /\ e.running = up
    <2>1. [d EXCEPT !.running = up]
             = [node |-> p.node, name |-> p.spec.name, config |-> ConfigOf(p.spec),
                running |-> up, nginx |-> had]
      BY <1>1
    <2> QED
      BY <1>1, <2>1 DEF IsContainer
  <1>7. ASSUME NEW file \in NginxFiles \cup {None}
        PROVE  LET e == [d EXCEPT !.nginx = file]
               IN  IsContainer(s, e) /\ e.node = d.node /\ e.name = d.name /\ e.config = d.config
    <2>1. [d EXCEPT !.nginx = file]
             = [node |-> p.node, name |-> p.spec.name, config |-> ConfigOf(p.spec),
                running |-> was, nginx |-> file]
      BY <1>1
    <2> QED
      BY <1>1, <2>1 DEF IsContainer
  <1> QED
    BY <1>2, <1>3, <1>4, <1>5, <1>6, <1>7

\* What Recreate leaves under the name: the container of the spec in hand, or
\* nothing, and then the error is noted.
LEMMA RecreateFacts ==
    ASSUME LoopInv, DockerInv, Recreate
    PROVE  \E x : /\ docker' = [docker EXCEPT ![NameOf(Current)] = x]
                  /\ x = None \/ (IsContainer(NameOf(Current), x) /\ HasFiles(x.node))
                  /\ x # None => x.config = ConfigOf(Head(todo))
                  /\ ~errs' => ~errs /\ x # None
                  /\ x # None /\ x.running =>
                        PortsFree([docker EXCEPT ![NameOf(Current)] = None], x.config)
                  /\ errs' => \/ errs
                              \/ ~Creatable(ConfigOf(Head(todo)))
                              \/ ~PortsFree([docker EXCEPT ![NameOf(Current)] = None],
                                            ConfigOf(Head(todo)))
  <1> DEFINE s == NameOf(Current)
             n == Content[job].nodes[k].name
             config == ConfigOf(Head(todo))
             made(up) == Container(n, Head(todo), config, up)
             rest == [docker EXCEPT ![s] = None]
             Goal(x) == /\ docker' = [docker EXCEPT ![s] = x]
                        /\ x = None \/ (IsContainer(s, x) /\ HasFiles(x.node))
                        /\ x # None => x.config = config
                        /\ ~errs' => ~errs /\ x # None
                        /\ x # None /\ x.running => PortsFree(rest, x.config)
                        /\ errs' => errs \/ ~Creatable(config) \/ ~PortsFree(rest, config)
  <1>1. pc = "container" /\ s = DockerName(n, Head(todo).name)
    BY CurrentFacts DEF Recreate
  <1>2. ASSUME NEW up \in BOOLEAN, Creatable(config)
        PROVE  /\ IsContainer(s, made(up)) /\ HasFiles(made(up).node)
               /\ made(up) # None /\ made(up).config = config /\ made(up).running = up
    <2>1. IsContainer(s, made(up)) /\ HasFiles(made(up).node)
      BY <1>1, <1>2, RecreatedContainer
    <2>2. made(up) # None
      BY <2>1, IsContainerFacts
    <2>3. made(up).config = config /\ made(up).running = up
      BY DEF Container
    <2> QED
      BY <2>1, <2>2, <2>3
  <1>3. errs \in BOOLEAN
    BY DEF LoopInv
  <1> HIDE DEF s, n, config, rest, made
  <1>4. CASE /\ Creatable(config) /\ PortsFree(rest, config) /\ UNCHANGED errs
             /\ \E up \in Outcomes(rest, n, Head(todo).name) :
                   docker' = [docker EXCEPT ![s] = made(up)]
    <2>1. PICK up \in Outcomes(rest, n, Head(todo).name) : docker' = [docker EXCEPT ![s] = made(up)]
      BY <1>4
    <2>2. up \in BOOLEAN
      BY OutcomesAreBoolean
    <2>3. Goal(made(up))
      BY <1>2, <1>4, <2>1, <2>2
    <2> QED
      BY <2>3 DEF s, config, rest
  <1>5. CASE /\ Creatable(config) /\ ~PortsFree(rest, config) /\ errs' = TRUE
             /\ docker' = [docker EXCEPT ![s] = made(FALSE)]
    <2>1. Goal(made(FALSE))
      BY <1>2, <1>5
    <2> QED
      BY <2>1 DEF s, config, rest
  <1>6. CASE ~Creatable(config) /\ errs' = TRUE /\ docker' = rest
    <2>1. Goal(None)
      BY <1>6 DEF rest
    <2> QED
      BY <2>1 DEF s, config, rest
  <1> QED
    BY <1>1, <1>4, <1>5, <1>6 DEF Recreate, n, config, made, rest

\* A container that stops or starts is the same container.
LEMMA ExitOrStart ==
    ASSUME DockerInv, NEW s \in AllNames, ContainerExit(s) \/ StartStopped(s)
    PROVE  \E y : /\ docker' = [docker EXCEPT ![s] = y]
                  /\ IsContainer(s, y)
                  /\ y.node = docker[s].node /\ y.name = docker[s].name
                  /\ y.config = docker[s].config
                  /\ y.running => /\ StartStopped(s) /\ ~docker[s].running
                                  /\ PortsFree(docker, y.config)
  <1>1. docker[s] # None
    BY DEF ContainerExit, StartStopped, Running
  <1>2. IsContainer(s, docker[s])
    BY <1>1 DEF DockerInv
  <1>3. CASE ContainerExit(s)
    <2> DEFINE y == [docker[s] EXCEPT !.running = FALSE]
    <2>1. docker' = [docker EXCEPT ![s] = y]
      BY <1>3 DEF ContainerExit
    <2>2. /\ IsContainer(s, y) /\ y.node = docker[s].node /\ y.name = docker[s].name
          /\ y.config = docker[s].config /\ ~y.running
      BY <1>2, IsContainerFacts
    <2> HIDE DEF y
    <2> QED
      BY <2>1, <2>2
  <1>4. CASE StartStopped(s)
    <2> DEFINE file == NginxFile(docker[s].node, docker[s].name)
    <2>1. file \in NginxFiles \cup {None}
      BY <1>1, NginxFileFacts DEF DockerInv
    <2>2. PICK up \in Outcomes(docker, docker[s].node, docker[s].name) :
              docker' = [docker EXCEPT ![s].running = up, ![s].nginx = file]
      BY <1>4 DEF StartStopped
    <2>3. up \in BOOLEAN
      BY OutcomesAreBoolean
    <2> HIDE DEF file
    <2> DEFINE x == [docker[s] EXCEPT !.running = up]
               y == [x EXCEPT !.nginx = file]
    <2>4. /\ IsContainer(s, x) /\ x.node = docker[s].node /\ x.name = docker[s].name
          /\ x.config = docker[s].config
      BY <1>2, <2>3, IsContainerFacts
    <2> HIDE DEF x
    <2>5. /\ IsContainer(s, y) /\ y.node = docker[s].node /\ y.name = docker[s].name
          /\ y.config = docker[s].config
      BY <2>1, <2>4, IsContainerFacts
    <2>6. docker' = [docker EXCEPT ![s] = y]
      BY <2>2 DEF x, DockerInv
    <2> HIDE DEF y
    <2>7. ~docker[s].running /\ PortsFree(docker, docker[s].config)
      BY <1>4 DEF StartStopped
    <2> QED
      BY <1>4, <2>5, <2>6, <2>7
  <1> QED
    BY <1>3, <1>4

LEMMA DockerNext ==
    ASSUME LoopInv, DockerInv, [Next]_vars
    PROVE  DockerInv'
  <1>1. CASE UNCHANGED vars
    BY <1>1 DEF vars, DockerInv, HasFiles
  <1>2. ASSUME NEW m \in Manifest, Apply(m) PROVE DockerInv'
    BY <1>2 DEF Apply, DockerInv, HasFiles
  <1>3. ASSUME NEW m \in Manifest, Delete(m) PROVE DockerInv'
    <2>1. /\ docker' = [s \in AllNames |-> IF s \in Names[m] THEN None ELSE docker[s]]
          /\ UNCHANGED <<conf, pc, job, k>>
      BY <1>3 DEF Delete, DockerInv
    <2>2. \A s \in AllNames : docker'[s] = None \/ docker'[s] = docker[s]
      BY <2>1
    <2> QED
      BY <2>1, <2>2 DEF DockerInv, HasFiles
  <1>4. CASE BeginNode
    <2> DEFINE name == NodeOf(job, k).name
               files == [nginx |-> NginxConf(Content[job], NodeOf(job, k)),
                         hosts |-> HostsFile(Content[job])]
    <2>1. job \in Manifest /\ k \in DOMAIN Nodes(job)
      BY <1>4, ExitsAssumption DEF BeginNode, LoopInv
    <2>2. name \in NodeNames
      BY <2>1 DEF NodeNames, Nodes, NodeOf
    <2>3. conf' = [conf EXCEPT ![name] = files] /\ UNCHANGED <<docker, job, k>>
      BY <1>4 DEF BeginNode, NodeOf
    <2> HIDE DEF name, files
    <2>4. conf' = [n \in NodeNames |-> conf'[n]]
      BY <2>3 DEF DockerInv
    <2>5. \A n \in NodeNames : conf'[n] = IF n = name THEN files ELSE conf[n]
      BY <2>3 DEF DockerInv
    <2>6. files \in NodeFiles
      BY <2>1 DEF NodeFiles, files
    <2>7. \A n \in NodeNames : conf[n] \in NodeFiles => conf'[n] \in NodeFiles
      BY <2>5, <2>6
    <2>8. \A s \in AllNames : docker[s] # None => docker[s].node \in NodeNames
      BY IsContainerFacts DEF DockerInv
    <2> QED
      <3>1. \A n \in NodeNames : conf'[n] = None \/ conf'[n] \in NodeFiles
        BY <2>5, <2>6, <2>7 DEF DockerInv, HasFiles
      <3>2. conf'[NodeOf(job', k').name] \in NodeFiles
        BY <2>2, <2>3, <2>5, <2>6 DEF name
      <3>3. \A s \in AllNames : docker'[s] # None /\ docker'[s].name = NginxProxy
                                   => conf'[docker'[s].node] \in NodeFiles
        BY <2>3, <2>7, <2>8 DEF DockerInv, HasFiles
      <3> QED
        BY <2>3, <2>4, <3>1, <3>2, <3>3 DEF DockerInv, HasFiles
  <1>5. CASE Keep
    <2>1. UNCHANGED <<docker, conf, job>> /\ (pc' = "container" => pc = "container" /\ k' = k)
      BY <1>5 DEF Keep, Proceed
    <2> QED
      BY <2>1 DEF DockerInv, HasFiles
  <1>6. CASE Recreate
    <2>1. /\ pc = "container" /\ UNCHANGED <<conf, job>>
          /\ pc' = "container" => k' = k
      BY <1>6 DEF Recreate, Proceed
    <2> DEFINE s == NameOf(Current)
    <2>2. PICK x : /\ docker' = [docker EXCEPT ![s] = x]
                   /\ x = None \/ (IsContainer(s, x) /\ HasFiles(x.node))
      BY <1>6, RecreateFacts
    <2>3. s \in AllNames
      BY <2>1, CurrentFacts
    <2> HIDE DEF s
    <2>4. /\ docker' = [t \in AllNames |-> docker'[t]]
          /\ \A t \in AllNames : docker'[t] = IF t = s THEN x ELSE docker[t]
      BY <2>2 DEF DockerInv
    <2> QED
      BY <2>1, <2>2, <2>4 DEF DockerInv, HasFiles
  <1>7. CASE Return
    BY <1>7 DEF Return, DockerInv, HasFiles
  <1>8. ASSUME NEW s \in AllNames, ContainerExit(s) \/ StartStopped(s) PROVE DockerInv'
    <2>1. docker[s] # None /\ UNCHANGED <<conf, pc, job, k>>
      BY <1>8 DEF ContainerExit, StartStopped, Running
    <2>2. PICK y : /\ docker' = [docker EXCEPT ![s] = y]
                   /\ IsContainer(s, y)
                   /\ y.node = docker[s].node /\ y.name = docker[s].name
      BY <1>8, ExitOrStart
    <2>3. /\ docker' = [t \in AllNames |-> docker'[t]]
          /\ \A t \in AllNames : docker'[t] = IF t = s THEN y ELSE docker[t]
      BY <2>2 DEF DockerInv
    <2> QED
      BY <2>1, <2>2, <2>3 DEF DockerInv, HasFiles
  <1> QED
    BY <1>1, <1>2, <1>3, <1>4, <1>5, <1>6, <1>7, <1>8 DEF Next

-----------------------------------------------------------------------------
(* Type correctness. *)

LEMMA HistoryNext ==
    ASSUME LoopInv, DockerInv, HistoryInv, [Next]_vars
    PROVE  HistoryInv'
  <1>1. CASE UNCHANGED vars
    BY <1>1 DEF vars, HistoryInv
  <1>2. ASSUME NEW m \in Manifest, Apply(m) \/ Delete(m) PROVE HistoryInv'
    BY <1>2 DEF Apply, Delete, HistoryInv
  <1>3. CASE BeginNode \/ Keep
    BY <1>3 DEF BeginNode, Keep, HistoryInv, history
  <1>4. CASE Recreate
    <2>1. pc = "container" /\ UNCHANGED <<settled, tried, calm, exits>>
      BY <1>4 DEF Recreate
    <2>2. NameOf(Current) \in AllNames
          /\ NameOf(Current) = DockerName(Content[job].nodes[k].name, Head(todo).name)
      BY <2>1, CurrentFacts
    <2>3. replaced' = replaced \cup {NameOf(Current)}
      BY <1>4, <2>2 DEF Recreate
    <2> QED
      BY <2>1, <2>2, <2>3 DEF HistoryInv
  <1>5. CASE Return
    BY <1>5 DEF Return, HistoryInv, LoopInv
  <1>6. ASSUME NEW s \in AllNames, ContainerExit(s) PROVE HistoryInv'
    <2>1. /\ exits < MaxExits /\ exits' = exits + 1
          /\ settled' = None /\ calm' = FALSE /\ UNCHANGED <<replaced, tried>>
      BY <1>6 DEF ContainerExit
    <2>2. exits' \in 0..MaxExits
      BY <2>1, ExitsAssumption DEF HistoryInv
    <2> QED
      BY <2>1, <2>2 DEF HistoryInv
  <1>7. ASSUME NEW s \in AllNames, StartStopped(s) PROVE HistoryInv'
    BY <1>7 DEF StartStopped, HistoryInv, history
  <1> QED
    BY <1>1, <1>2, <1>3, <1>4, <1>5, <1>6, <1>7 DEF Next

LEMMA InitRInv == Init => RInv
  <1> SUFFICES ASSUME Init PROVE RInv
    OBVIOUS
  <1>1. LoopInv /\ HistoryInv
    <2>1. 0 \in 0..MaxExits /\ None \notin Manifest
      BY ExitsAssumption
    <2> QED
      BY <2>1 DEF Init, LoopInv, HistoryInv
  <1>2. /\ docker = [s \in AllNames |-> None] /\ conf = [n \in NodeNames |-> None]
        /\ pc = "idle"
    BY DEF Init
  <1>3. DockerInv
    BY <1>2 DEF DockerInv
  <1> QED
    BY <1>1, <1>3 DEF RInv

LEMMA RInvInductive == Spec => []RInv
  <1>1. Init => RInv
    BY InitRInv
  <1>2. RInv /\ [Next]_vars => RInv'
    BY LoopNext, DockerNext, HistoryNext DEF RInv
  <1> QED
    BY <1>1, <1>2, PTL DEF Spec

\* Type correctness: the loop of Apply stays inside the manifest, and Docker holds
\* only containers that it could create, each under the name of its spec.
THEOREM RolloutTypeCorrect == Spec => []TypeOK
  <1>1. RInv => TypeOK
    <2> SUFFICES ASSUME RInv PROVE TypeOK
      OBVIOUS
    <2>1. \A s \in DOMAIN docker : docker[s] = None \/
              /\ docker[s].running \in BOOLEAN
              /\ DockerName(docker[s].node, docker[s].name) = s
              /\ Creatable(docker[s].config)
      BY IsContainerFacts DEF RInv, DockerInv
    <2>2. \A f \in NodeFiles : DOMAIN f = {"nginx", "hosts"}
      BY DEF NodeFiles
    <2>3. \A n \in DOMAIN conf : conf[n] = None \/ DOMAIN conf[n] = {"nginx", "hosts"}
      BY <2>2 DEF RInv, DockerInv, HasFiles
    <2>4. DOMAIN docker = AllNames
      BY DEF RInv, DockerInv
    <2> QED
      BY <2>1, <2>3, <2>4 DEF TypeOK, RInv, LoopInv, HistoryInv, Nodes
  <1> QED
    BY <1>1, RInvInductive, PTL

-----------------------------------------------------------------------------
(* What Apply keeps and what it creates. *)

LEMMA SpecLists ==
    ASSUME NEW m \in Manifest, NEW p \in Planned[m]
    PROVE  /\ p.spec.volumes \in Seq(Range(p.spec.volumes))
           /\ p.spec.command \in Seq(Range(p.spec.command))
  <1> DEFINE Lists(spec) == /\ spec.volumes \in Seq(Range(spec.volumes))
                            /\ spec.command \in Seq(Range(spec.command))
  <1>1. PICK i \in DOMAIN Nodes(m) : \E j \in DOMAIN ToApply(m, i) : p.spec = ToApply(m, i)[j]
    BY PlannedFacts
  <1>2. PICK j \in DOMAIN ToApply(m, i) : p.spec = ToApply(m, i)[j]
    BY <1>1
  <1>3. \A x : <<x>> \in Seq(Range(<<x>>))
    BY DEF Range
  <1>4. Lists(DnsmasqSpec(NodeOf(m, i)))
    <2>1. \A path, on : Mount(path, on) \in Seq(Range(Mount(path, on)))
      BY <1>3 DEF Mount
    <2> QED
      BY <1>3, <2>1 DEF DnsmasqSpec
  <1>5. Lists(NginxSpec(NodeOf(m, i), ServiceRoutes(Content[m], NodeOf(m, i).name)))
    <2>1. \A path, on : Mount(path, on) \in Seq(Range(Mount(path, on)))
      BY <1>3 DEF Mount
    <2> QED
      BY <1>3, <2>1 DEF NginxSpec
  <1>6. \A c \in DOMAIN NodeOf(m, i).containers : Lists(NodeOf(m, i).containers[c])
    BY NodesAreLists DEF IsList
  <1> QED
    BY <1>2, <1>4, <1>5, <1>6, ToApplyFacts

\* Name and image tell injected containers and a user's apart.
LEMMA Kinds ==
    ASSUME OwnNamesAndImages, NEW m \in Manifest, NEW p \in Planned[m]
    PROVE  \/ p.spec.name = Dnsmasq /\ p.spec.image.ref = "dnsmasq"
           \/ p.spec.name = NginxProxy /\ p.spec.image.ref = "nginx"
           \/ /\ p.spec.name \notin {Dnsmasq, NginxProxy}
              /\ p.spec.image.ref \notin {"dnsmasq", "nginx"}
  <1>1. PICK i \in DOMAIN Nodes(m) : \E j \in DOMAIN ToApply(m, i) : p.spec = ToApply(m, i)[j]
    BY PlannedFacts
  <1>2. PICK j \in DOMAIN ToApply(m, i) : p.spec = ToApply(m, i)[j]
    BY <1>1
  <1> DEFINE node == NodeOf(m, i)
             proxy == NginxSpec(node, ServiceRoutes(Content[m], node.name))
  <1>3. DnsmasqSpec(node).name = Dnsmasq /\ DnsmasqSpec(node).image.ref = "dnsmasq"
    BY DEF DnsmasqSpec
  <1>4. proxy.name = NginxProxy /\ proxy.image.ref = "nginx"
    BY DEF NginxSpec
  <1>5. \/ p.spec = DnsmasqSpec(node)
        \/ \E c \in DOMAIN node.containers : p.spec = node.containers[c]
        \/ p.spec = proxy
    BY <1>2, ToApplyFacts
  <1> HIDE DEF proxy
  <1> QED
    BY <1>3, <1>4, <1>5 DEF OwnNamesAndImages, Nodes, NodeOf

\* The config of a container is Created's.
LEMMA ConfigFacts ==
    ASSUME NEW m \in Manifest, NEW p \in Planned[m]
    PROVE  LET config == ConfigOf(p.spec)
           IN  /\ config.binds \in Seq(Range(config.binds))
               /\ config.bindings = [q \in DOMAIN config.bindings |-> config.bindings[q]]
               /\ \A q \in DOMAIN config.bindings : q[1] \in 0..MaxPort
               /\ config.image = p.spec.image
               /\ config.dns = UsesDnsmasq(p.spec.name) /\ config.ip = StaticIP(p.spec.name)
               /\ \A v \in DOMAIN p.spec.env : config.env[v] = p.spec.env[v]
               /\ Len(p.spec.command) > 0 => config.cmd = p.spec.command
  <1> DEFINE config == ConfigOf(p.spec)
  <1>1. /\ config.image = p.spec.image
        /\ config.binds = BuildVolumeMounts(p.spec.volumes)
        /\ config.bindings = BuildPortBindings(p.spec.ports)
        /\ config.dns = UsesDnsmasq(p.spec.name) /\ config.ip = StaticIP(p.spec.name)
        /\ config.env = EnvOf(p.spec)
        /\ Len(p.spec.command) > 0 => config.cmd = p.spec.command
    BY DEF ConfigOf, Created
  <1>2. config.binds \in Seq(Range(config.binds))
    <2>1. config.binds \in Seq({Bind(v) : v \in Range(p.spec.volumes)})
      BY <1>1, SpecLists, MountsOf
    <2> HIDE DEF config
    <2> QED
      BY <2>1 DEF Range
  <1>3. config.bindings = [q \in DOMAIN config.bindings |-> config.bindings[q]]
    BY <1>1 DEF BuildPortBindings
  <1>4. \A q \in DOMAIN config.bindings : q[1] \in 0..MaxPort
    <2>1. ASSUME NEW x PROVE NatPort(x)[1] \in 0..MaxPort
      <3>1. \A a, b : <<a, b>>[1] = a
        OBVIOUS
      <3>2. 0 \in 0..MaxPort
        BY DEF MaxPort
      <3>3. NatPort(x) = IF x.containerPort \in 0..MaxPort
                         THEN <<x.containerPort, Protocol(x)>> ELSE <<0, "">>
        BY DEF NatPort, NoPort
      <3> DEFINE port == x.containerPort
                 protocol == Protocol(x)
      <3> HIDE DEF port, protocol
      <3>4. CASE port \in 0..MaxPort
        BY <3>1, <3>3, <3>4, Zenon DEF port, protocol
      <3>5. CASE port \notin 0..MaxPort
        BY <3>1, <3>2, <3>3, <3>5, Zenon DEF port, protocol
      <3> QED
        BY <3>4, <3>5
    <2>2. \A ports : \A q \in DOMAIN BuildPortBindings(ports) : \E x : q = NatPort(x)
      BY DEF BuildPortBindings
    <2> QED
      BY <1>1, <2>1, <2>2
  <1>5. \A v \in DOMAIN p.spec.env : config.env[v] = p.spec.env[v]
    BY <1>1 DEF EnvOf
  <1> QED
    BY <1>1, <1>2, <1>3, <1>4, <1>5

\* A new container gives what its spec asks for.
LEMMA CreatedGives ==
    ASSUME NEW m \in Manifest, NEW p \in Planned[m]
    PROVE  GoodFor(p.spec, ConfigOf(p.spec))
  <1>1. p.spec.command # <<>> => Len(p.spec.command) > 0
    BY SpecLists
  <1> QED
    BY <1>1, ConfigFacts DEF GoodFor

\* A container that matches, whichever spec it was created from.
LEMMA MatchingContainer ==
    ASSUME NEW m \in Manifest, NEW p \in Planned[m],
           NEW s, NEW d, IsContainer(s, d), SpecMatches(p.spec, d.config)
    PROVE  LET fresh == ConfigOf(p.spec)
           IN  /\ \E m0 \in Manifest : \E q \in Planned[m0] : d.config = ConfigOf(q.spec)
               /\ Gives(p.spec, d.config, fresh)
  <1> DEFINE spec == p.spec
             config == d.config
             fresh == ConfigOf(spec)
  <1>1. PICK m0 \in Manifest : \E q \in Planned[m0] :
            Creatable(ConfigOf(q.spec)) /\ config = ConfigOf(q.spec)
    BY DEF IsContainer
  <1>2. PICK q \in Planned[m0] : Creatable(ConfigOf(q.spec)) /\ config = ConfigOf(q.spec)
    BY <1>1
  <1>3. IsConfig(config)
    BY <1>2, ConfigFacts DEF IsConfig
  <1>4. spec.volumes \in Seq(Range(spec.volumes))
    BY SpecLists
  <1>5. Gives(spec, config, fresh)
    BY <1>3, <1>4, MatchedGives DEF ConfigOf
  <1> QED
    BY <1>1, <1>5

LEMMA KeptGives ==
    ASSUME NEW m \in Manifest, NEW p \in Planned[m], InjectedApart(m),
           NEW d, IsContainer(NameOf(p), d), SpecMatches(p.spec, d.config)
    PROVE  GoodFor(p.spec, d.config)
  <1> DEFINE spec == p.spec
             config == d.config
             fresh == ConfigOf(spec)
  <1>1. PICK m0 \in Manifest : \E q \in Planned[m0] :
            NameOf(q) = NameOf(p) /\ config = ConfigOf(q.spec)
    BY DEF IsContainer
  <1>2. PICK q \in Planned[m0] : NameOf(q) = NameOf(p) /\ config = ConfigOf(q.spec)
    BY <1>1
  <1>3. /\ config.image = q.spec.image
        /\ config.dns = UsesDnsmasq(q.spec.name) /\ config.ip = StaticIP(q.spec.name)
    BY <1>2, ConfigFacts
  <1>5. /\ config.image.ref = fresh.image.ref
        /\ config.bindings = fresh.bindings
        /\ Range(config.binds) = Range(fresh.binds)
        /\ \A v \in DOMAIN spec.env : config.env[v] = spec.env[v]
        /\ Len(spec.command) > 0 => config.cmd = spec.command
    BY MatchingContainer DEF Gives
  <1>6. spec.image.digest # None => config.image = fresh.image
    BY ConfigFacts DEF SpecMatches, ImageMatches
  <1>7. config.dns = fresh.dns /\ config.ip = fresh.ip
    <2>1. config.image.ref = spec.image.ref
      BY <1>5, ConfigFacts
    <2>2. \/ q.spec.name = spec.name
          \/ /\ q.spec.name \notin {Dnsmasq, NginxProxy}
             /\ spec.name \notin {Dnsmasq, NginxProxy}
      BY <1>2, <1>3, <2>1 DEF InjectedApart
    <2>3. /\ UsesDnsmasq(q.spec.name) = UsesDnsmasq(spec.name)
          /\ StaticIP(q.spec.name) = StaticIP(spec.name)
      BY <2>2 DEF UsesDnsmasq, StaticIP
    <2> QED
      BY <1>3, <2>3, ConfigFacts
  <1>8. spec.command # <<>> => Len(spec.command) > 0
    BY SpecLists
  <1> QED
    BY <1>5, <1>6, <1>7, <1>8 DEF GoodFor

-----------------------------------------------------------------------------
(* ApplyGivesSpec. *)

\* The container loop is past this place of the plan.
Passed(at) == \/ pc = "end"
              \/ at[1] < k
              \/ at[1] = k /\ pc = "container" /\ at[2] < Pos
LastPassed(p) ==
    /\ Passed(p.at)
    /\ \A q \in Planned[job] : NameOf(q) = NameOf(p) /\ Passed(q.at) => NotAfter(q, p)

\* Without an error so far, the last entry of a name that the loop is past has
\* its container.
ProgressInv ==
    job # None /\ ~errs /\ InjectedApart(job) =>
        \A p \in Planned[job] : LastPassed(p) =>
            docker[NameOf(p)] # None /\ GoodFor(p.spec, docker[NameOf(p)].config)

LEMMA PassedStep ==
    ASSUME LoopInv, pc = "container", Proceed, job' = job
    PROVE  /\ \A p \in Planned[job] : Passed(p.at)' <=> Passed(p.at) \/ p = Current
           /\ \A p \in Planned[job] : Passed(p.at) => ~NotAfter(Current, p)
  <1> DEFINE all == ToApply(job, k)
  <1>1. /\ job \in Manifest /\ k \in DOMAIN Nodes(job)
        /\ Pos \in DOMAIN all /\ Head(todo) = all[Pos]
        /\ Len(Nodes(job)) \in Nat /\ DOMAIN Nodes(job) = 1..Len(Nodes(job))
        /\ Len(all) \in Nat /\ DOMAIN all = 1..Len(all)
    BY CurrentFacts, NodesAreLists, ToApplyFacts
  <1>2. /\ todo \in Seq(Range(all)) /\ Len(todo) \in 1..Len(all)
        /\ Pos = Len(all) - Len(todo) + 1
    BY DEF LoopInv, TodoOK, Pos
  <1>3. Current.at = <<k, Pos>>
    BY DEF Current
  <1> SUFFICES ASSUME NEW p \in Planned[job]
               PROVE  /\ Passed(p.at)' <=> Passed(p.at) \/ p = Current
                      /\ Passed(p.at) => ~NotAfter(Current, p)
    OBVIOUS
  <1>4. PICK i \in DOMAIN Nodes(job) : \E j \in DOMAIN ToApply(job, i) :
            p = [node |-> NodeOf(job, i).name, spec |-> ToApply(job, i)[j], at |-> <<i, j>>]
    BY <1>1, PlannedFacts
  <1>5. PICK j \in DOMAIN ToApply(job, i) :
            p = [node |-> NodeOf(job, i).name, spec |-> ToApply(job, i)[j], at |-> <<i, j>>]
    BY <1>4
  <1>6. p.at[1] = i /\ p.at[2] = j /\ j \in Nat /\ i \in 1..Len(Nodes(job))
    BY <1>1, <1>5, ToApplyFacts
  <1>7. p = Current <=> i = k /\ j = Pos
    <2>1. i = k /\ j = Pos => p = Current
      BY <1>1, <1>5 DEF Current
    <2>2. p = Current => p.at = <<k, Pos>>
      BY <1>3
    <2> QED
      BY <1>6, <2>1, <2>2
  <1>8. Passed(p.at) <=> i < k \/ (i = k /\ j < Pos)
    BY <1>6 DEF Passed
  <1>9. Passed(p.at) => ~NotAfter(Current, p)
    BY <1>1, <1>3, <1>6, <1>8 DEF NotAfter
  <1>10. i = k => j <= Len(all)
    BY <1>1
  <1> HIDE DEF all
  <1>11. CASE Len(todo) > 1
    <2>1. todo' = Tail(todo) /\ UNCHANGED <<pc, k>>
      BY <1>11 DEF Proceed
    <2>2. Len(todo') = Len(todo) - 1
      BY <1>2, <1>11, <2>1
    <2>3. Pos' = Pos + 1
      <3>1. all' = all
        BY <2>1 DEF all, ToApply
      <3>2. Pos' = Len(all') - Len(todo') + 1
        BY DEF Pos, all
      <3> QED
        BY <1>1, <1>2, <2>2, <3>1, <3>2
    <2>4. Passed(p.at)' <=> i < k \/ (i = k /\ j < Pos + 1)
      BY <1>6, <2>1, <2>3 DEF Passed
    <2> QED
      BY <1>1, <1>6, <1>7, <1>8, <1>9, <2>4
  <1>12. CASE ~(Len(todo) > 1) /\ k < Len(Content[job].nodes)
    <2>1. pc' = "node" /\ k' = k + 1
      BY <1>12 DEF Proceed
    <2>2. Passed(p.at)' <=> i < k + 1
      BY <1>6, <2>1 DEF Passed
    <2> QED
      BY <1>1, <1>2, <1>6, <1>7, <1>8, <1>9, <1>10, <1>12, <2>2
  <1>13. CASE ~(Len(todo) > 1) /\ ~(k < Len(Content[job].nodes))
    <2>1. pc' = "end" /\ k = Len(Nodes(job))
      BY <1>1, <1>13 DEF Proceed, Nodes
    <2>2. Passed(p.at)'
      BY <2>1 DEF Passed
    <2> QED
      BY <1>1, <1>2, <1>6, <1>7, <1>8, <1>9, <1>10, <1>13, <2>1, <2>2
  <1> QED
    BY <1>11, <1>12, <1>13

\* Nothing is done yet when Apply begins, nor does writing a node's files do any
\* container.
LEMMA PassedAtStart ==
    ASSUME NEW m \in Manifest, Apply(m), NEW p \in Planned[m]
    PROVE  ~Passed(p.at)'
  <1>1. k' = 1 /\ pc' = "node"
    BY DEF Apply
  <1>2. PICK i \in DOMAIN Nodes(m) : \E j \in DOMAIN ToApply(m, i) : p.at = <<i, j>>
    BY PlannedFacts
  <1>3. p.at[1] = i /\ i \in Nat \ {0}
    BY <1>2, NodesAreLists
  <1> QED
    BY <1>1, <1>3 DEF Passed

LEMMA PassedAtNode ==
    ASSUME LoopInv, BeginNode
    PROVE  \A p \in Planned[job] : Passed(p.at)' <=> Passed(p.at)
  <1>1. /\ pc = "node" /\ pc' = "container" /\ UNCHANGED <<docker, job, k, errs>>
        /\ todo' = ToApply(job, k)
    BY DEF BeginNode
  <1>2. job \in Manifest /\ k \in DOMAIN Nodes(job)
    BY <1>1, ExitsAssumption DEF LoopInv
  <1>3. Pos' = 1
    <2>1. Len(ToApply(job, k)) \in Nat
      BY <1>2, ToApplyFacts
    <2>2. ToApply(job, k)' = ToApply(job, k)
      BY <1>1 DEF ToApply
    <2>3. Pos' = Len(ToApply(job, k)') - Len(todo') + 1
      BY DEF Pos
    <2> QED
      BY <1>1, <2>1, <2>2, <2>3
  <1>4. \A p \in Planned[job] : Passed(p.at)' <=> Passed(p.at)
    <2> SUFFICES ASSUME NEW p \in Planned[job] PROVE Passed(p.at)' <=> Passed(p.at)
      OBVIOUS
    <2>1. PICK i \in DOMAIN Nodes(job) : \E j \in DOMAIN ToApply(job, i) : p.at = <<i, j>>
      BY <1>2, PlannedFacts
    <2>2. PICK j \in DOMAIN ToApply(job, i) : p.at = <<i, j>>
      BY <2>1
    <2>3. p.at[2] = j /\ j \in Nat /\ j >= 1
      BY <1>2, <2>2, ToApplyFacts
    <2> QED
      BY <1>1, <1>3, <2>3 DEF Passed
  <1> QED
    BY <1>4

\* One turn of the container loop.
LEMMA ContainerStep ==
    ASSUME LoopInv, DockerInv, ProgressInv, pc = "container", Proceed, job' = job,
           NEW x, docker' = [docker EXCEPT ![NameOf(Current)] = x],
           ~errs' => ~errs /\ x # None,
           ~errs' /\ InjectedApart(job) => GoodFor(Head(todo), x.config)
    PROVE  ProgressInv'
  <1> DEFINE s == NameOf(Current)
  <1>1. /\ job \in Manifest /\ Current \in Planned[job] /\ s \in AllNames
        /\ Current.spec = Head(todo)
    BY CurrentFacts DEF Current
  <1>2. /\ \A p \in Planned[job] : Passed(p.at)' <=> Passed(p.at) \/ p = Current
        /\ \A p \in Planned[job] : Passed(p.at) => ~NotAfter(Current, p)
    BY PassedStep
  <1>3. \A t \in AllNames : docker'[t] = IF t = s THEN x ELSE docker[t]
    BY <1>1 DEF DockerInv
  <1> SUFFICES ASSUME job # None, ~errs', InjectedApart(job),
                      NEW p \in Planned[job], LastPassed(p)'
               PROVE  docker'[NameOf(p)] # None /\ GoodFor(p.spec, docker'[NameOf(p)].config)
    BY DEF ProgressInv
  <1>4. NameOf(p) \in AllNames
    BY <1>1, PlannedNames
  <1>5. /\ Passed(p.at)'
        /\ \A q \in Planned[job] : NameOf(q) = NameOf(p) /\ Passed(q.at)' => NotAfter(q, p)
    BY DEF LastPassed
  <1>6. CASE NameOf(p) = s
    <2>1. NotAfter(Current, p)
      BY <1>1, <1>2, <1>5, <1>6
    <2>2. p = Current
      BY <1>2, <1>5, <2>1
    <2> QED
      BY <1>1, <1>3, <1>4, <1>6, <2>2
  <1>7. CASE NameOf(p) # s
    <2>1. p # Current
      BY <1>7
    <2>2. LastPassed(p)
      BY <1>2, <1>5, <2>1 DEF LastPassed
    <2> HIDE DEF s
    <2>3. docker[NameOf(p)] # None /\ GoodFor(p.spec, docker[NameOf(p)].config)
      BY <2>2 DEF ProgressInv
    <2> QED
      BY <1>3, <1>4, <1>7, <2>3
  <1> QED
    BY <1>6, <1>7

LEMMA ProgressNext ==
    ASSUME LoopInv, DockerInv, ProgressInv, [Next]_vars
    PROVE  ProgressInv'
  <1>2. CASE UNCHANGED vars
    BY <1>2 DEF vars, ProgressInv, LastPassed, Passed, Pos, ToApply
  <1>3. ASSUME NEW m \in Manifest, Apply(m) PROVE ProgressInv'
    <2>1. job' = m /\ k' = 1 /\ pc' = "node"
      BY <1>3 DEF Apply
    <2>2. \A p \in Planned[m] : ~Passed(p.at)'
      BY <1>3, PassedAtStart
    <2> QED
      BY <2>1, <2>2 DEF ProgressInv, LastPassed
  <1>4. ASSUME NEW m \in Manifest, Delete(m) PROVE ProgressInv'
    BY <1>4 DEF Delete, ProgressInv, LoopInv
  <1>5. CASE BeginNode
    <2>1. UNCHANGED <<docker, job, errs>> /\ job \in Manifest
      BY <1>5, ExitsAssumption DEF BeginNode, LoopInv
    <2>4. \A p \in Planned[job] : Passed(p.at)' <=> Passed(p.at)
      BY <1>5, PassedAtNode
    <2> QED
      BY <2>1, <2>4 DEF ProgressInv, LastPassed
  <1>6. CASE Keep
    <2> DEFINE s == NameOf(Current)
    <2>1. /\ pc = "container" /\ Proceed /\ UNCHANGED <<docker, job, errs>>
          /\ Kept(docker[DockerName(Content[job].nodes[k].name, Head(todo).name)], Head(todo))
      BY <1>6 DEF Keep
    <2>2. /\ job \in Manifest /\ Current \in Planned[job] /\ s \in AllNames
          /\ s = DockerName(Content[job].nodes[k].name, Head(todo).name)
          /\ Current.spec = Head(todo)
      BY <2>1, CurrentFacts DEF Current
    <2>3. docker[s] # None /\ SpecMatches(Current.spec, docker[s].config)
      BY <2>1, <2>2 DEF Kept
    <2>4. IsContainer(s, docker[s])
      BY <2>2, <2>3 DEF DockerInv
    <2>5. InjectedApart(job) => GoodFor(Head(todo), docker[s].config)
      BY <2>2, <2>3, <2>4, KeptGives
    <2>6. docker' = [docker EXCEPT ![s] = docker[s]]
      <3> HIDE DEF s
      <3> QED
        BY <2>1, <2>2 DEF DockerInv
    <2> QED
      BY <2>1, <2>3, <2>5, <2>6, ContainerStep
  <1>7. CASE Recreate
    <2>1. pc = "container" /\ Proceed /\ job' = job
      BY <1>7 DEF Recreate
    <2>2. job \in Manifest /\ Current \in Planned[job] /\ Current.spec = Head(todo)
      BY <2>1, CurrentFacts DEF Current
    <2>3. PICK x : /\ docker' = [docker EXCEPT ![NameOf(Current)] = x]
                   /\ x # None => x.config = ConfigOf(Head(todo))
                   /\ ~errs' => ~errs /\ x # None
      BY <1>7, RecreateFacts
    <2>4. GoodFor(Head(todo), ConfigOf(Head(todo)))
      BY <2>2, CreatedGives
    <2> QED
      BY <2>1, <2>3, <2>4, ContainerStep
  <1>8. CASE Return
    BY <1>8 DEF Return, ProgressInv
  <1>9. ASSUME NEW s \in AllNames, ContainerExit(s) \/ StartStopped(s) PROVE ProgressInv'
    <2>1. UNCHANGED <<pc, job, k, todo, errs>>
      BY <1>9 DEF ContainerExit, StartStopped
    <2>2. PICK y : /\ docker' = [docker EXCEPT ![s] = y]
                   /\ IsContainer(s, y) /\ y.config = docker[s].config
      BY <1>9, ExitOrStart
    <2>3. \A t \in AllNames : docker[t] # None =>
              docker'[t] # None /\ docker'[t].config = docker[t].config
      <3>1. y # None
        BY <2>2, IsContainerFacts
      <3>2. \A t \in AllNames : docker'[t] = IF t = s THEN y ELSE docker[t]
        BY <2>2 DEF DockerInv
      <3> QED
        BY <2>2, <3>1, <3>2
    <2>4. UNCHANGED Pos
      BY <2>1 DEF Pos, ToApply
    <2>5. \A p : LastPassed(p)' <=> LastPassed(p)
      BY <2>1, <2>4 DEF LastPassed, Passed
    <2> SUFFICES ASSUME job # None, ~errs, InjectedApart(job),
                        NEW p \in Planned[job], LastPassed(p)
                 PROVE  docker'[NameOf(p)] # None /\ GoodFor(p.spec, docker'[NameOf(p)].config)
      BY <2>1, <2>5 DEF ProgressInv
    <2>6. docker[NameOf(p)] # None /\ GoodFor(p.spec, docker[NameOf(p)].config)
      BY DEF ProgressInv
    <2>7. NameOf(p) \in AllNames
      BY PlannedNames DEF LoopInv
    <2> QED
      BY <2>3, <2>6, <2>7
  <1> QED
    BY <1>2, <1>3, <1>4, <1>5, <1>6, <1>7, <1>8, <1>9 DEF Next

\* When Apply succeeds, every container of its manifest gives what its spec asks
\* for, kept or new, whatever manifests came before: for each manifest whose
\* Docker names do not make a user's container of nginx's image (say "proxy" of
\* node "x-nginx") the proxy of a node ("x"), for which it would be kept.
THEOREM ApplyGives == Spec => [](job # None /\ InjectedApart(job) => ApplyGivesSpec)
  <1> DEFINE Inv == LoopInv /\ DockerInv /\ ProgressInv
  <1>1. Init => Inv
    <2>1. Init => RInv /\ job = None
      BY InitRInv DEF Init
    <2> QED
      BY <2>1 DEF RInv, ProgressInv
  <1>2. Inv /\ [Next]_vars => Inv'
    BY LoopNext, DockerNext, ProgressNext
  <1>3. Inv => (job # None /\ InjectedApart(job) => ApplyGivesSpec)
    BY DEF LoopInv, ProgressInv, LastPassed, Passed, ApplyGivesSpec, IsLast
  <1> QED
    BY <1>1, <1>2, <1>3, PTL DEF Spec

\* Manifests whose containers keep off the names and the images of the injected
\* ones need no look at the others.
LEMMA OwnKeepsApart ==
    ASSUME OwnNamesAndImages, NEW m \in Manifest
    PROVE  InjectedApart(m)
  <1> SUFFICES ASSUME NEW p \in Planned[m], NEW l \in Manifest, NEW q \in Planned[l],
                      q.spec.image.ref = p.spec.image.ref, q.spec.name # p.spec.name
               PROVE  {q.spec.name, p.spec.name} \cap {Dnsmasq, NginxProxy} = {}
    BY DEF InjectedApart
  <1>1. /\ \/ p.spec.name = Dnsmasq /\ p.spec.image.ref = "dnsmasq"
           \/ p.spec.name = NginxProxy /\ p.spec.image.ref = "nginx"
           \/ /\ p.spec.name \notin {Dnsmasq, NginxProxy}
              /\ p.spec.image.ref \notin {"dnsmasq", "nginx"}
        /\ \/ q.spec.name = Dnsmasq /\ q.spec.image.ref = "dnsmasq"
           \/ q.spec.name = NginxProxy /\ q.spec.image.ref = "nginx"
           \/ /\ q.spec.name \notin {Dnsmasq, NginxProxy}
              /\ q.spec.image.ref \notin {"dnsmasq", "nginx"}
    BY Kinds
  <1>2. p.spec.name \notin {Dnsmasq, NginxProxy} /\ q.spec.name \notin {Dnsmasq, NginxProxy}
    BY <1>1
  <1> QED
    BY <1>2

\* The same from the manifests alone.
THEOREM ApplyGivesAll == ASSUME OwnNamesAndImages PROVE Spec => []ApplyGivesSpec
  <1>1. LoopInv /\ (job # None /\ InjectedApart(job) => ApplyGivesSpec) => ApplyGivesSpec
    BY OwnKeepsApart DEF LoopInv, ApplyGivesSpec
  <1>2. Spec => []LoopInv
    <2>1. Init => LoopInv
      BY InitRInv DEF RInv
    <2>2. LoopInv /\ [Next]_vars => LoopInv'
      BY LoopNext
    <2> QED
      BY <2>1, <2>2, PTL DEF Spec
  <1> QED
    BY <1>1, <1>2, ApplyGives, PTL

-----------------------------------------------------------------------------
(* RetrySucceeds. *)

\* The container of an entry is gone, or publishes the ports of the entry's spec.
OwnPorts(p) ==
    \/ docker[NameOf(p)] = None
    \/ docker[NameOf(p)].config.bindings = ConfigOf(p.spec).bindings

\* What Apply is past publishes its own ports, also if it failed; so does all of
\* the manifest that was tried last.
OwnPortsInv ==
    /\ job # None /\ ~NamesClash(job) =>
          \A p \in Planned[job] : tried = job \/ Passed(p.at) => OwnPorts(p)
    /\ job = None /\ tried # None /\ ~NamesClash(tried) =>
          \A p \in Planned[tried] : OwnPorts(p)

ErrorInv == job # None /\ errs /\ tried = job /\ ~NamesClash(job) => InTheWay(job)

\* The container in hand is refused: by what else it is refused than by an earlier
\* state of the manifest's own containers.
LEMMA Refusal ==
    ASSUME LoopInv, DockerInv, OwnPortsInv, pc = "container", tried = job, ~NamesClash(job),
           \/ ~Creatable(ConfigOf(Head(todo)))
           \/ ~PortsFree([docker EXCEPT ![NameOf(Current)] = None], ConfigOf(Head(todo)))
    PROVE  InTheWay(job)
  <1> DEFINE s == NameOf(Current)
             config == ConfigOf(Head(todo))
             rest == [docker EXCEPT ![s] = None]
  <1>1. /\ job \in Manifest /\ Current \in Planned[job] /\ s \in AllNames
        /\ Current.spec = Head(todo)
    BY CurrentFacts DEF Current
  <1>2. CASE ~Creatable(config)
    BY <1>1, <1>2 DEF InTheWay, Refused
  <1>3. \A p \in Planned[job] : \A q \in DOMAIN ConfigOf(p.spec).bindings :
           <<p, q>> \in PortsOf(job) /\ HostPort(<<p, q>>) = ConfigOf(p.spec).bindings[q]
    BY DEF PortsOf, HostPort
  <1>4. ASSUME NEW q \in DOMAIN config.bindings, NEW r \in DOMAIN config.bindings,
               config.bindings[q] = config.bindings[r], q # r
        PROVE  InTheWay(job)
    <2>1. /\ <<Current, q>> \in PortsOf(job) /\ <<Current, r>> \in PortsOf(job)
          /\ HostPort(<<Current, q>>) = HostPort(<<Current, r>>)
      BY <1>1, <1>3, <1>4
    <2>2. <<Current, q>> # <<Current, r>>
      BY <1>4
    <2> QED
      BY <2>1, <2>2 DEF InTheWay, PortsClash
  <1>5. ASSUME NEW t \in Running(rest), HostPorts(rest[t].config) \cap HostPorts(config) # {}
        PROVE  InTheWay(job)
    <2>1. t \in AllNames /\ t # s /\ rest[t] = docker[t] /\ docker[t] # None
      <3> HIDE DEF s
      <3> QED
        BY <1>1 DEF Running, DockerInv
    <2>2. PICK h : h \in HostPorts(docker[t].config) /\ h \in HostPorts(config)
      BY <1>5, <2>1
    <2>3. PICK q \in DOMAIN config.bindings : h = config.bindings[q]
      BY <2>2 DEF HostPorts, Range
    <2>4. <<Current, q>> \in PortsOf(job) /\ HostPort(<<Current, q>>) = h
      BY <1>1, <1>3, <2>3
    <2>5. CASE t \notin Names[job]
      BY <2>1, <2>2, <2>4, <2>5 DEF InTheWay
    <2>6. CASE t \in Names[job]
      <3>1. PICK p \in Planned[job] : NameOf(p) = t
        BY <1>1, <2>6 DEF Names
      <3>2. docker[t].config.bindings = ConfigOf(p.spec).bindings
        BY <1>1, <2>1, <3>1, ExitsAssumption DEF OwnPortsInv, OwnPorts
      <3>3. PICK r \in DOMAIN ConfigOf(p.spec).bindings : h = ConfigOf(p.spec).bindings[r]
        BY <2>2, <3>2 DEF HostPorts, Range
      <3>4. <<p, r>> \in PortsOf(job) /\ HostPort(<<p, r>>) = h
        BY <1>3, <3>3
      <3>5. <<p, r>> # <<Current, q>>
        BY <2>1, <3>1
      <3> QED
        BY <2>4, <3>4, <3>5 DEF InTheWay, PortsClash
    <2> QED
      BY <2>5, <2>6
  <1>6. CASE ~PortsFree(rest, config)
    BY <1>4, <1>5, <1>6 DEF PortsFree
  <1> QED
    BY <1>2, <1>6

\* Containers of other manifests stay in the way.
LEMMA StaysInTheWay ==
    ASSUME NEW m \in Manifest, InTheWay(m),
           \A t \in AllNames \ Names[m] : docker[t] # None =>
               docker'[t] # None /\ docker'[t].config = docker[t].config
    PROVE  InTheWay(m)'
  <1>1. CASE Refused(m) \/ PortsClash(m)
    BY <1>1 DEF InTheWay
  <1>2. CASE \E t \in AllNames \ Names[m], x \in PortsOf(m) :
                docker[t] # None /\ HostPort(x) \in HostPorts(docker[t].config)
    <2>1. PICK t \in AllNames \ Names[m], x \in PortsOf(m) :
                docker[t] # None /\ HostPort(x) \in HostPorts(docker[t].config)
      BY <1>2
    <2>2. docker'[t] # None /\ HostPort(x) \in HostPorts(docker'[t].config)
      BY <2>1
    <2> QED
      BY <2>2 DEF InTheWay
  <1> QED
    BY <1>1, <1>2 DEF InTheWay

\* One turn of the container loop.
LEMMA OwnPortsStep ==
    ASSUME LoopInv, DockerInv, OwnPortsInv, pc = "container", Proceed,
           UNCHANGED <<job, tried>>,
           NEW x, docker' = [docker EXCEPT ![NameOf(Current)] = x],
           x = None \/ x.config.bindings = ConfigOf(Head(todo)).bindings
    PROVE  OwnPortsInv'
  <1> DEFINE s == NameOf(Current)
  <1>1. /\ job \in Manifest /\ job # None /\ Current \in Planned[job] /\ s \in AllNames
        /\ Current.spec = Head(todo)
    BY CurrentFacts, ExitsAssumption DEF Current
  <1>2. \A p \in Planned[job] : Passed(p.at)' <=> Passed(p.at) \/ p = Current
    BY PassedStep
  <1>3. \A t \in AllNames : docker'[t] = IF t = s THEN x ELSE docker[t]
    BY <1>1 DEF DockerInv
  <1> SUFFICES ASSUME ~NamesClash(job), NEW p \in Planned[job], tried = job \/ Passed(p.at)'
               PROVE  OwnPorts(p)'
    BY <1>1 DEF OwnPortsInv
  <1>4. NameOf(p) \in AllNames
    BY <1>1, PlannedNames
  <1>5. CASE p = Current
    BY <1>1, <1>3, <1>5 DEF OwnPorts
  <1>6. CASE p # Current
    <2>1. NameOf(p) # s
      BY <1>1, <1>6 DEF NamesClash
    <2>2. OwnPorts(p)
      BY <1>1, <1>2, <1>6 DEF OwnPortsInv
    <2> HIDE DEF s
    <2> QED
      BY <1>3, <1>4, <2>1, <2>2 DEF OwnPorts
  <1> QED
    BY <1>5, <1>6

LEMMA RetryNext ==
    ASSUME LoopInv, DockerInv, HistoryInv, OwnPortsInv, ErrorInv, [Next]_vars
    PROVE  OwnPortsInv' /\ ErrorInv'
  <1>1. CASE UNCHANGED vars
    BY <1>1 DEF vars, OwnPortsInv, ErrorInv, OwnPorts, InTheWay, Passed, Pos, ToApply
  <1>2. ASSUME NEW m \in Manifest, Apply(m) PROVE OwnPortsInv' /\ ErrorInv'
    <2>1. /\ job = None /\ job' = m /\ m # None /\ errs' = FALSE
          /\ UNCHANGED <<docker, tried>>
      BY <1>2, ExitsAssumption DEF Apply, LoopInv
    <2>2. \A p \in Planned[m] : ~Passed(p.at)'
      BY <1>2, PassedAtStart
    <2>3. \A p : OwnPorts(p)' <=> OwnPorts(p)
      BY <2>1 DEF OwnPorts
    <2> QED
      BY <2>1, <2>2, <2>3 DEF OwnPortsInv, ErrorInv
  <1>3. ASSUME NEW m \in Manifest, Delete(m) PROVE OwnPortsInv' /\ ErrorInv'
    <2>1. job' = None /\ tried' = None
      BY <1>3 DEF Delete, LoopInv
    <2> QED
      BY <2>1 DEF OwnPortsInv, ErrorInv
  <1>4. CASE BeginNode
    <2>1. UNCHANGED <<docker, job, errs, tried>> /\ job \in Manifest /\ job # None
      BY <1>4, ExitsAssumption DEF BeginNode, LoopInv, history
    <2>2. \A p \in Planned[job] : Passed(p.at)' <=> Passed(p.at)
      BY <1>4, PassedAtNode
    <2>3. \A p : OwnPorts(p)' <=> OwnPorts(p)
      BY <2>1 DEF OwnPorts
    <2>4. InTheWay(job)' <=> InTheWay(job)
      BY <2>1 DEF InTheWay
    <2> QED
      BY <2>1, <2>2, <2>3, <2>4 DEF OwnPortsInv, ErrorInv
  <1>5. CASE Keep
    <2> DEFINE s == NameOf(Current)
    <2>1. /\ pc = "container" /\ Proceed /\ UNCHANGED <<docker, job, errs, tried>>
          /\ Kept(docker[DockerName(Content[job].nodes[k].name, Head(todo).name)], Head(todo))
      BY <1>5 DEF Keep, history
    <2>2. /\ job \in Manifest /\ Current \in Planned[job] /\ s \in AllNames
          /\ s = DockerName(Content[job].nodes[k].name, Head(todo).name)
          /\ Current.spec = Head(todo)
      BY <2>1, CurrentFacts DEF Current
    <2>3. docker[s] # None /\ SpecMatches(Current.spec, docker[s].config)
      BY <2>1, <2>2 DEF Kept
    <2>4. IsContainer(s, docker[s])
      BY <2>2, <2>3 DEF DockerInv
    <2>5. docker[s].config.bindings = ConfigOf(Head(todo)).bindings
      BY <2>2, <2>3, <2>4, MatchingContainer DEF Gives
    <2>6. docker' = [docker EXCEPT ![s] = docker[s]]
      <3> HIDE DEF s
      <3> QED
        BY <2>1, <2>2 DEF DockerInv
    <2>7. OwnPortsInv'
      BY <2>1, <2>5, <2>6, OwnPortsStep
    <2>8. InTheWay(job)' <=> InTheWay(job)
      BY <2>1 DEF InTheWay
    <2> QED
      BY <2>1, <2>7, <2>8 DEF ErrorInv
  <1>6. CASE Recreate
    <2> DEFINE s == NameOf(Current)
    <2>1. pc = "container" /\ Proceed /\ UNCHANGED <<job, tried>>
      BY <1>6 DEF Recreate
    <2>2. job \in Manifest /\ job # None /\ Current \in Planned[job] /\ s \in AllNames
      BY <2>1, CurrentFacts, ExitsAssumption
    <2>3. PICK x : /\ docker' = [docker EXCEPT ![s] = x]
                   /\ x # None => x.config = ConfigOf(Head(todo))
                   /\ errs' => \/ errs
                               \/ ~Creatable(ConfigOf(Head(todo)))
                               \/ ~PortsFree([docker EXCEPT ![s] = None], ConfigOf(Head(todo)))
      BY <1>6, RecreateFacts
    <2>4. OwnPortsInv'
      BY <2>1, <2>3, OwnPortsStep
    <2>5. ASSUME errs', tried = job, ~NamesClash(job) PROVE InTheWay(job)'
      <3>1. InTheWay(job)
        BY <2>1, <2>2, <2>3, <2>5, Refusal DEF ErrorInv
      <3>2. \A t \in AllNames \ Names[job] : docker'[t] = docker[t]
        <4>1. s \in Names[job]
          BY <2>2, PlannedNames
        <4> HIDE DEF s
        <4> QED
          BY <2>3, <4>1 DEF DockerInv
      <3>3. \A m \in Manifest : m = job => InTheWay(m)'
        BY <3>1, <3>2, StaysInTheWay
      <3> QED
        BY <2>1, <2>2, <3>3
    <2> QED
      BY <2>1, <2>4, <2>5 DEF ErrorInv
  <1>7. CASE Return
    <2>1. /\ pc = "end" /\ job' = None /\ tried' = job /\ UNCHANGED docker
          /\ job # None
      BY <1>7 DEF Return, LoopInv
    <2>2. \A p : OwnPorts(p)' <=> OwnPorts(p)
      BY <2>1 DEF OwnPorts
    <2>3. \A p : Passed(p.at)
      BY <2>1 DEF Passed
    <2> QED
      BY <2>1, <2>2, <2>3 DEF OwnPortsInv, ErrorInv
  <1>8. ASSUME NEW s \in AllNames, ContainerExit(s) \/ StartStopped(s)
        PROVE  OwnPortsInv' /\ ErrorInv'
    <2>1. UNCHANGED <<pc, job, k, todo, errs, tried>>
      BY <1>8 DEF ContainerExit, StartStopped, history
    <2>2. PICK y : /\ docker' = [docker EXCEPT ![s] = y]
                   /\ IsContainer(s, y) /\ y.config = docker[s].config
      BY <1>8, ExitOrStart
    <2>3. y # None /\ docker[s] # None
      BY <1>8, <2>2, IsContainerFacts DEF ContainerExit, StartStopped, Running
    <2>4. \A t \in AllNames : /\ docker'[t] = None <=> docker[t] = None
                              /\ docker[t] # None => docker'[t].config = docker[t].config
      BY <2>2, <2>3 DEF DockerInv
    <2>5. UNCHANGED Pos
      BY <2>1 DEF Pos, ToApply
    <2>6. \A p : Passed(p.at)' <=> Passed(p.at)
      BY <2>1, <2>5 DEF Passed
    <2>7. \A m \in Manifest : \A p \in Planned[m] : OwnPorts(p)' <=> OwnPorts(p)
      BY <2>4, PlannedNames DEF OwnPorts
    <2>8. \A m \in Manifest : InTheWay(m) => InTheWay(m)'
      BY <2>4, StaysInTheWay
    <2>9. job \in Manifest \cup {None} /\ tried \in Manifest \cup {None}
      BY DEF LoopInv, HistoryInv
    <2>10. OwnPortsInv'
      BY <2>1, <2>6, <2>7, <2>9 DEF OwnPortsInv
    <2>11. ErrorInv'
      BY <2>1, <2>8, <2>9 DEF ErrorInv
    <2> QED
      BY <2>10, <2>11
  <1> QED
    BY <1>1, <1>2, <1>3, <1>4, <1>5, <1>6, <1>7, <1>8 DEF Next

\* A failed Apply, repeated, fails again only for what the manifest itself asks, or
\* for a container of another manifest that has one of its ports: for all manifests
\* whose containers have Docker names of their own.
THEOREM RetriesSucceed == Spec => []RetrySucceeds
  <1> DEFINE Inv == RInv /\ OwnPortsInv /\ ErrorInv
  <1>1. Init => Inv
    <2>1. Init => RInv /\ job = None /\ tried = None
      BY InitRInv DEF Init
    <2> QED
      BY <2>1 DEF OwnPortsInv, ErrorInv
  <1>2. Inv /\ [Next]_vars => Inv'
    BY LoopNext, DockerNext, HistoryNext, RetryNext DEF RInv
  <1>3. Inv => RetrySucceeds
    BY DEF RInv, LoopInv, ErrorInv, RetrySucceeds
  <1> QED
    BY <1>1, <1>2, <1>3, PTL DEF Spec

-----------------------------------------------------------------------------
(* ApplyIsIdempotent. *)

\* No two running containers have one host port.
PortsInv ==
    /\ \A s \in Running(docker) : \A q, r \in DOMAIN docker[s].config.bindings :
          docker[s].config.bindings[q] = docker[s].config.bindings[r] => q = r
    /\ \A s, t \in Running(docker) : s # t =>
          HostPorts(docker[s].config) \cap HostPorts(docker[t].config) = {}

LEMMA PortsStep ==
    ASSUME DockerInv, PortsInv, NEW s \in AllNames, NEW x,
           docker' = [docker EXCEPT ![s] = x],
           x # None /\ x.running => PortsFree([docker EXCEPT ![s] = None], x.config)
    PROVE  PortsInv'
  <1> DEFINE rest == [docker EXCEPT ![s] = None]
  <1>1. /\ DOMAIN docker = AllNames /\ DOMAIN docker' = AllNames /\ DOMAIN rest = AllNames
        /\ \A t \in AllNames : /\ docker'[t] = IF t = s THEN x ELSE docker[t]
                               /\ rest[t] = IF t = s THEN None ELSE docker[t]
    BY DEF DockerInv
  <1> HIDE DEF rest
  <1>2. ASSUME NEW t \in Running(docker)', t # s
        PROVE  t \in Running(docker) /\ t \in Running(rest) /\ docker'[t] = docker[t] /\ rest[t] = docker[t]
    BY <1>1, <1>2 DEF Running
  <1>3. s \in Running(docker)' => docker'[s] = x /\ PortsFree(rest, x.config)
    BY <1>1 DEF Running, rest
  <1>4. ASSUME NEW t \in Running(docker)', NEW q \in DOMAIN docker'[t].config.bindings,
               NEW r \in DOMAIN docker'[t].config.bindings,
               docker'[t].config.bindings[q] = docker'[t].config.bindings[r]
        PROVE  q = r
    <2>1. CASE t = s
      BY <1>3, <1>4, <2>1 DEF PortsFree
    <2>2. CASE t # s
      BY <1>2, <1>4, <2>2 DEF PortsInv
    <2> QED
      BY <2>1, <2>2
  <1>5. ASSUME NEW t \in Running(docker)', t # s, s \in Running(docker)'
        PROVE  HostPorts(docker'[t].config) \cap HostPorts(docker'[s].config) = {}
    <2>1. t \in Running(rest) /\ docker'[t] = rest[t]
      BY <1>2, <1>5
    <2>2. docker'[s] = x /\ PortsFree(rest, x.config)
      BY <1>3, <1>5
    <2> QED
      BY <2>1, <2>2 DEF PortsFree
  <1>6. ASSUME NEW t \in Running(docker)', NEW u \in Running(docker)', t # u
        PROVE  HostPorts(docker'[t].config) \cap HostPorts(docker'[u].config) = {}
    <2>1. CASE t = s
      BY <1>5, <1>6, <2>1
    <2>2. CASE u = s
      BY <1>5, <1>6, <2>2
    <2>3. CASE t # s /\ u # s
      BY <1>2, <1>6, <2>3 DEF PortsInv
    <2> QED
      BY <2>1, <2>2, <2>3
  <1> QED
    BY <1>4, <1>6 DEF PortsInv

LEMMA PortsNext ==
    ASSUME LoopInv, DockerInv, PortsInv, [Next]_vars
    PROVE  PortsInv'
  <1>1. CASE UNCHANGED docker
    BY <1>1 DEF PortsInv, Running
  <1>2. ASSUME NEW m \in Manifest, Delete(m) PROVE PortsInv'
    <2>1. /\ docker' = [s \in AllNames |-> IF s \in Names[m] THEN None ELSE docker[s]]
          /\ DOMAIN docker = AllNames
      BY <1>2 DEF Delete, DockerInv
    <2>2. \A s \in Running(docker)' : s \in Running(docker) /\ docker'[s] = docker[s]
      BY <2>1 DEF Running
    <2> QED
      BY <2>2 DEF PortsInv
  <1>3. CASE Recreate
    <2>1. NameOf(Current) \in AllNames
      BY <1>3, CurrentFacts DEF Recreate
    <2> QED
      BY <1>3, <2>1, RecreateFacts, PortsStep
  <1>4. ASSUME NEW s \in AllNames, ContainerExit(s) \/ StartStopped(s) PROVE PortsInv'
    <2>1. PICK y : /\ docker' = [docker EXCEPT ![s] = y]
                   /\ y.running => ~docker[s].running /\ PortsFree(docker, y.config)
      BY <1>4, ExitOrStart
    <2> DEFINE rest == [docker EXCEPT ![s] = None]
    <2>2. \A t \in Running(rest) : t \in Running(docker) /\ rest[t] = docker[t]
      BY DEF Running, DockerInv
    <2>3. \A config : PortsFree(docker, config) => PortsFree(rest, config)
      <3> HIDE DEF rest
      <3> QED
        BY <2>2 DEF PortsFree
    <2> QED
      BY <2>1, <2>3, PortsStep
  <1> QED
    BY <1>1, <1>2, <1>3, <1>4 DEF Next, vars, Apply, BeginNode, Keep, Return

-----------------------------------------------------------------------------

\* The container of an entry matches its spec.
Matches(p) ==
    docker[NameOf(p)] # None /\ SpecMatches(p.spec, docker[NameOf(p)].config)
Up(p) == Matches(p) /\ docker[NameOf(p)].running

\* nginx-proxy of the nodes that Apply is past.
Proxies(m) == {p \in Planned[m] : p.spec.name = NginxProxy}
Replaced == {NameOf(p) : p \in {q \in Proxies(job) : Passed(q.at)}}

\* What Apply is past matches, after an Apply that succeeded all of it; a repeated
\* Apply finds what it is not past as it was left.
MatchInv ==
    job # None /\ ~errs /\ ~NamesClash(job) => \A p \in Planned[job] : Passed(p.at) => Matches(p)
SettledInv ==
    /\ job = None /\ settled # None /\ ~NamesClash(settled) => \A p \in Planned[settled] : Up(p)
    /\ job # None /\ settled = job /\ ~NamesClash(job) =>
          /\ ~errs
          /\ replaced = Replaced
          /\ \A p \in Planned[job] : ~Passed(p.at) => Up(p)

\* nginx-proxy is the injected one, and the only of its node.
LEMMA ProxyFacts ==
    ASSUME NEW m \in Manifest
    PROVE  /\ \A i \in DOMAIN Nodes(m) : \E p \in Proxies(m) :
                 NameOf(p) = DockerName(NodeOf(m, i).name, NginxProxy)
           /\ \A p \in Proxies(m) : \E i \in DOMAIN Nodes(m) :
                 NameOf(p) = DockerName(NodeOf(m, i).name, NginxProxy)
           /\ ~NamesClash(m) => \A p \in Proxies(m) : \E i \in DOMAIN Nodes(m) :
                 p.spec = NginxSpec(NodeOf(m, i), ServiceRoutes(Content[m], NodeOf(m, i).name))
  <1> DEFINE proxy(i) == NginxSpec(NodeOf(m, i), ServiceRoutes(Content[m], NodeOf(m, i).name))
             entry(i) == [node |-> NodeOf(m, i).name, spec |-> proxy(i),
                          at |-> <<i, Len(ToApply(m, i))>>]
  <1>1. \A i \in DOMAIN Nodes(m) : entry(i) \in Planned[m]
    <2> SUFFICES ASSUME NEW i \in DOMAIN Nodes(m) PROVE entry(i) \in Planned[m]
      OBVIOUS
    <2>1. /\ Len(ToApply(m, i)) \in DOMAIN ToApply(m, i)
          /\ ToApply(m, i)[Len(ToApply(m, i))] = proxy(i)
      BY ToApplyFacts
    <2> QED
      BY <2>1, PlannedFacts
  <1>2. \A i : proxy(i).name = NginxProxy
    BY DEF NginxSpec
  <1>3. \A i : /\ entry(i).spec = proxy(i)
               /\ NameOf(entry(i)) = DockerName(NodeOf(m, i).name, NginxProxy)
    BY <1>2 DEF NameOf
  <1>4. \A p \in Planned[m] : \E i \in DOMAIN Nodes(m) : p.node = NodeOf(m, i).name
    <2> SUFFICES ASSUME NEW p \in Planned[m]
                 PROVE  \E i \in DOMAIN Nodes(m) : p.node = NodeOf(m, i).name
      OBVIOUS
    <2>1. PICK i \in DOMAIN Nodes(m) : \E j \in DOMAIN ToApply(m, i) :
             p = [node |-> NodeOf(m, i).name, spec |-> ToApply(m, i)[j], at |-> <<i, j>>]
      BY PlannedFacts
    <2>2. p.node = NodeOf(m, i).name
      BY <2>1
    <2> QED
      BY <2>2
  <1> HIDE DEF proxy, entry
  <1>5. \A i \in DOMAIN Nodes(m) : entry(i) \in Proxies(m)
    BY <1>1, <1>2, <1>3 DEF Proxies
  <1>6. \A p \in Proxies(m) : \E i \in DOMAIN Nodes(m) :
           NameOf(p) = DockerName(NodeOf(m, i).name, NginxProxy)
    BY <1>4 DEF Proxies, NameOf
  <1>7. ASSUME ~NamesClash(m), NEW p \in Proxies(m)
        PROVE  \E i \in DOMAIN Nodes(m) : p.spec = proxy(i)
    <2>1. PICK i \in DOMAIN Nodes(m) : NameOf(p) = DockerName(NodeOf(m, i).name, NginxProxy)
      BY <1>6
    <2>2. p = entry(i)
      BY <1>1, <1>3, <1>7, <2>1 DEF NamesClash, Proxies
    <2> QED
      BY <1>3, <2>2
  <1> QED
    BY <1>3, <1>5, <1>6, <1>7 DEF proxy

\* A new nginx-proxy takes the place of one that ran with the same spec.
LEMMA ProxyAccepted ==
    ASSUME LoopInv, DockerInv, PortsInv, pc = "container", ~NamesClash(job),
           Up(Current), Current \in Proxies(job)
    PROVE  /\ Creatable(ConfigOf(Head(todo)))
           /\ PortsFree([docker EXCEPT ![NameOf(Current)] = None], ConfigOf(Head(todo)))
  <1> DEFINE s == NameOf(Current)
             config == docker[s].config
             fresh == ConfigOf(Current.spec)
             rest == [docker EXCEPT ![s] = None]
  <1>1. /\ job \in Manifest /\ Current \in Planned[job] /\ s \in AllNames
        /\ Current.spec = Head(todo)
    BY CurrentFacts DEF Current
  <1>2. docker[s] # None /\ SpecMatches(Current.spec, config) /\ docker[s].running
    BY DEF Up, Matches
  <1>3. IsContainer(s, docker[s])
    BY <1>1, <1>2 DEF DockerInv
  <1>4. Gives(Current.spec, config, fresh)
    BY <1>1, <1>2, <1>3, MatchingContainer
  <1>5. Creatable(config)
    BY <1>3, IsContainerFacts
  <1>6. \A i, j \in DOMAIN fresh.binds : i = j
    <2>1. PICK i \in DOMAIN Nodes(job) :
             Current.spec = NginxSpec(NodeOf(job, i), ServiceRoutes(Content[job], NodeOf(job, i).name))
      BY <1>1, ProxyFacts
    <2>2. Current.spec.volumes = Mount(NodeOf(job, i).name, "/etc/nginx/klite")
      BY <2>1 DEF NginxSpec
    <2>3. fresh.binds = BuildVolumeMounts(Current.spec.volumes)
      BY DEF ConfigOf, Created
    <2>4. \A path, on : DOMAIN Mount(path, on) = {1}
      BY DEF Mount
    <2> QED
      BY <2>2, <2>3, <2>4 DEF BuildVolumeMounts
  <1>7. config.bindings = fresh.bindings /\ config.image.ref = fresh.image.ref
    BY <1>4 DEF Gives
  <1> HIDE DEF fresh
  <1>8. Creatable(fresh)
    BY <1>5, <1>6, <1>7 DEF Creatable
  <1>9. s \in Running(docker) /\ \A t \in Running(rest) :
            t \in Running(docker) /\ t # s /\ rest[t] = docker[t]
    <2> HIDE DEF s
    <2> QED
      BY <1>1, <1>2 DEF Running, DockerInv
  <1>10. PortsFree(rest, fresh)
    <2> HIDE DEF s, rest
    <2>1. \A q, r \in DOMAIN fresh.bindings : fresh.bindings[q] = fresh.bindings[r] => q = r
      BY <1>7, <1>9 DEF PortsInv
    <2>2. HostPorts(fresh) = HostPorts(config)
      BY <1>7 DEF HostPorts
    <2>3. \A t \in Running(rest) : HostPorts(rest[t].config) \cap HostPorts(fresh) = {}
      BY <1>9, <2>2 DEF PortsInv
    <2> QED
      BY <2>1, <2>3 DEF PortsFree
  <1> QED
    BY <1>1, <1>8, <1>10 DEF fresh

\* One turn of the container loop.
LEMMA MatchStep ==
    ASSUME LoopInv, DockerInv, MatchInv, SettledInv, pc = "container", Proceed,
           UNCHANGED <<job, settled>>,
           NEW x, docker' = [docker EXCEPT ![NameOf(Current)] = x],
           ~errs' => ~errs /\ x # None /\ SpecMatches(Head(todo), x.config),
           settled = job /\ ~NamesClash(job) => ~errs',
           settled = job /\ ~NamesClash(job) =>
               replaced' = replaced \cup {t \in {NameOf(Current)} : Current \in Proxies(job)}
    PROVE  MatchInv' /\ SettledInv'
  <1> DEFINE s == NameOf(Current)
  <1>1. /\ job \in Manifest /\ job # None /\ Current \in Planned[job] /\ s \in AllNames
        /\ Current.spec = Head(todo)
    BY CurrentFacts, ExitsAssumption DEF Current
  <1>2. \A p \in Planned[job] : Passed(p.at)' <=> Passed(p.at) \/ p = Current
    BY PassedStep
  <1>3. \A t \in AllNames : docker'[t] = IF t = s THEN x ELSE docker[t]
    BY <1>1 DEF DockerInv
  <1>4. ASSUME ~NamesClash(job), NEW p \in Planned[job], p # Current
        PROVE  (Matches(p)' <=> Matches(p)) /\ (Up(p)' <=> Up(p))
    <2>1. NameOf(p) # s /\ NameOf(p) \in AllNames
      BY <1>1, <1>4, PlannedNames DEF NamesClash
    <2> HIDE DEF s
    <2>2. docker'[NameOf(p)] = docker[NameOf(p)]
      BY <1>3, <2>1
    <2> QED
      BY <2>2 DEF Matches, Up
  <1>5. ~errs' => docker'[s] # None /\ SpecMatches(Current.spec, docker'[s].config)
    BY <1>1, <1>3
  <1>6. MatchInv'
    <2> SUFFICES ASSUME ~errs', ~NamesClash(job), NEW p \in Planned[job], Passed(p.at)'
                 PROVE  Matches(p)'
      BY DEF MatchInv
    <2>1. CASE p = Current
      BY <1>5, <2>1 DEF Matches
    <2>2. CASE p # Current
      BY <1>1, <1>2, <1>4, <2>2 DEF MatchInv
    <2> QED
      BY <2>1, <2>2
  <1>7. ASSUME settled = job, ~NamesClash(job)
        PROVE  /\ replaced' = Replaced'
               /\ \A p \in Planned[job] : ~Passed(p.at)' => Up(p)'
    <2>1. \A p \in Planned[job] : ~Passed(p.at)' => Up(p)'
      BY <1>1, <1>2, <1>4, <1>7 DEF SettledInv
    <2>2. replaced = Replaced
      BY <1>1, <1>7 DEF SettledInv
    <2>3. Replaced' = {NameOf(p) : p \in {q \in Proxies(job) : Passed(q.at)'}}
      BY DEF Replaced
    <2>4. {q \in Proxies(job) : Passed(q.at)'}
             = {q \in Proxies(job) : Passed(q.at)} \cup {q \in {Current} : Current \in Proxies(job)}
      BY <1>2 DEF Proxies
    <2>5. Replaced' = Replaced \cup {t \in {s} : Current \in Proxies(job)}
      BY <2>3, <2>4 DEF Replaced
    <2> QED
      BY <1>7, <2>1, <2>2, <2>5
  <1> QED
    BY <1>1, <1>6, <1>7 DEF SettledInv

LEMMA SettledNext ==
    ASSUME LoopInv, DockerInv, HistoryInv, PortsInv, MatchInv, SettledInv, [Next]_vars
    PROVE  MatchInv' /\ SettledInv'
  <1>1. CASE UNCHANGED vars
    BY <1>1 DEF vars, MatchInv, SettledInv, Matches, Up, Passed, Pos, ToApply, Replaced
  <1>2. ASSUME NEW m \in Manifest, Apply(m) PROVE MatchInv' /\ SettledInv'
    <2>1. /\ job = None /\ job' = m /\ m # None /\ errs' = FALSE /\ replaced' = {}
          /\ UNCHANGED <<docker, settled>>
      BY <1>2, ExitsAssumption DEF Apply, LoopInv
    <2>2. \A p \in Planned[m] : ~Passed(p.at)'
      BY <1>2, PassedAtStart
    <2>3. \A p : Up(p)' <=> Up(p)
      BY <2>1 DEF Up, Matches
    <2>4. Replaced' = {}
      BY <2>1, <2>2 DEF Replaced, Proxies
    <2> QED
      BY <2>1, <2>2, <2>3, <2>4 DEF MatchInv, SettledInv
  <1>3. ASSUME NEW m \in Manifest, Delete(m) PROVE MatchInv' /\ SettledInv'
    <2>1. job' = None /\ settled' = None
      BY <1>3 DEF Delete, LoopInv
    <2> QED
      BY <2>1 DEF MatchInv, SettledInv
  <1>4. CASE BeginNode
    <2>1. UNCHANGED <<docker, job, errs, settled, replaced>> /\ job \in Manifest /\ job # None
      BY <1>4, ExitsAssumption DEF BeginNode, LoopInv, history
    <2>2. \A p \in Planned[job] : Passed(p.at)' <=> Passed(p.at)
      BY <1>4, PassedAtNode
    <2>3. \A p : (Matches(p)' <=> Matches(p)) /\ (Up(p)' <=> Up(p))
      BY <2>1 DEF Up, Matches
    <2>4. Replaced' = Replaced
      BY <2>1, <2>2 DEF Replaced, Proxies
    <2> QED
      BY <2>1, <2>2, <2>3, <2>4 DEF MatchInv, SettledInv
  <1>5. CASE Keep
    <2> DEFINE s == NameOf(Current)
    <2>1. /\ pc = "container" /\ Proceed /\ UNCHANGED <<docker, job, errs, settled, replaced>>
          /\ Kept(docker[DockerName(Content[job].nodes[k].name, Head(todo).name)], Head(todo))
      BY <1>5 DEF Keep, history
    <2>2. /\ job \in Manifest /\ job # None /\ Current \in Planned[job] /\ s \in AllNames
          /\ s = DockerName(Content[job].nodes[k].name, Head(todo).name)
          /\ Current.spec = Head(todo)
      BY <2>1, CurrentFacts, ExitsAssumption DEF Current
    <2>3. docker[s] # None /\ SpecMatches(Head(todo), docker[s].config)
      BY <2>1, <2>2 DEF Kept
    <2>4. Current \notin Proxies(job)
      BY <2>1, <2>2 DEF Kept, Proxies
    <2>5. docker' = [docker EXCEPT ![s] = docker[s]]
      <3> HIDE DEF s
      <3> QED
        BY <2>1, <2>2 DEF DockerInv
    <2>6. settled = job /\ ~NamesClash(job) => ~errs'
      BY <2>1, <2>2 DEF SettledInv
    <2>7. replaced' = replaced \cup {t \in {s} : Current \in Proxies(job)}
      BY <2>1, <2>4
    <2> QED
      BY <2>1, <2>3, <2>5, <2>6, <2>7, MatchStep
  <1>6. CASE Recreate
    <2> DEFINE s == NameOf(Current)
               rest == [docker EXCEPT ![s] = None]
    <2>1. /\ pc = "container" /\ Proceed /\ UNCHANGED <<job, settled>>
          /\ ~Kept(docker[DockerName(Content[job].nodes[k].name, Head(todo).name)], Head(todo))
          /\ replaced' = replaced \cup {DockerName(Content[job].nodes[k].name, Head(todo).name)}
      BY <1>6 DEF Recreate
    <2>2. /\ job \in Manifest /\ job # None /\ Current \in Planned[job] /\ s \in AllNames
          /\ s = DockerName(Content[job].nodes[k].name, Head(todo).name)
          /\ Current.spec = Head(todo)
      BY <2>1, CurrentFacts, ExitsAssumption DEF Current
    <2>3. PICK x : /\ docker' = [docker EXCEPT ![s] = x]
                   /\ x = None \/ (IsContainer(s, x) /\ HasFiles(x.node))
                   /\ x # None => x.config = ConfigOf(Head(todo))
                   /\ ~errs' => ~errs /\ x # None
                   /\ errs' => \/ errs
                               \/ ~Creatable(ConfigOf(Head(todo)))
                               \/ ~PortsFree(rest, ConfigOf(Head(todo)))
      BY <1>6, RecreateFacts
    <2>4. x # None => SpecMatches(Head(todo), x.config)
      <3> SUFFICES ASSUME x # None PROVE SpecMatches(Head(todo), x.config)
        OBVIOUS
      <3>1. Creatable(ConfigOf(Head(todo)))
        BY <2>3, IsContainerFacts
      <3>2. /\ Head(todo).volumes \in Seq(Range(Head(todo).volumes))
            /\ Len(Head(todo).command) \in Nat
        BY <2>2, SpecLists
      <3> QED
        BY <2>3, <3>1, <3>2, CreatedMatches DEF ConfigOf
    <2>5. ASSUME settled = job, ~NamesClash(job)
          PROVE  /\ ~errs'
                 /\ replaced' = replaced \cup {t \in {s} : Current \in Proxies(job)}
      <3>1. ~Passed(Current.at)
        <4>1. Current.at[1] = k /\ Current.at[2] = Pos
          BY DEF Current
        <4>2. k \in Nat /\ Pos \in Nat
          BY <2>1, <2>2, CurrentFacts, NodesAreLists, ToApplyFacts
        <4> QED
          BY <2>1, <4>1, <4>2 DEF Passed
      <3>2. Up(Current) /\ ~errs
        BY <2>2, <2>5, <3>1 DEF SettledInv
      <3>3. Current \in Proxies(job)
        BY <2>1, <2>2, <3>2 DEF Kept, Up, Matches, Proxies
      <3>4. Creatable(ConfigOf(Head(todo))) /\ PortsFree(rest, ConfigOf(Head(todo)))
        BY <2>1, <2>5, <3>2, <3>3, ProxyAccepted
      <3>5. ~errs'
        BY <2>3, <3>2, <3>4
      <3> QED
        BY <2>1, <2>2, <3>3, <3>5
    <2> QED
      BY <2>1, <2>3, <2>4, <2>5, MatchStep
  <1>7. CASE Return
    <2>1. /\ pc = "end" /\ job' = None /\ UNCHANGED docker /\ job # None /\ job \in Manifest
          /\ settled' = IF ~errs /\ Names[job] \subseteq Running(docker) THEN job ELSE None
      BY <1>7 DEF Return, LoopInv
    <2>2. \A p : Up(p)' <=> Up(p)
      BY <2>1 DEF Up, Matches
    <2>3. ASSUME settled' # None, ~NamesClash(job), NEW p \in Planned[job] PROVE Up(p)
      <3>1. ~errs /\ settled' = job /\ NameOf(p) \in Running(docker)
        BY <2>1, <2>3, PlannedNames
      <3>2. Matches(p)
        BY <2>1, <2>3, <3>1 DEF MatchInv, Passed
      <3> QED
        BY <3>1, <3>2 DEF Up, Running
    <2>4. settled' # None => settled' = job
      BY <2>1
    <2> QED
      BY <2>1, <2>2, <2>3, <2>4 DEF MatchInv, SettledInv
  <1>8. ASSUME NEW s \in AllNames, ContainerExit(s) \/ StartStopped(s)
        PROVE  MatchInv' /\ SettledInv'
    <2>1. /\ UNCHANGED <<pc, job, k, todo, errs, replaced>>
          /\ settled' = None \/ (settled' = settled /\ StartStopped(s))
      BY <1>8 DEF ContainerExit, StartStopped, history
    <2>2. PICK y : /\ docker' = [docker EXCEPT ![s] = y]
                   /\ IsContainer(s, y) /\ y.config = docker[s].config
      BY <1>8, ExitOrStart
    <2>3. y # None /\ docker[s] # None
      BY <1>8, <2>2, IsContainerFacts DEF ContainerExit, StartStopped, Running
    <2>4. \A t \in AllNames : docker'[t] = IF t = s THEN y ELSE docker[t]
      BY <2>2 DEF DockerInv
    <2>5. UNCHANGED Pos
      BY <2>1 DEF Pos, ToApply
    <2>6. \A p : Passed(p.at)' <=> Passed(p.at)
      BY <2>1, <2>5 DEF Passed
    <2>7. Replaced' = Replaced
      BY <2>1, <2>6 DEF Replaced
    <2>8. \A m \in Manifest : \A p \in Planned[m] : Matches(p)' <=> Matches(p)
      BY <2>2, <2>3, <2>4, PlannedNames DEF Matches
    <2>9. StartStopped(s) => \A m \in Manifest : \A p \in Planned[m] : Up(p) => Up(p)'
      <3> SUFFICES ASSUME StartStopped(s), NEW m \in Manifest, NEW p \in Planned[m], Up(p)
                   PROVE  Up(p)'
        OBVIOUS
      <3>1. ~docker[s].running
        BY DEF StartStopped
      <3>2. NameOf(p) # s /\ NameOf(p) \in AllNames
        BY <3>1, PlannedNames DEF Up
      <3> QED
        BY <2>4, <2>8, <3>2 DEF Up
    <2>10. job \in Manifest \cup {None} /\ settled \in Manifest \cup {None}
      BY DEF LoopInv, HistoryInv
    <2>11. MatchInv'
      BY <2>1, <2>6, <2>8, <2>10 DEF MatchInv
    <2>12. SettledInv'
      BY <2>1, <2>6, <2>7, <2>9, <2>10 DEF SettledInv
    <2> QED
      BY <2>11, <2>12
  <1> QED
    BY <1>1, <1>2, <1>3, <1>4, <1>5, <1>6, <1>7, <1>8 DEF Next

\* An Apply repeated with all its containers up succeeds, and replaces each node's
\* nginx-proxy and nothing else: for all manifests whose containers have Docker
\* names of their own.
THEOREM ApplyAgain == Spec => []ApplyIsIdempotent
  <1> DEFINE Inv == RInv /\ PortsInv /\ MatchInv /\ SettledInv
  <1>1. Init => Inv
    <2>1. Init => RInv /\ job = None /\ settled = None /\ docker = [s \in AllNames |-> None]
      BY InitRInv DEF Init
    <2> QED
      BY <2>1 DEF PortsInv, Running, MatchInv, SettledInv
  <1>2. Inv /\ [Next]_vars => Inv'
    BY LoopNext, DockerNext, HistoryNext, PortsNext, SettledNext DEF RInv
  <1>3. Inv => ApplyIsIdempotent
    <2> SUFFICES ASSUME Inv, pc = "end", settled = job, ~NamesClash(job)
                 PROVE  ~errs /\ replaced = {DockerName(Content[job].nodes[i].name, NginxProxy) :
                                                 i \in DOMAIN Content[job].nodes}
      BY DEF ApplyIsIdempotent
    <2>1. job # None /\ job \in Manifest
      BY DEF RInv, LoopInv
    <2>2. ~errs /\ replaced = {NameOf(p) : p \in {q \in Proxies(job) : Passed(q.at)}}
      BY <2>1 DEF SettledInv, Replaced
    <2>3. {q \in Proxies(job) : Passed(q.at)} = Proxies(job)
      BY DEF Passed
    <2>4. {NameOf(p) : p \in Proxies(job)}
             = {DockerName(NodeOf(job, i).name, NginxProxy) : i \in DOMAIN Nodes(job)}
      BY <2>1, ProxyFacts
    <2> QED
      BY <2>2, <2>3, <2>4 DEF Nodes, NodeOf
  <1> QED
    BY <1>1, <1>2, <1>3, PTL DEF Spec
=============================================================================
