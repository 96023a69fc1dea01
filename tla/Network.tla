------------------------------ MODULE Network -------------------------------
(***************************************************************************)
(* network.Manager: one manager in every KLite process (a daemon, "klite   *)
(* serve", each CLI invocation), all working on the networks of one Docker *)
(* daemon.  A process uses its manager from one goroutine at a time        *)
(* (Engine.mu); the processes interleave between their Docker calls.       *)
(* Subnet i stands for 172.28.i.0/24.                                      *)
(***************************************************************************)
EXTENDS Naturals

CONSTANTS
    Node,       \* node names
    Proc,       \* process slots: a process that exits is replaced by a fresh one
    NetId,      \* Docker network IDs, per node
    None,       \* no entry, no such network
    MaxOctet    \* the last i Docker accepts in 172.28.i.0/24 (255)

ASSUME NetworkNoneAssumption == None \notin Node /\ None \notin Proc /\ None \notin NetId
ASSUME OctetAssumption == MaxOctet \in Nat

VARIABLES
    nets,          \* Docker: node -> its network, klite-<node>-network, or None
    nodeNetworks,  \* process -> node -> network ID, or None
    nodeSubnets,   \* process -> node -> subnet, or 0
    subnetIndex,   \* process -> counter of generateSubnet
    pc,            \* process -> where it is in a call of its manager
    node,          \* process -> nodeName argument
    remover        \* history: who last removed the node's network, or None when
                   \* nobody was told

cache == <<nodeNetworks, nodeSubnets, subnetIndex>>
vars == <<nets, cache, pc, node, remover>>

\* "by" is history: the process that created the network, None once it exited.
Network == [id : NetId, subnet : 1..MaxOctet, by : Proc \cup {None}]

ASSUME NetworkAssumption == None \notin Network

TypeOK ==
    /\ nets \in [Node -> Network \cup {None}]
    /\ nodeNetworks \in [Proc -> [Node -> NetId \cup {None}]]
    /\ nodeSubnets \in [Proc -> [Node -> 0..MaxOctet]]
    /\ subnetIndex \in [Proc -> 1..(MaxOctet + 1)]
    /\ pc \in [Proc -> {"idle", "list", "create", "remove"}]
    /\ node \in [Proc -> Node \cup {None}]
    /\ remover \in [Node -> Proc \cup {None}]

Init ==
    /\ nets = [n \in Node |-> None]
    /\ nodeNetworks = [p \in Proc |-> [n \in Node |-> None]]
    /\ nodeSubnets = [p \in Proc |-> [n \in Node |-> 0]]
    /\ subnetIndex = [p \in Proc |-> 1]
    /\ pc = [p \in Proc |-> "idle"]
    /\ node = [p \in Proc |-> None]
    /\ remover = [n \in Node |-> None]

-----------------------------------------------------------------------------
(* Docker. *)

Reply == {"ok", "fail", "lost"}

Live == {n \in Node : nets[n] # None}
Exists(n, id) == n \in Live /\ nets[n].id = id

\* Docker's ID is the pair of the node and a member of NetId: the code compares
\* IDs of one node only.  One nothing refers to may stand for a new one.
Fresh(n, id) == ~Exists(n, id) /\ \A p \in Proc : nodeNetworks[p][n] # id
NewId(n) == CHOOSE id \in NetId : Fresh(n, id)

\* Docker refuses a name in use, an overlapping pool and an invalid prefix.
Creatable(n, s) ==
    /\ n \notin Live
    /\ \A m \in Live : nets[m].subnet # s
    /\ s \in 1..MaxOctet

-----------------------------------------------------------------------------

Goto(p, where) == pc' = [pc EXCEPT ![p] = where]
Return(p) == Goto(p, "idle") /\ node' = [node EXCEPT ![p] = None]

\* Mutant of Remember: the subnet is not recorded.
RememberIdOnly(p, id, subnet) ==
    /\ nodeNetworks' = [nodeNetworks EXCEPT ![p][node[p]] = id]
    /\ UNCHANGED nodeSubnets

Remember(p, id, subnet) ==
    /\ nodeNetworks' = [nodeNetworks EXCEPT ![p][node[p]] = id]
    /\ nodeSubnets' = [nodeSubnets EXCEPT ![p][node[p]] = subnet]

\* EnsureNetworkForNode of a node that is not cached; a cached ID is returned
\* at once, without asking Docker.
EnsureNetworkForNode(p, n) ==
    /\ pc[p] = "idle"
    /\ nodeNetworks[p][n] = None
    /\ Goto(p, "list")
    /\ node' = [node EXCEPT ![p] = n]
    /\ UNCHANGED <<nets, cache, remover>>

\* NetworkList, and the search for the node's name.
ListNetworks(p) ==
    /\ pc[p] = "list"
    /\ \/ /\ Return(p)
          /\ UNCHANGED cache
       \/ /\ node[p] \in Live
          /\ Remember(p, nets[node[p]].id, nets[node[p]].subnet)
          /\ Return(p)
          /\ UNCHANGED subnetIndex
       \/ /\ node[p] \notin Live
          /\ Goto(p, "create")
          /\ UNCHANGED <<cache, node>>
    /\ UNCHANGED <<nets, remover>>

\* Mutant of NextIndex: the counter stands still.
SameIndex(i) == i

\* nextSubnetIndex++.  The counter stops one past MaxOctet here: every later
\* subnet is as invalid as that one.
NextIndex(i) == IF i > MaxOctet THEN i ELSE i + 1

\* generateSubnet moves the counter on even when the creation fails.
CreateNetworkForNode(p) ==
    /\ pc[p] = "create"
    /\ \E id \in NetId : Fresh(node[p], id)
    /\ \E r \in Reply :
          LET subnet == subnetIndex[p]
              able == Creatable(node[p], subnet)
          IN  /\ subnetIndex' = [subnetIndex EXCEPT ![p] = NextIndex(subnet)]
              /\ nets' = IF r # "fail" /\ able
                         THEN [nets EXCEPT ![node[p]] =
                                 [id |-> NewId(node[p]), subnet |-> subnet, by |-> p]]
                         ELSE nets
              /\ IF r = "ok" /\ able
                 THEN Remember(p, NewId(node[p]), subnet) /\ Return(p)
                 ELSE Return(p) /\ UNCHANGED <<nodeNetworks, nodeSubnets>>
    /\ UNCHANGED remover

\* RemoveNetworkForNode of a cached node; otherwise it returns nil at once.
RemoveNetworkForNode(p, n) ==
    /\ pc[p] = "idle"
    /\ nodeNetworks[p][n] # None
    /\ Goto(p, "remove")
    /\ node' = [node EXCEPT ![p] = n]
    /\ UNCHANGED <<nets, cache, remover>>

\* Mutant of NetworkRemove: the cache entry stays.
NetworkRemoveKeeps(p) ==
    /\ pc[p] = "remove"
    /\ \E r \in Reply :
          LET able == r # "fail" /\ Exists(node[p], nodeNetworks[p][node[p]])
          IN  /\ nets' = IF able THEN [nets EXCEPT ![node[p]] = None] ELSE nets
              /\ remover' = IF able THEN [remover EXCEPT ![node[p]] =
                                              IF r = "ok" THEN p ELSE None]
                                    ELSE remover
    /\ Return(p)
    /\ UNCHANGED <<nodeNetworks, nodeSubnets, subnetIndex>>

\* NetworkRemove by ID; the subnet entry stays.
NetworkRemove(p) ==
    /\ pc[p] = "remove"
    /\ \E r \in Reply :
          LET found == Exists(node[p], nodeNetworks[p][node[p]])
          IN  \/ /\ r # "fail" /\ found
                 /\ nets' = [nets EXCEPT ![node[p]] = None]
                 /\ remover' = [remover EXCEPT ![node[p]] = IF r = "ok" THEN p ELSE None]
                 /\ IF r = "ok"
                    THEN /\ nodeNetworks' = [nodeNetworks EXCEPT ![p][node[p]] = None]
                         /\ Return(p)
                    ELSE Return(p) /\ UNCHANGED nodeNetworks
              \/ /\ r = "fail" \/ ~found
                 /\ Return(p)
                 /\ UNCHANGED <<nets, nodeNetworks, remover>>
    /\ UNCHANGED <<nodeSubnets, subnetIndex>>

\* Mutant of Restart: the counter of a new manager starts at 0.
RestartAtZero(p) ==
    /\ nets' = [n \in Node |-> IF n \in Live /\ nets[n].by = p
                               THEN [nets[n] EXCEPT !.by = None] ELSE nets[n]]
    /\ nodeNetworks' = [nodeNetworks EXCEPT ![p] = [n \in Node |-> None]]
    /\ nodeSubnets' = [nodeSubnets EXCEPT ![p] = [n \in Node |-> 0]]
    /\ subnetIndex' = [subnetIndex EXCEPT ![p] = 0]
    /\ Return(p)
    /\ UNCHANGED remover

\* The process ends, anywhere, and another one starts: NewManager.
Restart(p) ==
    /\ nets' = [n \in Node |-> IF n \in Live /\ nets[n].by = p
                               THEN [nets[n] EXCEPT !.by = None] ELSE nets[n]]
    /\ nodeNetworks' = [nodeNetworks EXCEPT ![p] = [n \in Node |-> None]]
    /\ nodeSubnets' = [nodeSubnets EXCEPT ![p] = [n \in Node |-> 0]]
    /\ subnetIndex' = [subnetIndex EXCEPT ![p] = 1]
    /\ Return(p)
    /\ UNCHANGED remover

Next ==
    \E p \in Proc :
        \/ \E n \in Node : EnsureNetworkForNode(p, n) \/ RemoveNetworkForNode(p, n)
        \/ ListNetworks(p) \/ CreateNetworkForNode(p) \/ NetworkRemove(p)
        \/ Restart(p)

Spec == Init /\ [][Next]_vars

-----------------------------------------------------------------------------
(* Properties. *)

\* The engine derives the static addresses of dnsmasq and nginx-proxy from
\* GetNodeSubnet.  A cached network has a known subnet, and while the network
\* exists it has that subnet, whichever process created it and whatever was
\* removed and created in between.
CachedSubnetIsRight ==
    \A p \in Proc, n \in Node :
        nodeNetworks[p][n] # None =>
            /\ nodeSubnets[p][n] # 0
            /\ Exists(n, nodeNetworks[p][n]) => nets[n].subnet = nodeSubnets[p][n]

\* A cache entry for a network that is gone is never of the process's own
\* making, unless the reply to its removal was lost: EnsureNetworkForNode then
\* returns a network that does not exist.
StaleOnlyByOthers ==
    \A p \in Proc, n \in Node :
        nodeNetworks[p][n] # None /\ ~Exists(n, nodeNetworks[p][n]) => remover[n] # p

\* A process never generates a subnet again that a network of its own has.
NoSelfCollision ==
    \A n \in Live, p \in Proc : nets[n].by = p => nets[n].subnet < subnetIndex[p]

\* network/manager.go:143 "generateSubnet generates a unique subnet for each
\* node": the subnet about to be used is no other node's.  The code breaks it:
\* the counter starts at 1 in every process, the networks outlive the processes.
UniqueSubnet ==
    \A p \in Proc : pc[p] = "create" =>
        \A n \in Live \ {node[p]} : nets[n].subnet # subnetIndex[p]
=============================================================================
