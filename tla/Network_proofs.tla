--------------------------- MODULE Network_proofs ---------------------------
(***************************************************************************)
(* Proofs about Network, for any set of processes, nodes and network IDs.  *)
(***************************************************************************)
EXTENDS Network, TLAPS

\* Between its calls a process knows which node it works on, and NetworkRemove
\* is only reached for a cached network.
CallOK ==
    \A p \in Proc :
        /\ pc[p] # "idle" => node[p] \in Node
        /\ pc[p] = "remove" => nodeNetworks[p][node[p]] # None

\* The inductive invariant.
IInv == TypeOK /\ CallOK /\ CachedSubnetIsRight /\ StaleOnlyByOthers /\ NoSelfCollision

\* A fresh network ID is an ID.
LEMMA FreshId ==
    ASSUME NEW n \in Node, \E id \in NetId : Fresh(n, id)
    PROVE  NewId(n) \in NetId /\ Fresh(n, NewId(n))
  BY DEF NewId

\* One entry of a table indexed by processes and nodes changes.
LEMMA Update ==
    ASSUME NEW V, NEW f \in [Proc -> [Node -> V]], NEW g,
           NEW p \in Proc, NEW n \in Node, NEW v \in V,
           g = [f EXCEPT ![p][n] = v]
    PROVE  /\ g \in [Proc -> [Node -> V]]
           /\ \A q \in Proc, m \in Node :
                 g[q][m] = IF q = p /\ m = n THEN v ELSE f[q][m]
  OBVIOUS

\* The effect of Remember on every entry.
LEMMA Remembered ==
    ASSUME TypeOK, NEW p \in Proc, node[p] \in Node, NEW id \in NetId,
           NEW subnet \in 1..MaxOctet, Remember(p, id, subnet)
    PROVE  /\ nodeNetworks' \in [Proc -> [Node -> NetId \cup {None}]]
           /\ nodeSubnets' \in [Proc -> [Node -> 0..MaxOctet]]
           /\ \A q \in Proc, m \in Node :
                 /\ nodeNetworks'[q][m] = IF q = p /\ m = node[p] THEN id
                                          ELSE nodeNetworks[q][m]
                 /\ nodeSubnets'[q][m] = IF q = p /\ m = node[p] THEN subnet
                                         ELSE nodeSubnets[q][m]
  <1>1. subnet \in 0..MaxOctet
    BY OctetAssumption
  <1>2. nodeNetworks' = [nodeNetworks EXCEPT ![p][node[p]] = id]
    BY DEF Remember
  <1>3. nodeSubnets' = [nodeSubnets EXCEPT ![p][node[p]] = subnet]
    BY DEF Remember
  <1>4. nodeNetworks \in [Proc -> [Node -> NetId \cup {None}]]
    BY DEF TypeOK
  <1>5. nodeSubnets \in [Proc -> [Node -> 0..MaxOctet]]
    BY DEF TypeOK
  <1>6. id \in NetId \cup {None}
    OBVIOUS
  <1>7. /\ nodeNetworks' \in [Proc -> [Node -> NetId \cup {None}]]
        /\ \A q \in Proc, m \in Node :
              nodeNetworks'[q][m] = IF q = p /\ m = node[p] THEN id
                                    ELSE nodeNetworks[q][m]
    BY <1>2, <1>4, <1>6, Update, Zenon
  <1>8. /\ nodeSubnets' \in [Proc -> [Node -> 0..MaxOctet]]
        /\ \A q \in Proc, m \in Node :
              nodeSubnets'[q][m] = IF q = p /\ m = node[p] THEN subnet
                                   ELSE nodeSubnets[q][m]
    BY <1>1, <1>3, <1>5, Update, Zenon
  <1> QED
    BY <1>7, <1>8

\* The inductive invariant holds at the start.
LEMMA InitOK == Init => IInv
  BY OctetAssumption, NetworkNoneAssumption
     DEF Init, IInv, TypeOK, CallOK, CachedSubnetIsRight, StaleOnlyByOthers,
         NoSelfCollision, Live, Exists

\* Every step preserves it.
LEMMA NextOK == IInv /\ [Next]_vars => IInv'
  <1> SUFFICES ASSUME IInv, [Next]_vars PROVE IInv'
    OBVIOUS
  <1> USE OctetAssumption, NetworkNoneAssumption, NetworkAssumption
  <1>1. CASE UNCHANGED vars
    BY <1>1 DEF IInv, TypeOK, CallOK, CachedSubnetIsRight, StaleOnlyByOthers,
                NoSelfCollision, Live, Exists, vars, cache
  <1>2. ASSUME NEW p \in Proc, NEW n \in Node, EnsureNetworkForNode(p, n) PROVE IInv'
    BY <1>2 DEF IInv, TypeOK, CallOK, CachedSubnetIsRight, StaleOnlyByOthers,
                NoSelfCollision, Live, Exists, EnsureNetworkForNode, Goto, cache
  <1>3. ASSUME NEW p \in Proc, NEW n \in Node, RemoveNetworkForNode(p, n) PROVE IInv'
    BY <1>3 DEF IInv, TypeOK, CallOK, CachedSubnetIsRight, StaleOnlyByOthers,
                NoSelfCollision, Live, Exists, RemoveNetworkForNode, Goto, cache
  <1>4. ASSUME NEW p \in Proc, ListNetworks(p) PROVE IInv'
    <2>1. node[p] \in Node /\ UNCHANGED <<nets, remover, subnetIndex>>
      BY <1>4 DEF IInv, TypeOK, CallOK, ListNetworks, cache
    <2>2. CASE UNCHANGED cache
      <3>1. /\ \A q \in Proc : node'[q] = node[q] \/ (q = p /\ pc'[q] = "idle")
            /\ \A q \in Proc : pc'[q] = pc[q] \/ (q = p /\ pc'[q] # "remove")
            /\ pc' \in [Proc -> {"idle", "list", "create", "remove"}]
            /\ node' \in [Proc -> Node \cup {None}]
        BY <1>4, <2>1 DEF IInv, TypeOK, ListNetworks, Return, Goto, cache
      <3>2. TypeOK'
        BY <2>1, <2>2, <3>1 DEF IInv, TypeOK, cache
      <3>3. CallOK'
        BY <2>1, <2>2, <3>1 DEF IInv, CallOK, cache
      <3>4. CachedSubnetIsRight' /\ StaleOnlyByOthers' /\ NoSelfCollision'
        BY <2>1, <2>2 DEF IInv, CachedSubnetIsRight, StaleOnlyByOthers,
                          NoSelfCollision, Live, Exists, cache
      <3> QED
        BY <3>2, <3>3, <3>4 DEF IInv
    <2>3. CASE /\ node[p] \in Live
               /\ Remember(p, nets[node[p]].id, nets[node[p]].subnet)
               /\ Return(p)
      <3> DEFINE id == nets[node[p]].id
                 subnet == nets[node[p]].subnet
      <3>1. id \in NetId /\ subnet \in 1..MaxOctet
        BY <2>1, <2>3 DEF IInv, TypeOK, Live, Network
      <3>2. Exists(node[p], id)
        BY <2>3 DEF Exists
      <3> HIDE DEF id
      <3>3. /\ nodeNetworks' \in [Proc -> [Node -> NetId \cup {None}]]
            /\ nodeSubnets' \in [Proc -> [Node -> 0..MaxOctet]]
            /\ \A q \in Proc, m \in Node :
                  /\ nodeNetworks'[q][m] = IF q = p /\ m = node[p] THEN id
                                           ELSE nodeNetworks[q][m]
                  /\ nodeSubnets'[q][m] = IF q = p /\ m = node[p] THEN subnet
                                          ELSE nodeSubnets[q][m]
        BY <2>1, <2>3, <3>1, Remembered DEF IInv, id
      <3>4. TypeOK'
        BY <2>1, <2>3, <3>3 DEF IInv, TypeOK, Return, Goto
      <3>5. CallOK'
        BY <2>1, <2>3, <3>3 DEF IInv, TypeOK, CallOK, Return, Goto
      <3>6. CachedSubnetIsRight'
        BY <2>1, <3>1, <3>3 DEF IInv, CachedSubnetIsRight, Exists, Live
      <3>7. StaleOnlyByOthers'
        BY <2>1, <3>2, <3>3 DEF IInv, StaleOnlyByOthers, Exists, Live
      <3>8. NoSelfCollision'
        BY <2>1 DEF IInv, NoSelfCollision, Live
      <3> QED
        BY <3>4, <3>5, <3>6, <3>7, <3>8 DEF IInv
    <2> QED
      BY <1>4, <2>2, <2>3 DEF ListNetworks, cache
  <1>5. ASSUME NEW p \in Proc, CreateNetworkForNode(p) PROVE IInv'
    <2>1. node[p] \in Node
      BY <1>5 DEF IInv, TypeOK, CallOK, CreateNetworkForNode
    <2> DEFINE new == NewId(node[p])
               made == [id |-> new, subnet |-> subnetIndex[p], by |-> p]
    <2>2. new \in NetId /\ Fresh(node[p], new)
      BY <1>5, <2>1, FreshId DEF CreateNetworkForNode
    <2>3. /\ subnetIndex[p] \in Nat /\ subnetIndex'[p] \in Nat
          /\ subnetIndex[p] <= subnetIndex'[p]
          /\ subnetIndex[p] <= MaxOctet => subnetIndex[p] < subnetIndex'[p]
          /\ \A q \in Proc \ {p} : subnetIndex'[q] = subnetIndex[q]
          /\ subnetIndex' \in [Proc -> 1..(MaxOctet + 1)]
      BY <1>5 DEF IInv, TypeOK, CreateNetworkForNode, NextIndex
    <2>4. \/ nets' = nets
          \/ /\ Creatable(node[p], subnetIndex[p])
             /\ nets' = [nets EXCEPT ![node[p]] = made]
      BY <1>5 DEF CreateNetworkForNode
    <2>5. \/ UNCHANGED <<nodeNetworks, nodeSubnets>>
          \/ /\ Creatable(node[p], subnetIndex[p])
             /\ nets' = [nets EXCEPT ![node[p]] = made]
             /\ Remember(p, new, subnetIndex[p])
      BY <1>5 DEF CreateNetworkForNode
    <2>6. Return(p) /\ UNCHANGED remover
      BY <1>5 DEF CreateNetworkForNode
    <2>7. Creatable(node[p], subnetIndex[p]) => made \in Network /\ made # None
      BY <2>2, <2>3 DEF Creatable, Network
    <2> HIDE DEF new, made
    <2>8. \/ UNCHANGED <<nodeNetworks, nodeSubnets>>
          \/ /\ Creatable(node[p], subnetIndex[p])
             /\ nets' = [nets EXCEPT ![node[p]] = made]
             /\ nodeNetworks' \in [Proc -> [Node -> NetId \cup {None}]]
             /\ nodeSubnets' \in [Proc -> [Node -> 0..MaxOctet]]
             /\ \A q \in Proc, m \in Node :
                   /\ nodeNetworks'[q][m] = IF q = p /\ m = node[p] THEN new
                                            ELSE nodeNetworks[q][m]
                   /\ nodeSubnets'[q][m] = IF q = p /\ m = node[p]
                                           THEN subnetIndex[p]
                                           ELSE nodeSubnets[q][m]
      <3> SUFFICES ASSUME Remember(p, new, subnetIndex[p]),
                          Creatable(node[p], subnetIndex[p])
                   PROVE  /\ nodeNetworks' \in [Proc -> [Node -> NetId \cup {None}]]
                          /\ nodeSubnets' \in [Proc -> [Node -> 0..MaxOctet]]
                          /\ \A q \in Proc, m \in Node :
                                /\ nodeNetworks'[q][m] =
                                      IF q = p /\ m = node[p] THEN new
                                      ELSE nodeNetworks[q][m]
                                /\ nodeSubnets'[q][m] =
                                      IF q = p /\ m = node[p] THEN subnetIndex[p]
                                      ELSE nodeSubnets[q][m]
        BY <2>5
      <3>1. subnetIndex[p] \in 1..MaxOctet
        BY DEF Creatable
      <3> QED
        BY <2>1, <2>2, <3>1, Remembered DEF IInv
    <2>9. /\ \A m \in Node : \/ nets'[m] = nets[m]
                             \/ /\ m = node[p] /\ nets'[m] = made
                                /\ Creatable(node[p], subnetIndex[p])
          /\ nets' \in [Node -> Network \cup {None}]
      BY <2>1, <2>4, <2>7 DEF IInv, TypeOK
    <2>10. made.id = new /\ made.subnet = subnetIndex[p] /\ made.by = p
      BY DEF made
    <2>11. Creatable(node[p], subnetIndex[p]) =>
              nets[node[p]] = None /\ subnetIndex[p] \in 1..MaxOctet
      BY <2>1 DEF Creatable, Live
    <2>12. TypeOK'
      BY <2>3, <2>6, <2>8, <2>9 DEF IInv, TypeOK, Return, Goto
    <2>13. CallOK'
      <3>1. \A q \in Proc \ {p}, m \in Node : nodeNetworks'[q][m] = nodeNetworks[q][m]
        BY <2>8
      <3>2. \A q \in Proc \ {p} : pc'[q] = pc[q] /\ node'[q] = node[q]
        BY <2>6 DEF Return, Goto, IInv, TypeOK
      <3>3. pc'[p] = "idle"
        BY <2>6 DEF Return, Goto, IInv, TypeOK
      <3> QED
        BY <3>1, <3>2, <3>3 DEF IInv, CallOK
    <2>14. CachedSubnetIsRight'
      <3> SUFFICES ASSUME NEW q \in Proc, NEW m \in Node, nodeNetworks'[q][m] # None
                   PROVE  /\ nodeSubnets'[q][m] # 0
                          /\ Exists(m, nodeNetworks[q][m])' =>
                                nets'[m].subnet = nodeSubnets'[q][m]
        BY DEF CachedSubnetIsRight
      <3>1. CASE q = p /\ m = node[p] /\ nodeNetworks'[q][m] = new
                 /\ nodeSubnets'[q][m] = subnetIndex[p] /\ nets'[m] = made
                 /\ Creatable(node[p], subnetIndex[p])
        BY <3>1, <2>10, <2>11
      <3>2. CASE /\ nodeNetworks'[q][m] = nodeNetworks[q][m]
                 /\ nodeSubnets'[q][m] = nodeSubnets[q][m]
        <4>1. CASE nets'[m] = nets[m]
          BY <3>2, <4>1 DEF IInv, CachedSubnetIsRight, Exists, Live
        <4>2. CASE nets'[m] = made /\ m = node[p]
          <5>1. nodeNetworks[q][m] # new
            BY <2>2, <4>2 DEF Fresh
          <5>2. ~Exists(m, nodeNetworks[q][m])'
            BY <3>2, <4>2, <5>1, <2>10 DEF Exists
          <5> QED
            BY <3>2, <5>2 DEF IInv, CachedSubnetIsRight
        <4> QED
          BY <4>1, <4>2, <2>9
      <3> QED
        BY <3>1, <3>2, <2>1, <2>8, <2>9, <2>4, <2>7 DEF IInv, TypeOK
    <2>15. StaleOnlyByOthers'
      <3> SUFFICES ASSUME NEW q \in Proc, NEW m \in Node, nodeNetworks'[q][m] # None,
                          ~Exists(m, nodeNetworks[q][m])'
                   PROVE  remover[m] # q
        BY <2>6 DEF StaleOnlyByOthers
      <3>1. CASE /\ m = node[p] /\ nets'[m] = made
                 /\ Creatable(node[p], subnetIndex[p])
        <4>1. nodeNetworks'[q][m] # new
          BY <3>1, <2>7, <2>10 DEF Exists, Live
        <4>2. nodeNetworks'[q][m] = nodeNetworks[q][m]
          BY <4>1, <2>8
        <4>3. ~Exists(m, nodeNetworks[q][m])
          BY <3>1, <2>11 DEF Exists, Live
        <4> QED
          BY <4>2, <4>3 DEF IInv, StaleOnlyByOthers
      <3>2. CASE nets'[m] = nets[m] /\ nodeNetworks'[q][m] = nodeNetworks[q][m]
        BY <3>2 DEF IInv, StaleOnlyByOthers, Exists, Live
      <3> QED
        BY <3>1, <3>2, <2>4, <2>8, <2>9
    <2>16. NoSelfCollision'
      <3> SUFFICES ASSUME NEW m \in Node, nets'[m] # None, NEW q \in Proc,
                          nets'[m].by = q
                   PROVE  nets'[m].subnet < subnetIndex'[q]
        BY DEF NoSelfCollision, Live
      <3>1. subnetIndex'[q] \in Nat /\ subnetIndex[q] \in Nat
            /\ subnetIndex[q] <= subnetIndex'[q]
        BY <2>3 DEF IInv, TypeOK
      <3>2. CASE nets'[m] = nets[m]
        <4>1. nets[m].subnet \in Nat /\ nets[m].subnet < subnetIndex[q]
          BY <3>2 DEF IInv, TypeOK, NoSelfCollision, Live, Network
        <4> QED
          BY <3>1, <3>2, <4>1
      <3>3. CASE nets'[m] = made /\ Creatable(node[p], subnetIndex[p])
        BY <3>1, <3>3, <2>3, <2>10, <2>11
      <3> QED
        BY <3>2, <3>3, <2>9
    <2> QED
      BY <2>12, <2>13, <2>14, <2>15, <2>16 DEF IInv
  <1>6. ASSUME NEW p \in Proc, NetworkRemove(p) PROVE IInv'
    <2>1. /\ node[p] \in Node
          /\ Return(p)
          /\ UNCHANGED <<nodeSubnets, subnetIndex>>
      BY <1>6 DEF IInv, TypeOK, CallOK, NetworkRemove
    <2>2. PICK r \in Reply :
             \/ /\ Exists(node[p], nodeNetworks[p][node[p]])
                /\ nets' = [nets EXCEPT ![node[p]] = None]
                /\ remover' = [remover EXCEPT ![node[p]] = IF r = "ok" THEN p ELSE None]
                /\ IF r = "ok"
                   THEN nodeNetworks' = [nodeNetworks EXCEPT ![p][node[p]] = None]
                   ELSE UNCHANGED nodeNetworks
             \/ UNCHANGED <<nets, nodeNetworks, remover>>
      BY <1>6, Zenon DEF NetworkRemove
    <2>3. CASE UNCHANGED <<nets, nodeNetworks, remover>>
      BY <2>1, <2>3 DEF IInv, TypeOK, CallOK, CachedSubnetIsRight, StaleOnlyByOthers,
                        NoSelfCollision, Live, Exists, Return, Goto
    <2>4. CASE /\ Exists(node[p], nodeNetworks[p][node[p]])
               /\ nets' = [nets EXCEPT ![node[p]] = None]
               /\ remover' = [remover EXCEPT ![node[p]] = IF r = "ok" THEN p ELSE None]
               /\ IF r = "ok"
                  THEN nodeNetworks' = [nodeNetworks EXCEPT ![p][node[p]] = None]
                  ELSE UNCHANGED nodeNetworks
      <3>1. /\ nodeNetworks \in [Proc -> [Node -> NetId \cup {None}]]
            /\ None \in NetId \cup {None}
        BY DEF IInv, TypeOK
      <3>2. /\ nodeNetworks' \in [Proc -> [Node -> NetId \cup {None}]]
            /\ \A q \in Proc, m \in Node :
                  nodeNetworks'[q][m] = IF r = "ok" /\ q = p /\ m = node[p] THEN None
                                        ELSE nodeNetworks[q][m]
        <4>1. CASE r = "ok"
          <5>1. nodeNetworks' = [nodeNetworks EXCEPT ![p][node[p]] = None]
            BY <2>4, <4>1
          <5>2. /\ nodeNetworks' \in [Proc -> [Node -> NetId \cup {None}]]
                /\ \A q \in Proc, m \in Node :
                      nodeNetworks'[q][m] = IF q = p /\ m = node[p] THEN None
                                            ELSE nodeNetworks[q][m]
            BY <2>1, <3>1, <5>1, Update
          <5> QED
            BY <4>1, <5>2
        <4>2. CASE r # "ok"
          BY <2>4, <3>1, <4>2
        <4> QED
          BY <4>1, <4>2
      <3>3. /\ \A m \in Node : nets'[m] = IF m = node[p] THEN None ELSE nets[m]
            /\ nets' \in [Node -> Network \cup {None}]
            /\ \A m \in Node : remover'[m] = IF m # node[p] THEN remover[m]
                                             ELSE IF r = "ok" THEN p ELSE None
            /\ remover' \in [Node -> Proc \cup {None}]
        BY <2>1, <2>4 DEF IInv, TypeOK
      <3>4. TypeOK'
        BY <2>1, <3>2, <3>3 DEF IInv, TypeOK, Return, Goto
      <3>5. CallOK'
        <4>1. \A q \in Proc \ {p} : pc'[q] = pc[q] /\ node'[q] = node[q]
          BY <2>1 DEF Return, Goto, IInv, TypeOK
        <4>2. pc'[p] = "idle"
          BY <2>1 DEF Return, Goto, IInv, TypeOK
        <4> QED
          BY <3>2, <4>1, <4>2 DEF IInv, CallOK
      <3>6. CachedSubnetIsRight'
        BY <2>1, <3>2, <3>3 DEF IInv, CachedSubnetIsRight, Live, Exists
      <3>7. StaleOnlyByOthers'
        BY <3>2, <3>3 DEF IInv, TypeOK, StaleOnlyByOthers, Live, Exists
      <3>8. NoSelfCollision'
        BY <2>1, <3>3 DEF IInv, NoSelfCollision, Live
      <3> QED
        BY <3>4, <3>5, <3>6, <3>7, <3>8 DEF IInv
    <2> QED
      BY <2>2, <2>3, <2>4
  <1>7. ASSUME NEW p \in Proc, Restart(p) PROVE IInv'
    <2>1. /\ \A n \in Node : nets'[n] = None <=> nets[n] = None
          /\ \A n \in Live : /\ nets'[n].id = nets[n].id
                             /\ nets'[n].subnet = nets[n].subnet
                             /\ nets'[n].by = IF nets[n].by = p THEN None ELSE nets[n].by
                             /\ nets'[n] \in Network
      BY <1>7 DEF IInv, TypeOK, Restart, Live, Network
    <2>2. TypeOK'
      BY <1>7, <2>1 DEF IInv, TypeOK, Restart, Return, Goto, Live
    <2>3. CallOK'
      BY <1>7 DEF IInv, TypeOK, CallOK, Restart, Return, Goto
    <2>4. CachedSubnetIsRight'
      BY <1>7, <2>1 DEF IInv, TypeOK, CachedSubnetIsRight, Restart, Live, Exists
    <2>5. StaleOnlyByOthers'
      BY <1>7, <2>1 DEF IInv, TypeOK, StaleOnlyByOthers, Restart, Live, Exists
    <2>6. NoSelfCollision'
      BY <1>7, <2>1 DEF IInv, TypeOK, NoSelfCollision, Restart, Live
    <2> QED
      BY <2>2, <2>3, <2>4, <2>5, <2>6 DEF IInv
  <1> QED
    BY <1>1, <1>2, <1>3, <1>4, <1>5, <1>6, <1>7 DEF Next

\* Type correctness of every process's manager and of Docker's networks.
THEOREM NetworkTypeCorrect == Spec => []TypeOK
  <1>1. IInv => TypeOK
    BY DEF IInv
  <1> QED
    BY InitOK, NextOK, <1>1, PTL DEF Spec

\* GetNodeSubnet tells the truth about every cached network that exists.
THEOREM SubnetsRight == Spec => []CachedSubnetIsRight
  <1>1. IInv => CachedSubnetIsRight
    BY DEF IInv
  <1> QED
    BY InitOK, NextOK, <1>1, PTL DEF Spec

\* A stale cache entry is another process's doing, or follows a lost reply.
THEOREM StaleByOthers == Spec => []StaleOnlyByOthers
  <1>1. IInv => StaleOnlyByOthers
    BY DEF IInv
  <1> QED
    BY InitOK, NextOK, <1>1, PTL DEF Spec

\* A process does not collide with networks of its own making.
THEOREM NoOwnCollision == Spec => []NoSelfCollision
  <1>1. IInv => NoSelfCollision
    BY DEF IInv
  <1> QED
    BY InitOK, NextOK, <1>1, PTL DEF Spec
=============================================================================
