---------------------------- MODULE Engine_proofs ----------------------------
(***************************************************************************)
(* Proofs about Engine, for any manifests, nodes, containers and workers.  *)
(***************************************************************************)
EXTENDS Engine, TLAPS

SlotPC == ApplySlotPC \cup {"dremove"}
NodePC == ApplyNodePC \cup DeleteNodePC \cup {"dnet", "dnetrec"}

\* What a worker's control state says about its variables.  ApplySlotPC is where
\* the slot in hand is a first one, in ApplyRank's order, of those left.
Control(w) ==
    /\ pc[w] # "idle" => job[w] \in Manifest
    /\ pc[w] \in HoldsMu => mu = w /\ todo[w] \subseteq Wanted(job[w])
    /\ pc[w] \in NodePC => node[w] \in Node
    /\ pc[w] \in SlotPC => slot[w] \in OnNode(todo[w], node[w])
    /\ pc[w] \in ApplySlotPC =>
          \A t \in OnNode(todo[w], node[w]) : ApplyRank(slot[w]) <= ApplyRank(t)
    /\ pc[w] \in ApplySlotPC \ {"create"} => cid[w] \in Id
    /\ pc[w] \in {"services", "commit", "dcommit"} => todo[w] = {}
    /\ pc[w] \in {"drecords", "dnet", "dnetrec"} => OnNode(todo[w], node[w]) = {}
    /\ pc[w] \in {"commit", "dcommit"} => ~errs[w]

ControlInv == \A w \in Worker : Control(w)

\* Running containers have their network.
RunningInv == \A s \in Slot : docker[s] # None /\ docker[s].running => s[1] \in net

\* The container Apply will save is what its manifest asks for.
Built(w) ==
    /\ Exists(slot[w], cid[w])
    /\ <<SpecFor(job[w], slot[w]), docker[slot[w]].spec>> \in Matches
    /\ slot[w][2] = NginxProxy /\ docker[slot[w]].running => docker[slot[w]].loaded = job[w]

\* Apply's progress: the slots it is through with are deployed.
Applied(w) ==
    /\ pc[w] \in ApplyPC /\ ~errs[w] =>
          \A s \in Wanted(job[w]) \ todo[w] : Deployed(job[w], s)
    /\ pc[w] \in ApplyNodePC \ {"netrec"} /\ ~errs[w] => node[w] \in netRec
    /\ pc[w] \in {"inspect"} \cup ApplySlotPC => conf[node[w]] = job[w]
    /\ pc[w] = "compare" => slot[w][2] # NginxProxy
    /\ pc[w] \in {"compare", "state", "save"} => node[w] \in net
    /\ pc[w] \in {"start", "state", "save"} => Built(w)
    /\ pc[w] = "commit" => ServicesOf[job[w]] \subseteq svcRec

\* Delete's progress: the slots it is through with are gone, and so are the
\* records of the nodes it is through with.
Deleted(w) ==
    pc[w] \in DeletePC /\ ~errs[w] =>
        /\ \A s \in Wanted(job[w]) \ todo[w] : docker[s] = None
        /\ \A s \in Wanted(job[w]) : OnNode(todo[w], s[1]) = {} =>
              /\ \/ pc[w] \in DeleteNodePC /\ node[w] = s[1]
                 \/ rec[s] = None
              /\ \/ pc[w] \in DeleteNodePC \cup {"dnet", "dnetrec"} /\ node[w] = s[1]
                 \/ s[1] \notin netRec
        /\ pc[w] \in {"dnet", "dnetrec", "dcommit"} => ServicesOf[job[w]] \cap svcRec = {}

ProgressInv == \A w \in Worker : Applied(w) /\ Deleted(w)

\* The inductive invariant.
IInv == TypeOK /\ ControlInv /\ RunningInv /\ ProgressInv

-----------------------------------------------------------------------------
(* Lemmas about the operators of Engine. *)

\* None is none of the values it stands beside.
LEMMA NoneFacts ==
    /\ None \notin Worker /\ None \notin Id /\ None \notin Manifest
    /\ None \notin Container /\ None \notin ContainerSpec /\ None \notin Node
    /\ None \notin Slot
  BY NoneAssumption

\* What a manifest wants of a container is a spec, and matches itself.
LEMMA SpecForOK ==
    ASSUME NEW m \in Manifest, NEW s \in Wanted(m)
    PROVE  SpecFor(m, s) \in AnySpec /\ <<SpecFor(m, s), SpecFor(m, s)>> \in Matches
  <1>1. s[1] \in Node /\ s[2] \in Name /\ s = <<s[1], s[2]>>
    BY DEF Wanted, Slot
  <1>2. CASE s[2] \in App
    <2>1. AppSpec[m][s] # None /\ s \in Node \X App
      BY <1>1, <1>2 DEF Wanted
    <2>2. AppSpec[m] \in [Node \X App -> ContainerSpec \cup {None}]
      BY ManifestAssumption
    <2>3. AppSpec[m][s] \in ContainerSpec
      BY <2>1, <2>2
    <2> QED
      BY <1>2, <2>3, NamesAssumption, MatchesAssumption DEF SpecFor, AnySpec
  <1>3. CASE s[2] \notin App
    BY <1>1, <1>3, MatchesAssumption DEF SpecFor, AnySpec, Name
  <1> QED
    BY <1>2, <1>3

\* A fresh ID is an ID.
LEMMA FreshId ==
    ASSUME NEW s, \E id \in Id : Fresh(s, id)
    PROVE  NewId(s) \in Id /\ Fresh(s, NewId(s))
  BY DEF NewId

\* Starting a container changes nothing but "running" and "loaded".
LEMMA StartedOK ==
    ASSUME TypeOK, NEW s \in Slot, docker[s] # None
    PROVE  /\ Started(s) \in [Slot -> Container \cup {None}]
           /\ \A t \in Slot \ {s} : Started(s)[t] = docker[t]
           /\ Started(s)[s] # None
           /\ Started(s)[s].id = docker[s].id
           /\ Started(s)[s].spec = docker[s].spec
           /\ Started(s)[s].running
           /\ s[2] = NginxProxy => Started(s)[s].loaded = conf[s[1]]
  <1>1. docker[s] \in Container /\ docker \in [Slot -> Container \cup {None}]
    BY DEF TypeOK
  <1>2. s[1] \in Node /\ conf[s[1]] \in Manifest \cup {None}
    BY DEF TypeOK, Slot
  <1> DEFINE c == [docker[s] EXCEPT !.running = TRUE,
                                    !.loaded = IF s[2] \in App THEN None ELSE conf[s[1]]]
  <1>3. Started(s) = [docker EXCEPT ![s] = c]
    BY <1>1 DEF Started
  <1>4. /\ c \in Container /\ c.id = docker[s].id /\ c.spec = docker[s].spec
        /\ c.running /\ (s[2] = NginxProxy => c.loaded = conf[s[1]])
    BY <1>1, <1>2, NamesAssumption DEF Container
  <1>5. c # None
    BY <1>4, NoneFacts
  <1> HIDE DEF c
  <1> QED
    BY <1>1, <1>3, <1>4, <1>5

\* Stopping a container changes nothing but "running".
LEMMA StoppedOK ==
    ASSUME TypeOK, NEW s \in Slot, docker[s] # None
    PROVE  /\ Stopped(s) \in [Slot -> Container \cup {None}]
           /\ \A t \in Slot \ {s} : Stopped(s)[t] = docker[t]
           /\ Stopped(s)[s] # None
           /\ Stopped(s)[s].id = docker[s].id
           /\ Stopped(s)[s].spec = docker[s].spec
           /\ ~Stopped(s)[s].running
  <1>1. docker[s] \in Container /\ docker \in [Slot -> Container \cup {None}]
    BY DEF TypeOK
  <1> DEFINE c == [docker[s] EXCEPT !.running = FALSE]
  <1>2. Stopped(s) = [docker EXCEPT ![s] = c]
    BY DEF Stopped
  <1>3. /\ c \in Container /\ c.id = docker[s].id /\ c.spec = docker[s].spec
        /\ ~c.running
    BY <1>1 DEF Container
  <1>4. c # None
    BY <1>3, NoneFacts
  <1> HIDE DEF c
  <1> QED
    BY <1>1, <1>2, <1>3, <1>4

-----------------------------------------------------------------------------
(* Types and control. *)

\* A step of the worker that holds, takes or leaves Engine.mu leaves the others
\* outside of it.
LEMMA ControlFrame ==
    ASSUME TypeOK, ControlInv, NEW w \in Worker, mu \in {w, None}, Control(w)',
           \A v \in Worker \ {w} : pc'[v] = pc[v] /\ job'[v] = job[v]
    PROVE  ControlInv'
  <1> SUFFICES ASSUME NEW v \in Worker, v # w PROVE Control(v)'
    BY DEF ControlInv
  <1>1. pc'[v] = pc[v] /\ job'[v] = job[v]
    OBVIOUS
  <1>2. pc[v] \notin HoldsMu
    BY NoneFacts DEF ControlInv, Control
  <1>3. pc[v] # "idle" => job[v] \in Manifest
    BY DEF ControlInv, Control
  <1>4. /\ pc[v] \notin NodePC /\ pc[v] \notin SlotPC /\ pc[v] \notin ApplySlotPC
        /\ pc[v] \notin {"services", "commit", "dcommit", "drecords", "dnet", "dnetrec"}
    BY <1>2 DEF NodePC, SlotPC, HoldsMu, ApplyPC, DeletePC, ApplyNodePC, DeleteNodePC,
                ApplySlotPC
  <1> QED
    BY <1>1, <1>2, <1>3, <1>4 DEF Control

\* The control state of an idle worker is none of the others.
LEMMA IdlePC ==
    /\ "idle" \in PC
    /\ "idle" \notin HoldsMu \cup NodePC \cup SlotPC \cup ApplySlotPC
    /\ "idle" \notin {"services", "commit", "dcommit", "drecords", "dnet", "dnetrec"}
  BY DEF NodePC, SlotPC, HoldsMu, ApplyPC, DeletePC, ApplyNodePC, DeleteNodePC,
         ApplySlotPC, PC

\* Types and control hold at the start.
LEMMA InitControl == Init => TypeOK /\ ControlInv
  <1> SUFFICES ASSUME Init PROVE TypeOK /\ ControlInv
    OBVIOUS
  <1>1. TypeOK
    BY IdlePC DEF Init, TypeOK
  <1>2. ControlInv
    BY IdlePC DEF Init, ControlInv, Control
  <1> QED
    BY <1>1, <1>2

\* Calls cost at most one fault.
LEMMA FaultsOK ==
    ASSUME TypeOK, NEW r, Charge(r) \/ DockerCall(r) \/ RedisCall(r)
    PROVE  faults' \in Nat
  BY DEF TypeOK, Charge, DockerCall, RedisCall

\* What the requests do.
LEMMA RequestControl ==
    ASSUME TypeOK, ControlInv, NEW w \in Worker, Request(w)
    PROVE  TypeOK' /\ ControlInv'
  <1>1. ASSUME NEW m \in Manifest, CallApply(w, m) \/ CallDelete(w, m)
        PROVE  TypeOK' /\ ControlInv'
    <2>1. TypeOK'
      BY <1>1 DEF CallApply, CallDelete, TypeOK, Goto, PC, outside, redis, local, counters
    <2>2. ControlInv'
      BY <1>1 DEF CallApply, CallDelete, TypeOK, ControlInv, Control, Goto, local,
                  NodePC, SlotPC, HoldsMu, ApplyPC, DeletePC, ApplyNodePC, DeleteNodePC,
                  ApplySlotPC
    <2> QED
      BY <2>1, <2>2
  <1>2. ASSUME NEW m \in Manifest, NEW r \in Reply, SaveManifestFromFile(w, m, r)
        PROVE  TypeOK' /\ ControlInv'
    <2>1. TypeOK'
      BY <1>2, FaultsOK DEF SaveManifestFromFile, TypeOK, outside, local, counters
    <2>2. ControlInv'
      BY <1>2 DEF SaveManifestFromFile, ControlInv, Control, local
    <2> QED
      BY <2>1, <2>2
  <1>3. ASSUME Done(w) PROVE TypeOK' /\ ControlInv'
    <2>1. TypeOK'
      BY <1>3 DEF Done, TypeOK, Goto, PC, outside, redis, local, counters
    <2>2. ControlInv'
      BY <1>3 DEF Done, TypeOK, ControlInv, Control, Goto, local,
                  NodePC, SlotPC, HoldsMu, ApplyPC, DeletePC, ApplyNodePC, DeleteNodePC,
                  ApplySlotPC
    <2> QED
      BY <2>1, <2>2
  <1> QED
    BY <1>1, <1>2, <1>3 DEF Request

\* What the surroundings do.
LEMMA OutsideControl ==
    ASSUME TypeOK, ControlInv, Outside
    PROVE  TypeOK' /\ ControlInv'
  <1>1. ASSUME NEW s \in Slot, ContainerExit(s) \/ StartStopped(s)
        PROVE  TypeOK' /\ ControlInv'
    <2>1. docker' \in [Slot -> Container \cup {None}]
      BY <1>1, StartedOK, StoppedOK DEF ContainerExit, StartStopped
    <2>2. TypeOK'
      BY <1>1, <2>1 DEF ContainerExit, StartStopped, TypeOK, redis, local, counters
    <2>3. ControlInv'
      BY <1>1 DEF ContainerExit, StartStopped, ControlInv, Control, local
    <2> QED
      BY <2>2, <2>3
  <1>2. ASSUME Interrupt PROVE TypeOK' /\ ControlInv'
    BY <1>2 DEF Interrupt, TypeOK, ControlInv, Control, outside, redis, local
  <1>3. ASSUME Exit \/ Kill PROVE TypeOK' /\ ControlInv'
    <2>1. FreshProcess /\ crashes' \in Nat
      BY <1>3 DEF Exit, Kill, TypeOK
    <2>2. TypeOK'
      BY <2>1, IdlePC DEF FreshProcess, TypeOK, outside, redis
    <2>3. ControlInv'
      BY <2>1, IdlePC DEF FreshProcess, ControlInv, Control
    <2> QED
      BY <2>2, <2>3
  <1> QED
    BY <1>1, <1>2, <1>3 DEF Outside

\* What taking the lock does.
LEMMA LockControl ==
    ASSUME TypeOK, ControlInv, NEW w \in Worker, Lock(w)
    PROVE  TypeOK' /\ ControlInv'
  <1>1. job[w] \in Manifest
    BY DEF ControlInv, Control, Lock
  <1>2. TypeOK'
    BY DEF Lock, TypeOK, Goto, Wanted, PC, HoldsMu, ApplyPC, DeletePC, outside, redis,
           counters
  <1>3. Control(w)'
    BY <1>1 DEF Lock, TypeOK, Control, Goto, NodePC, SlotPC, HoldsMu, ApplyPC, DeletePC,
                ApplyNodePC, DeleteNodePC, ApplySlotPC
  <1>4. \A v \in Worker \ {w} : pc'[v] = pc[v] /\ job'[v] = job[v]
    BY DEF Lock, TypeOK, Goto
  <1>5. mu = None
    BY DEF Lock
  <1> QED
    BY <1>2, <1>3, <1>4, <1>5, ControlFrame

\* The end of a slot's turn.
LEMMA EndSlotControl ==
    ASSUME TypeOK, ControlInv, NEW w \in Worker, pc[w] \in ApplyNodePC, NEW s,
           NEW failed \in BOOLEAN, EndSlot(w, s, failed)
    PROVE  /\ todo' \in [Worker -> SUBSET Slot]
           /\ cid' \in [Worker -> Id \cup {None}]
           /\ errs' \in [Worker -> BOOLEAN]
           /\ pc' \in [Worker -> PC]
           /\ \A v \in Worker \ {w} : pc'[v] = pc[v]
           /\ todo'[w] = todo[w] \ {s}
           /\ errs'[w] = (errs[w] \/ failed)
           /\ pc'[w] \in {"inspect", "node", "services"}
           /\ pc'[w] = "services" => todo'[w] = {}
  BY DEF TypeOK, EndSlot, Note, Goto, ApplyNext, OnNode, PC, HoldsMu, ApplyPC, ApplyNodePC

\* The end of a node's turn after an error.
LEMMA SkipNodeControl ==
    ASSUME TypeOK, ControlInv, NEW w \in Worker, NEW n, SkipNode(w, n)
    PROVE  /\ todo' \in [Worker -> SUBSET Slot]
           /\ errs' \in [Worker -> BOOLEAN]
           /\ pc' \in [Worker -> PC]
           /\ \A v \in Worker \ {w} : pc'[v] = pc[v]
           /\ todo'[w] = todo[w] \ OnNode(todo[w], n)
           /\ errs'[w]
           /\ pc'[w] \in {"node", "services"}
           /\ pc'[w] = "services" => todo'[w] = {}
  <1>1. OnNode(todo[w] \ OnNode(todo[w], n), n) = {}
    BY DEF OnNode
  <1>2. pc' = [pc EXCEPT ![w] = ApplyNext(todo[w] \ OnNode(todo[w], n), n)]
    BY DEF SkipNode, Goto
  <1> QED
    BY <1>1, <1>2 DEF TypeOK, SkipNode, Fail, ApplyNext, PC, HoldsMu, ApplyPC, ApplyNodePC

\* "return" leaves the mutex free.
LEMMA ReturnControl ==
    ASSUME TypeOK, NEW w \in Worker, NEW result \in {"done", "failed"}, Return(w, result)
    PROVE  /\ pc' \in [Worker -> PC] /\ pc'[w] = result
           /\ \A v \in Worker \ {w} : pc'[v] = pc[v]
           /\ mu' = None
           /\ node' \in [Worker -> Node \cup {None}]
           /\ slot' \in [Worker -> Slot \cup {None}]
           /\ errs' \in [Worker -> BOOLEAN]
  BY DEF TypeOK, Return, Goto, PC

\* The sets of control states, spelled out.
LEMMA ControlStates ==
    /\ ApplySlotPC = {"compare", "stop", "remove", "create", "start", "state", "save"}
    /\ SlotPC = {"compare", "stop", "remove", "create", "start", "state", "save", "dremove"}
    /\ ApplyNodePC = {"netrec", "files", "inspect", "compare", "stop", "remove", "create",
                      "start", "state", "save"}
    /\ NodePC = {"netrec", "files", "inspect", "compare", "stop", "remove", "create",
                 "start", "state", "save", "dstop", "dremove", "drecords", "dnet", "dnetrec"}
    /\ HoldsMu = {"node", "services", "commit", "netrec", "files", "inspect", "compare",
                  "stop", "remove", "create", "start", "state", "save", "dnode", "dnet",
                  "dnetrec", "dcommit", "dstop", "dremove", "drecords"}
    /\ PC = {"idle", "lockApply", "lockDelete", "done", "failed"} \cup HoldsMu
  BY DEF NodePC, SlotPC, HoldsMu, ApplyPC, DeletePC, ApplyNodePC, DeleteNodePC,
         ApplySlotPC, PC

\* After the end of a slot's turn the worker is between two slots.
LEMMA EndSlotFramed ==
    ASSUME TypeOK, ControlInv, NEW w \in Worker, pc[w] \in ApplyNodePC, NEW s,
           NEW failed \in BOOLEAN, EndSlot(w, s, failed),
           UNCHANGED <<job, mu, node>>
    PROVE  Control(w)' /\ \A v \in Worker \ {w} : pc'[v] = pc[v]
  <1>1. /\ \A v \in Worker \ {w} : pc'[v] = pc[v]
        /\ todo'[w] = todo[w] \ {s}
        /\ pc'[w] \in {"inspect", "node", "services"}
        /\ pc'[w] = "services" => todo'[w] = {}
    BY EndSlotControl
  <1>2. Control(w) /\ pc[w] \in HoldsMu /\ pc[w] \in NodePC
    BY ControlStates DEF ControlInv
  <1>3. Control(w)'
    BY <1>1, <1>2, ControlStates DEF Control
  <1> QED
    BY <1>1, <1>3

\* What the steps of Apply do.
LEMMA ApplyControl ==
    ASSUME TypeOK, ControlInv, NEW w \in Worker, ApplyStep(w)
    PROVE  /\ TypeOK' /\ ControlInv' /\ mu = w
           /\ \A v \in Worker \ {w} : pc'[v] = pc[v]
  <1> DEFINE Framed == TypeOK' /\ Control(w)' /\ job' = job
                       /\ \A v \in Worker \ {w} : pc'[v] = pc[v]
  <1> SUFFICES Framed
    <2>1. pc[w] \in HoldsMu
      BY DEF ApplyStep, EnsureNetwork, Inspect, SaveNetwork, WriteFiles, Compare,
             StopContainer, RemoveContainer, CreateContainer, StartContainer,
             GetContainerState, SaveContainer, SaveServices, CommitApply, HoldsMu, ApplyPC,
             ApplyNodePC, ApplySlotPC
    <2>2. mu = w
      BY <2>1 DEF ControlInv, Control
    <2> QED
      BY <2>2, ControlFrame
  <1>0. Control(w)
    BY DEF ControlInv
  <1> USE ControlStates
  <1>1. ASSUME NEW n \in Node, EnsureNetwork(w, n) PROVE Framed
    <2>1. /\ pc[w] = "node"
          /\ job' = job /\ mu' = mu /\ UNCHANGED <<docker, conf, redis, slot, cid, counters>>
          /\ node' = [node EXCEPT ![w] = n]
          /\ net' \in {net, net \cup {n}}
          /\ netCache' \in {netCache, netCache \cup {n}}
          /\ faults' \in Nat
      BY <1>1, FaultsOK DEF EnsureNetwork, TypeOK
    <2>2. \/ Goto(w, "netrec") /\ UNCHANGED <<todo, errs>>
          \/ SkipNode(w, n)
      BY <1>1 DEF EnsureNetwork
    <2>3. CASE Goto(w, "netrec") /\ UNCHANGED <<todo, errs>>
      BY <1>0, <2>1, <2>3 DEF TypeOK, Control, Goto, redis, counters
    <2>4. CASE SkipNode(w, n)
      <3>1. /\ todo' \in [Worker -> SUBSET Slot]
            /\ errs' \in [Worker -> BOOLEAN]
            /\ pc' \in [Worker -> PC]
            /\ \A v \in Worker \ {w} : pc'[v] = pc[v]
            /\ todo'[w] = todo[w] \ OnNode(todo[w], n)
            /\ pc'[w] \in {"node", "services"}
            /\ pc'[w] = "services" => todo'[w] = {}
        BY <2>4, SkipNodeControl
      <3>2. TypeOK'
        BY <2>1, <3>1 DEF TypeOK, redis, counters
      <3>3. Control(w)'
        BY <1>0, <2>1, <3>1 DEF Control
      <3> QED
        BY <2>1, <3>1, <3>2, <3>3
    <2> QED
      BY <2>2, <2>3, <2>4
  <1>2. ASSUME SaveNetwork(w) PROVE Framed
    <2>1. TypeOK'
      BY <1>0, <1>2, FaultsOK DEF SaveNetwork, TypeOK, Control, Goto, Note, Fail,
                           outside, local, counters
    <2>2. Control(w)'
      BY <1>0, <1>2 DEF SaveNetwork, TypeOK, Control, Goto, Note, Fail, local
    <2>3. job' = job /\ \A v \in Worker \ {w} : pc'[v] = pc[v]
      BY <1>2 DEF SaveNetwork, TypeOK, Goto
    <2> QED
      BY <2>1, <2>2, <2>3
  <1>3. ASSUME WriteFiles(w) PROVE Framed
    <2>1. /\ pc[w] = "files" /\ node[w] \in Node
          /\ job' = job /\ mu' = mu /\ UNCHANGED <<docker, net, redis, netCache, node, slot, cid, counters>>
          /\ conf' \in [Node -> Manifest \cup {None}]
          /\ faults' \in Nat
      BY <1>0, <1>3, FaultsOK DEF WriteFiles, TypeOK, Control
    <2>2. \/ Goto(w, "inspect") /\ UNCHANGED <<todo, errs>>
          \/ SkipNode(w, node[w])
      BY <1>3 DEF WriteFiles
    <2>3. CASE Goto(w, "inspect") /\ UNCHANGED <<todo, errs>>
      BY <1>0, <2>1, <2>3 DEF TypeOK, Control, Goto, redis, counters
    <2>4. CASE SkipNode(w, node[w])
      <3>1. /\ todo' \in [Worker -> SUBSET Slot]
            /\ errs' \in [Worker -> BOOLEAN]
            /\ pc' \in [Worker -> PC]
            /\ \A v \in Worker \ {w} : pc'[v] = pc[v]
            /\ todo'[w] = todo[w] \ OnNode(todo[w], node[w])
            /\ pc'[w] \in {"node", "services"}
            /\ pc'[w] = "services" => todo'[w] = {}
        BY <2>4, SkipNodeControl
      <3>2. TypeOK'
        BY <2>1, <3>1 DEF TypeOK, redis, counters
      <3>3. Control(w)'
        BY <1>0, <2>1, <3>1 DEF Control
      <3> QED
        BY <2>1, <3>1, <3>2, <3>3
    <2> QED
      BY <2>2, <2>3, <2>4
  <1>4. ASSUME NEW s \in Slot, Inspect(w, s) PROVE Framed
    <2>1. /\ pc[w] = "inspect" /\ s \in ApplyHead(w)
          /\ UNCHANGED <<outside, redis, netCache, mu, job, node, counters>>
          /\ faults' \in Nat
      BY <1>4, FaultsOK DEF Inspect
    <2>2. /\ s \in OnNode(todo[w], node[w])
          /\ \A t \in OnNode(todo[w], node[w]) : ApplyRank(s) <= ApplyRank(t)
      BY <2>1 DEF ApplyHead
    <2>3. CASE EndSlot(w, s, TRUE) /\ UNCHANGED slot
      <3>1. Control(w)' /\ \A v \in Worker \ {w} : pc'[v] = pc[v]
        BY <2>1, <2>3, EndSlotFramed
      <3>2. TypeOK'
        BY <2>1, <2>3, EndSlotControl DEF TypeOK, outside, redis, counters
      <3> QED
        BY <2>1, <3>1, <3>2
    <2>4. CASE /\ slot' = [slot EXCEPT ![w] = s]
               /\ IF docker[s] = None
                  THEN Goto(w, "create") /\ UNCHANGED cid
                  ELSE /\ cid' = [cid EXCEPT ![w] = docker[s].id]
                       /\ Goto(w, IF s[2] = NginxProxy \/ ~docker[s].running
                                  THEN "stop" ELSE "compare")
               /\ UNCHANGED <<todo, errs>>
      <3>1. docker[s] # None => docker[s].id \in Id
        BY DEF TypeOK, Container
      <3>2. TypeOK'
        BY <2>1, <2>4, <3>1 DEF TypeOK, Goto, outside, redis, counters
      <3>3. Control(w)'
        BY <1>0, <2>1, <2>2, <2>4, <3>1 DEF TypeOK, Control, Goto
      <3> QED
        BY <2>1, <2>4, <3>2, <3>3 DEF TypeOK, Goto
    <2> QED
      BY <1>4, <2>3, <2>4 DEF Inspect
  <1>5. ASSUME Compare(w) PROVE Framed
    <2>1. /\ pc[w] = "compare" /\ slot[w] \in Slot
          /\ UNCHANGED <<outside, redis, netCache, mu, job, node, slot, counters>>
          /\ faults' \in Nat
      BY <1>0, <1>5, FaultsOK DEF Compare, Control, OnNode, TypeOK
    <2>2. docker' \in [Slot -> Container \cup {None}]
      BY <2>1 DEF TypeOK, outside
    <2>3. CASE EndSlot(w, slot[w], TRUE)
      <3>1. Control(w)' /\ \A v \in Worker \ {w} : pc'[v] = pc[v]
        BY <2>1, <2>3, EndSlotFramed
      <3>2. TypeOK'
        BY <2>1, <2>2, <2>3, EndSlotControl DEF TypeOK, redis, outside, counters
      <3> QED
        BY <2>1, <3>1, <3>2
    <2>4. CASE (Goto(w, "save") \/ Goto(w, "stop")) /\ UNCHANGED <<todo, cid, errs>>
      <3>1. TypeOK'
        BY <2>1, <2>2, <2>4 DEF TypeOK, Goto, redis, outside, counters
      <3>2. Control(w)'
        BY <1>0, <2>1, <2>4 DEF TypeOK, Control, Goto
      <3> QED
        BY <2>1, <2>4, <3>1, <3>2 DEF TypeOK, Goto
    <2> QED
      BY <1>5, <2>3, <2>4 DEF Compare
  <1>6. ASSUME StopContainer(w) PROVE Framed
    <2>1. /\ pc[w] = "stop" /\ slot[w] \in Slot
          /\ UNCHANGED <<net, conf, redis, netCache, mu, job, local, errs, counters>>
          /\ Goto(w, "remove")
          /\ faults' \in Nat
      BY <1>0, <1>6, FaultsOK DEF StopContainer, Control, OnNode, TypeOK
    <2>2. docker' \in [Slot -> Container \cup {None}]
      BY <1>6, <2>1, StoppedOK DEF StopContainer, Exists, TypeOK
    <2>3. TypeOK'
      BY <2>1, <2>2 DEF TypeOK, Goto, redis, local, counters
    <2>4. Control(w)'
      BY <1>0, <2>1 DEF TypeOK, Control, Goto, local
    <2> QED
      BY <2>1, <2>3, <2>4 DEF TypeOK, Goto
  <1>7. ASSUME RemoveContainer(w) PROVE Framed
    <2>1. /\ pc[w] = "remove" /\ slot[w] \in Slot
          /\ UNCHANGED <<net, conf, redis, netCache, mu, job, node, slot, counters>>
          /\ faults' \in Nat
      BY <1>0, <1>7, FaultsOK DEF RemoveContainer, Control, OnNode, TypeOK
    <2>2. docker' \in [Slot -> Container \cup {None}]
      BY <1>7, <2>1 DEF RemoveContainer, TypeOK
    <2>3. CASE EndSlot(w, slot[w], TRUE)
      <3>1. Control(w)' /\ \A v \in Worker \ {w} : pc'[v] = pc[v]
        BY <2>1, <2>3, EndSlotFramed
      <3>2. TypeOK'
        BY <2>1, <2>2, <2>3, EndSlotControl DEF TypeOK, redis, outside, counters
      <3> QED
        BY <2>1, <3>1, <3>2
    <2>4. CASE Goto(w, "create") /\ UNCHANGED <<todo, cid, errs>>
      <3>1. TypeOK'
        BY <2>1, <2>2, <2>4 DEF TypeOK, Goto, redis, outside, counters
      <3>2. Control(w)'
        BY <1>0, <2>1, <2>4 DEF TypeOK, Control, Goto
      <3> QED
        BY <2>1, <2>4, <3>1, <3>2 DEF TypeOK, Goto
    <2> QED
      BY <1>7, <2>3, <2>4 DEF RemoveContainer
  <1>8. ASSUME CreateContainer(w) PROVE Framed
    <2>1. /\ pc[w] = "create" /\ slot[w] \in Wanted(job[w]) /\ job[w] \in Manifest
          /\ slot[w] \in Slot
          /\ UNCHANGED <<net, conf, redis, netCache, mu, job, node, slot, counters>>
          /\ faults' \in Nat
      BY <1>0, <1>8, FaultsOK DEF CreateContainer, Control, OnNode, TypeOK
    <2>2. NewId(slot[w]) \in Id
      BY <1>8, FreshId DEF CreateContainer
    <2> DEFINE made == [id |-> NewId(slot[w]), spec |-> SpecFor(job[w], slot[w]),
                        running |-> FALSE, loaded |-> None]
    <2>3. made \in Container
      BY <2>1, <2>2, SpecForOK DEF Container
    <2> HIDE DEF made
    <2>4. docker' \in {docker, [docker EXCEPT ![slot[w]] = made]}
      BY <1>8 DEF CreateContainer, made
    <2>5. docker' \in [Slot -> Container \cup {None}]
      BY <2>3, <2>4 DEF TypeOK
    <2>6. CASE EndSlot(w, slot[w], TRUE)
      <3>1. Control(w)' /\ \A v \in Worker \ {w} : pc'[v] = pc[v]
        BY <2>1, <2>6, EndSlotFramed
      <3>2. TypeOK'
        BY <2>1, <2>5, <2>6, EndSlotControl DEF TypeOK, redis, counters
      <3> QED
        BY <2>1, <3>1, <3>2
    <2>7. CASE /\ cid' = [cid EXCEPT ![w] = NewId(slot[w])]
               /\ Goto(w, "start")
               /\ UNCHANGED <<todo, errs>>
      <3>1. TypeOK'
        BY <2>1, <2>2, <2>5, <2>7 DEF TypeOK, Goto, redis, counters
      <3>2. Control(w)'
        BY <1>0, <2>1, <2>2, <2>7 DEF TypeOK, Control, Goto
      <3> QED
        BY <2>1, <2>7, <3>1, <3>2 DEF TypeOK, Goto
    <2> QED
      BY <1>8, <2>6, <2>7 DEF CreateContainer
  <1>9. ASSUME StartContainer(w) PROVE Framed
    <2>1. /\ pc[w] = "start" /\ slot[w] \in Slot
          /\ UNCHANGED <<net, conf, redis, netCache, mu, job, node, slot, counters>>
          /\ faults' \in Nat
      BY <1>0, <1>9, FaultsOK DEF StartContainer, Control, OnNode, TypeOK
    <2>2. docker' \in [Slot -> Container \cup {None}]
      BY <1>9, <2>1, StartedOK DEF StartContainer, Exists, TypeOK
    <2>3. CASE EndSlot(w, slot[w], TRUE)
      <3>1. Control(w)' /\ \A v \in Worker \ {w} : pc'[v] = pc[v]
        BY <2>1, <2>3, EndSlotFramed
      <3>2. TypeOK'
        BY <2>1, <2>2, <2>3, EndSlotControl DEF TypeOK, redis, outside, counters
      <3> QED
        BY <2>1, <3>1, <3>2
    <2>4. CASE Goto(w, "state") /\ UNCHANGED <<todo, cid, errs>>
      <3>1. TypeOK'
        BY <2>1, <2>2, <2>4 DEF TypeOK, Goto, redis, outside, counters
      <3>2. Control(w)'
        BY <1>0, <2>1, <2>4 DEF TypeOK, Control, Goto
      <3> QED
        BY <2>1, <2>4, <3>1, <3>2 DEF TypeOK, Goto
    <2> QED
      BY <1>9, <2>3, <2>4 DEF StartContainer
  <1>10. ASSUME GetContainerState(w) PROVE Framed
    <2>1. TypeOK'
      BY <1>10, FaultsOK DEF GetContainerState, TypeOK, Goto, Note, Fail, outside, redis,
                             local, counters
    <2>2. Control(w)'
      BY <1>0, <1>10 DEF GetContainerState, TypeOK, Control, Goto, local
    <2>3. job' = job /\ \A v \in Worker \ {w} : pc'[v] = pc[v]
      BY <1>10 DEF GetContainerState, TypeOK, Goto
    <2> QED
      BY <2>1, <2>2, <2>3
  <1>11. ASSUME SaveContainer(w) PROVE Framed
    <2>1. /\ pc[w] = "save" /\ slot[w] \in Slot /\ cid[w] \in Id
          /\ UNCHANGED <<outside, netRec, svcRec, stored, netCache, mu, job, node, slot,
                         counters>>
          /\ faults' \in Nat
          /\ rec' \in [Slot -> Id \cup {None}]
      BY <1>0, <1>11, FaultsOK DEF SaveContainer, Control, OnNode, TypeOK
    <2>2. PICK failed \in BOOLEAN : EndSlot(w, slot[w], failed)
      BY <1>11 DEF SaveContainer
    <2>3. Control(w)' /\ \A v \in Worker \ {w} : pc'[v] = pc[v]
      BY <2>1, <2>2, EndSlotFramed
    <2>4. TypeOK'
      BY <2>1, <2>2, EndSlotControl DEF TypeOK, outside, counters
    <2> QED
      BY <2>1, <2>3, <2>4
  <1>12. ASSUME SaveServices(w) PROVE Framed
    <2>1. /\ pc[w] = "services" /\ job[w] \in Manifest
          /\ UNCHANGED <<outside, rec, netRec, stored, netCache, job, todo, cid, counters>>
          /\ faults' \in Nat
          /\ svcRec' \in SUBSET Service
      BY <1>0, <1>12, FaultsOK, ManifestAssumption DEF SaveServices, Control, TypeOK
    <2>2. CASE Return(w, "failed")
      <3>1. TypeOK'
        BY <2>1, <2>2, ReturnControl DEF TypeOK, outside, counters
      <3>2. Control(w)'
        BY <1>0, <2>1, <2>2, ReturnControl DEF Control
      <3> QED
        BY <2>1, <2>2, <3>1, <3>2, ReturnControl
    <2>3. CASE ~errs[w] /\ Goto(w, "commit") /\ UNCHANGED <<errs, mu, node, slot>>
      <3>1. TypeOK'
        BY <2>1, <2>3 DEF TypeOK, Goto, outside, counters
      <3>2. Control(w)'
        BY <1>0, <2>1, <2>3 DEF TypeOK, Control, Goto
      <3> QED
        BY <2>1, <2>3, <3>1, <3>2 DEF TypeOK, Goto
    <2> QED
      BY <1>12, <2>2, <2>3 DEF SaveServices
  <1>13. ASSUME CommitApply(w) PROVE Framed
    <2>1. /\ pc[w] = "commit" /\ job[w] \in Manifest
          /\ UNCHANGED <<outside, rec, netRec, svcRec, netCache, job, todo, cid, counters>>
          /\ faults' \in Nat
          /\ stored' \in Manifest \cup {None}
      BY <1>0, <1>13, FaultsOK DEF CommitApply, Control, TypeOK
    <2>2. PICK result \in {"done", "failed"} : Return(w, result)
      BY <1>13 DEF CommitApply
    <2>3. TypeOK'
      BY <2>1, <2>2, ReturnControl DEF TypeOK, outside, counters
    <2>4. Control(w)'
      BY <1>0, <2>1, <2>2, ReturnControl DEF Control
    <2> QED
      BY <2>1, <2>2, <2>3, <2>4, ReturnControl
  <1> QED
    BY <1>1, <1>2, <1>3, <1>4, <1>5, <1>6, <1>7, <1>8, <1>9, <1>10, <1>11, <1>12, <1>13
       DEF ApplyStep

\* What the steps of Delete do.
LEMMA DeleteControl ==
    ASSUME TypeOK, ControlInv, NEW w \in Worker, DeleteStep(w)
    PROVE  /\ TypeOK' /\ ControlInv' /\ mu = w
           /\ \A v \in Worker \ {w} : pc'[v] = pc[v]
  <1> DEFINE Framed == TypeOK' /\ Control(w)' /\ job' = job
                       /\ \A v \in Worker \ {w} : pc'[v] = pc[v]
  <1> SUFFICES Framed
    <2>1. pc[w] \in HoldsMu
      BY DEF DeleteStep, DeleteNode, DeleteStop, DeleteRemove, DeleteRecords, RemoveNetwork,
             DeleteNetworkRecord, CommitDelete, HoldsMu, DeletePC, DeleteNodePC
    <2>2. mu = w
      BY <2>1 DEF ControlInv, Control
    <2> QED
      BY <2>2, ControlFrame
  <1>0. Control(w)
    BY DEF ControlInv
  <1> USE ControlStates
  <1>1. ASSUME NEW n \in Node, DeleteNode(w, n) PROVE Framed
    <2>1. TypeOK'
      BY <1>1 DEF DeleteNode, TypeOK, Goto, outside, redis, counters
    <2>2. Control(w)'
      BY <1>0, <1>1 DEF DeleteNode, TypeOK, Control, Goto
    <2> QED
      BY <1>1, <2>1, <2>2 DEF DeleteNode, TypeOK, Goto
  <1>2. ASSUME NEW s \in Slot, DeleteStop(w, s) PROVE Framed
    <2>1. /\ pc[w] = "dstop" /\ s \in OnNode(todo[w], node[w])
          /\ UNCHANGED <<net, conf, redis, netCache, mu, job, todo, node, cid, counters>>
          /\ slot' = [slot EXCEPT ![w] = s]
          /\ Goto(w, "dremove")
          /\ faults' \in Nat
          /\ errs' \in [Worker -> BOOLEAN]
      BY <1>2, FaultsOK DEF DeleteStop, DeleteHead, Note, TypeOK
    <2>2. docker' \in [Slot -> Container \cup {None}]
      BY <1>2, StoppedOK DEF DeleteStop, TypeOK
    <2>3. TypeOK'
      BY <2>1, <2>2 DEF TypeOK, Goto, redis, counters
    <2>4. Control(w)'
      BY <1>0, <2>1 DEF TypeOK, Control, Goto
    <2> QED
      BY <2>1, <2>3, <2>4 DEF TypeOK, Goto
  <1>3. ASSUME DeleteRemove(w) PROVE Framed
    <2> DEFINE rest == todo[w] \ {slot[w]}
    <2>1. /\ pc[w] = "dremove" /\ slot[w] \in Slot
          /\ UNCHANGED <<net, conf, redis, netCache, mu, job, node, slot, cid, counters>>
          /\ todo' = [todo EXCEPT ![w] = rest]
          /\ Goto(w, DeleteNext(rest, node[w]))
          /\ faults' \in Nat
          /\ errs' \in [Worker -> BOOLEAN]
          /\ docker' \in [Slot -> Container \cup {None}]
      BY <1>0, <1>3, FaultsOK DEF DeleteRemove, Note, TypeOK, Control, OnNode
    <2>2. /\ rest \subseteq todo[w] /\ rest \subseteq Slot
          /\ DeleteNext(rest, node[w]) \in {"dstop", "drecords"}
          /\ DeleteNext(rest, node[w]) = "drecords" => OnNode(rest, node[w]) = {}
      BY DEF DeleteNext, TypeOK
    <2> HIDE DEF rest
    <2>3. TypeOK'
      BY <2>1, <2>2 DEF TypeOK, Goto, redis, counters
    <2>4. Control(w)'
      BY <1>0, <2>1, <2>2 DEF TypeOK, Control, Goto
    <2> QED
      BY <2>1, <2>3, <2>4 DEF TypeOK, Goto
  <1>4. ASSUME DeleteRecords(w) PROVE Framed
    <2>1. /\ pc[w] = "drecords"
          /\ UNCHANGED <<outside, netRec, stored, netCache, mu, job, local, counters>>
          /\ Goto(w, "dnet")
          /\ faults' \in Nat
          /\ errs' \in [Worker -> BOOLEAN]
          /\ rec' \in [Slot -> Id \cup {None}]
          /\ svcRec' \in SUBSET Service
      BY <1>4, FaultsOK DEF DeleteRecords, Note, TypeOK
    <2>2. TypeOK'
      BY <2>1 DEF TypeOK, Goto, outside, local, counters
    <2>3. Control(w)'
      BY <1>0, <2>1 DEF TypeOK, Control, Goto, local
    <2> QED
      BY <2>1, <2>2, <2>3 DEF TypeOK, Goto
  <1>5. ASSUME RemoveNetwork(w) PROVE Framed
    <2>1. /\ pc[w] = "dnet"
          /\ UNCHANGED <<docker, conf, redis, mu, job, local, counters>>
          /\ Goto(w, "dnetrec")
          /\ faults' \in Nat
          /\ errs' \in [Worker -> BOOLEAN]
          /\ net' \in SUBSET Node
          /\ netCache' \in SUBSET Node
      BY <1>5, FaultsOK DEF RemoveNetwork, Note, TypeOK
    <2>2. TypeOK'
      BY <2>1 DEF TypeOK, Goto, redis, local, counters
    <2>3. Control(w)'
      BY <1>0, <2>1 DEF TypeOK, Control, Goto, local
    <2> QED
      BY <2>1, <2>2, <2>3 DEF TypeOK, Goto
  <1>6. ASSUME DeleteNetworkRecord(w) PROVE Framed
    <2>1. /\ pc[w] = "dnetrec" /\ job[w] \in Manifest
          /\ UNCHANGED <<outside, rec, svcRec, stored, netCache, job, todo, cid, counters>>
          /\ faults' \in Nat
          /\ netRec' \in SUBSET Node
      BY <1>0, <1>6, FaultsOK DEF DeleteNetworkRecord, Control, TypeOK
    <2>2. CASE Return(w, "failed")
      <3>1. TypeOK'
        BY <2>1, <2>2, ReturnControl DEF TypeOK, outside, counters
      <3>2. Control(w)'
        BY <1>0, <2>1, <2>2, ReturnControl DEF Control
      <3> QED
        BY <2>1, <2>2, <3>1, <3>2, ReturnControl
    <2>3. CASE /\ \/ Goto(w, "dnode") /\ errs' \in [Worker -> BOOLEAN]
                  \/ Goto(w, "dcommit") /\ todo[w] = {} /\ ~errs[w] /\ errs' = errs
               /\ UNCHANGED <<mu, node, slot>>
      <3>1. TypeOK'
        BY <2>1, <2>3 DEF TypeOK, Goto, outside, counters
      <3>2. Control(w)'
        BY <1>0, <2>1, <2>3 DEF TypeOK, Control, Goto
      <3> QED
        BY <2>1, <2>3, <3>1, <3>2 DEF TypeOK, Goto
    <2>4. \A x : Note(w, x) => errs' \in [Worker -> BOOLEAN]
      BY DEF Note, TypeOK
    <2> QED
      BY <1>6, <2>2, <2>3, <2>4 DEF DeleteNetworkRecord
  <1>7. ASSUME CommitDelete(w) PROVE Framed
    <2>1. /\ pc[w] = "dcommit" /\ job[w] \in Manifest
          /\ UNCHANGED <<outside, rec, netRec, svcRec, netCache, job, todo, cid, counters>>
          /\ faults' \in Nat
          /\ stored' \in Manifest \cup {None}
      BY <1>0, <1>7, FaultsOK DEF CommitDelete, Control, TypeOK
    <2>2. PICK result \in {"done", "failed"} : Return(w, result)
      BY <1>7 DEF CommitDelete
    <2>3. TypeOK'
      BY <2>1, <2>2, ReturnControl DEF TypeOK, outside, counters
    <2>4. Control(w)'
      BY <1>0, <2>1, <2>2, ReturnControl DEF Control
    <2> QED
      BY <2>1, <2>2, <2>3, <2>4, ReturnControl
  <1> QED
    BY <1>1, <1>2, <1>3, <1>4, <1>5, <1>6, <1>7 DEF DeleteStep

\* Every step preserves types and control.
LEMMA NextControl == TypeOK /\ ControlInv /\ [Next]_vars => TypeOK' /\ ControlInv'
  <1> SUFFICES ASSUME TypeOK, ControlInv, [Next]_vars PROVE TypeOK' /\ ControlInv'
    OBVIOUS
  <1>1. CASE UNCHANGED vars
    BY <1>1 DEF vars, TypeOK, ControlInv, Control
  <1>2. ASSUME NEW w \in Worker, Request(w) \/ EngineStep(w) PROVE TypeOK' /\ ControlInv'
    BY <1>2, RequestControl, LockControl, ApplyControl, DeleteControl DEF EngineStep
  <1>3. CASE Outside
    BY <1>3, OutsideControl
  <1> QED
    BY <1>1, <1>2, <1>3 DEF Next

\* The engine's state and Docker's and Redis's keep their types.
THEOREM EngineTypeCorrect == Spec => []TypeOK
  BY InitControl, NextControl, PTL DEF Spec

\* engine.go:98, :268: at most one call of Apply or Delete is past e.mu.Lock().
MutualExclusion ==
    \A v, w \in Worker : pc[v] \in HoldsMu /\ pc[w] \in HoldsMu => v = w

\* The mutex does its work: no two operations interleave.
THEOREM EngineMutualExclusion == Spec => []MutualExclusion
  <1>1. ControlInv => MutualExclusion
    BY DEF ControlInv, Control, MutualExclusion
  <1> QED
    BY <1>1, InitControl, NextControl, PTL DEF Spec

-----------------------------------------------------------------------------
(* Progress of Apply and Delete. *)

\* The control states of Apply and Delete, spelled out.
LEMMA ApplyStates ==
    /\ ApplyPC = {"node", "services", "commit", "netrec", "files", "inspect", "compare",
                  "stop", "remove", "create", "start", "state", "save"}
    /\ DeletePC = {"dnode", "dnet", "dnetrec", "dcommit", "dstop", "dremove", "drecords"}
    /\ DeleteNodePC = {"dstop", "dremove", "drecords"}
  BY DEF ApplyPC, DeletePC, ApplyNodePC, DeleteNodePC, ApplySlotPC

\* Nobody else is in the middle of an Apply or a Delete.
LEMMA ProgressFrame ==
    ASSUME TypeOK, ControlInv, NEW w \in Worker, mu \in {w, None},
           Applied(w)', Deleted(w)', \A v \in Worker \ {w} : pc'[v] = pc[v]
    PROVE  ProgressInv'
  <1> SUFFICES ASSUME NEW v \in Worker, v # w PROVE Applied(v)' /\ Deleted(v)'
    BY DEF ProgressInv
  <1>1. pc[v] \notin HoldsMu
    BY NoneFacts DEF ControlInv, Control
  <1>2. pc'[v] = pc[v]
    OBVIOUS
  <1> QED
    BY <1>1, <1>2, ControlStates, ApplyStates DEF Applied, Deleted

\* A worker outside the mutex has no progress to speak of.
LEMMA NoProgress ==
    ASSUME NEW w \in Worker, pc[w] \notin HoldsMu
    PROVE  Applied(w) /\ Deleted(w)
  BY ControlStates, ApplyStates DEF Applied, Deleted

\* Nothing is in progress at the start.
LEMMA InitProgress == Init => RunningInv /\ ProgressInv
  BY IdlePC, NoProgress DEF Init, RunningInv, ProgressInv

\* The requests touch nothing the progress speaks of.
LEMMA RequestProgress ==
    ASSUME IInv, NEW w \in Worker, Request(w)
    PROVE  RunningInv' /\ ProgressInv'
  <1> USE DEF IInv
  <1>1. /\ UNCHANGED <<outside, rec, netRec, svcRec, local, errs>>
        /\ \A v \in Worker : pc'[v] = pc[v] \/ pc'[v] \notin HoldsMu
        /\ \A v \in Worker : job'[v] = job[v] \/ pc'[v] \notin HoldsMu
    BY ControlStates DEF Request, CallApply, CallDelete, SaveManifestFromFile, Done, TypeOK, Goto, redis
  <1>2. RunningInv'
    BY <1>1 DEF RunningInv, outside
  <1>3. ASSUME NEW v \in Worker PROVE Applied(v)' /\ Deleted(v)'
    <2>1. CASE pc'[v] \notin HoldsMu
      BY <2>1, ControlStates, ApplyStates DEF Applied, Deleted
    <2>2. CASE pc'[v] = pc[v] /\ job'[v] = job[v]
      <3>1. Applied(v) /\ Deleted(v)
        BY DEF ProgressInv
      <3> QED
        BY <1>1, <2>2, <3>1 DEF Applied, Deleted, Deployed, Built, Exists, outside, local
    <2> QED
      BY <1>1, <2>1, <2>2
  <1> QED
    BY <1>2, <1>3 DEF ProgressInv

\* Lock begins with everything left to do.
LEMMA LockProgress ==
    ASSUME IInv, NEW w \in Worker, Lock(w)
    PROVE  RunningInv' /\ ProgressInv'
  <1> USE DEF IInv
  <1>1. RunningInv'
    BY DEF Lock, RunningInv, outside
  <1>2. /\ pc'[w] \in {"node", "dnode"} /\ todo'[w] = Wanted(job'[w])
        /\ job' = job /\ job[w] \in Manifest
    BY DEF Lock, TypeOK, Goto, ControlInv, Control
  <1>3. Applied(w)'
    BY <1>2, ControlStates, ApplyStates DEF Applied
  <1>4. Deleted(w)'
    <2>1. \A s \in Wanted(job'[w]) : OnNode(todo'[w], s[1]) # {}
      BY <1>2 DEF OnNode
    <2> QED
      BY <1>2, <2>1, ApplyStates DEF Deleted
  <1>5. mu = None /\ \A v \in Worker \ {w} : pc'[v] = pc[v]
    BY DEF Lock, TypeOK, Goto
  <1> QED
    BY <1>1, <1>3, <1>4, <1>5, ProgressFrame

\* Containers exit and are started; processes end.
LEMMA OutsideProgress ==
    ASSUME IInv, Outside
    PROVE  RunningInv' /\ ProgressInv'
  <1> USE DEF IInv
  <1>1. ASSUME NEW s \in Slot, ContainerExit(s) \/ StartStopped(s)
        PROVE  RunningInv' /\ ProgressInv'
    <2>1. /\ docker[s] # None /\ docker'[s] # None
          /\ docker'[s].id = docker[s].id /\ docker'[s].spec = docker[s].spec
          /\ docker'[s].running =>
                s[1] \in net /\ (s[2] = NginxProxy => docker'[s].loaded = conf[s[1]])
          /\ \A t \in Slot \ {s} : docker'[t] = docker[t]
          /\ UNCHANGED <<net, conf, redis, pc, job, local, errs>>
      BY <1>1, StartedOK, StoppedOK DEF ContainerExit, StartStopped
    <2>2. RunningInv'
      BY <2>1 DEF RunningInv
    <2>3. ASSUME NEW w \in Worker PROVE Applied(w)' /\ Deleted(w)'
      <3>1. Applied(w) /\ Deleted(w) /\ Control(w)
        BY DEF ProgressInv, ControlInv
      <3>2. pc[w] \in {"start", "state", "save"} => Built(w)'
        <4> SUFFICES ASSUME pc[w] \in {"start", "state", "save"} PROVE Built(w)'
          OBVIOUS
        <4>1. /\ Built(w) /\ conf[node[w]] = job[w]
              /\ slot[w] \in Slot /\ slot[w][1] = node[w]
          BY <3>1, ControlStates DEF Applied, Control, TypeOK, OnNode
        <4>2. slot'[w] = slot[w] /\ cid'[w] = cid[w] /\ job'[w] = job[w]
          BY <2>1 DEF local
        <4> QED
          BY <2>1, <4>1, <4>2 DEF Built, Exists
      <3>3. Applied(w)'
        <4>1. \A t \in Wanted(job[w]) : Deployed(job[w], t) => Deployed(job[w], t)'
          BY <2>1 DEF Wanted, Deployed, redis
        <4> QED
          BY <2>1, <3>1, <3>2, <4>1 DEF Applied, Deployed, redis, local
      <3>4. Deleted(w)'
        <4>1. \A t \in Wanted(job[w]) : docker[t] = None => docker'[t] = None
          BY <2>1 DEF Wanted
        <4> QED
          BY <2>1, <3>1, <4>1 DEF Deleted, redis, local
      <3> QED
        BY <3>3, <3>4
    <2> QED
      BY <2>2, <2>3 DEF ProgressInv
  <1>2. ASSUME Interrupt PROVE RunningInv' /\ ProgressInv'
    <2>1. UNCHANGED <<outside, redis, pc, job, local, errs>>
      BY <1>2 DEF Interrupt
    <2>2. RunningInv'
      BY <2>1 DEF RunningInv, outside
    <2>3. ASSUME NEW w \in Worker PROVE Applied(w)' /\ Deleted(w)'
      <3>1. Applied(w) /\ Deleted(w)
        BY DEF ProgressInv
      <3> QED
        BY <2>1, <3>1 DEF Applied, Deleted, Deployed, Built, Exists, outside, redis, local
    <2> QED
      BY <2>2, <2>3 DEF ProgressInv
  <1>3. ASSUME Exit \/ Kill PROVE RunningInv' /\ ProgressInv'
    <2>1. FreshProcess
      BY <1>3 DEF Exit, Kill
    <2>2. RunningInv'
      BY <2>1 DEF FreshProcess, RunningInv, outside
    <2>3. \A w \in Worker : pc'[w] \notin HoldsMu
      BY <2>1, IdlePC DEF FreshProcess
    <2> QED
      BY <2>2, <2>3, ControlStates, ApplyStates DEF ProgressInv, Applied, Deleted
  <1> QED
    BY <1>1, <1>2, <1>3 DEF Outside

\* A slot that failed is no longer claimed to be deployed.
LEMMA EndSlotApplied ==
    ASSUME IInv, NEW w \in Worker, pc[w] \in {"inspect"} \cup ApplySlotPC, NEW s,
           EndSlot(w, s, TRUE), UNCHANGED <<conf, job, node>>
    PROVE  Applied(w)' /\ pc'[w] \notin DeletePC
  <1>1. errs'[w] /\ pc'[w] \in {"inspect", "node", "services"}
    BY EndSlotControl, ControlStates DEF IInv
  <1>2. conf[node[w]] = job[w]
    BY DEF IInv, ProgressInv, Applied
  <1> QED
    BY <1>1, <1>2, ApplyStates, ControlStates DEF Applied

\* A node that was skipped is not claimed to be deployed: an error is noted.
LEMMA SkipNodeApplied ==
    ASSUME IInv, NEW w \in Worker, NEW n, SkipNode(w, n)
    PROVE  Applied(w)' /\ pc'[w] \notin DeletePC
  <1>1. errs'[w] /\ pc'[w] \in {"node", "services"}
    BY SkipNodeControl DEF IInv
  <1> QED
    BY <1>1, ApplyStates, ControlStates DEF Applied

\* Apply: what it is through with is deployed.
LEMMA ApplyProgress ==
    ASSUME IInv, NEW w \in Worker, ApplyStep(w)
    PROVE  RunningInv' /\ ProgressInv'
  <1> DEFINE Framed == RunningInv' /\ Applied(w)' /\ pc'[w] \notin DeletePC
  <1>a. TypeOK /\ ControlInv /\ RunningInv /\ ProgressInv
    BY DEF IInv
  <1>b. Control(w) /\ Applied(w)
    BY <1>a DEF ControlInv, ProgressInv
  <1>c. mu = w /\ \A v \in Worker \ {w} : pc'[v] = pc[v]
    BY <1>a, ApplyControl
  <1> SUFFICES Framed
    <2>1. Deleted(w)' \/ pc'[w] \in DeletePC
      BY DEF Deleted
    <2> QED
      BY <1>a, <1>c, <2>1, ProgressFrame
  <1> USE ControlStates, ApplyStates
  <1>1. ASSUME NEW n \in Node, EnsureNetwork(w, n) PROVE Framed
    <2>1. /\ pc[w] = "node"
          /\ UNCHANGED <<docker, conf, rec, netRec, svcRec, job>>
          /\ net \subseteq net'
          /\ node'[w] = n
      BY <1>1, <1>a DEF EnsureNetwork, redis, TypeOK
    <2>2. RunningInv'
      BY <1>a, <2>1 DEF RunningInv
    <2>3. CASE SkipNode(w, n)
      BY <2>2, <2>3, SkipNodeApplied
    <2>4. CASE Goto(w, "netrec") /\ UNCHANGED <<todo, errs>>
      <3>1. pc'[w] = "netrec"
        BY <1>a, <2>4 DEF Goto, TypeOK
      <3> QED
        BY <1>b, <2>1, <2>2, <2>4, <3>1 DEF Applied, Deployed
    <2> QED
      BY <1>1, <2>3, <2>4 DEF EnsureNetwork
  <1>2. ASSUME SaveNetwork(w) PROVE Framed
    <2>1. /\ pc[w] = "netrec" /\ pc'[w] = "files" /\ node[w] \in Node
          /\ UNCHANGED <<docker, net, conf, rec, svcRec, job, todo, node>>
          /\ netRec \subseteq netRec'
          /\ ~errs'[w] => ~errs[w] /\ node[w] \in netRec'
      BY <1>2, <1>a, <1>b DEF SaveNetwork, outside, local, TypeOK, Goto, Note, Control, Reply
    <2> QED
      BY <1>a, <1>b, <2>1 DEF RunningInv, Applied, Deployed
  <1>3. ASSUME WriteFiles(w) PROVE Framed
    <2>1. /\ pc[w] = "files" /\ node[w] \in Node
          /\ UNCHANGED <<docker, net, rec, netRec, svcRec, job, node>>
          /\ \A n \in Node : conf'[n] \in {conf[n], job[w]}
      BY <1>3, <1>a, <1>b DEF WriteFiles, redis, TypeOK, Control
    <2>2. RunningInv'
      BY <1>a, <2>1 DEF RunningInv
    <2>3. CASE SkipNode(w, node[w])
      BY <2>2, <2>3, SkipNodeApplied
    <2>4. CASE /\ conf' = [conf EXCEPT ![node[w]] = job[w]]
               /\ Goto(w, "inspect") /\ UNCHANGED <<todo, errs>>
      <3>1. pc'[w] = "inspect" /\ conf'[node[w]] = job[w]
        BY <1>a, <2>1, <2>4 DEF Goto, TypeOK
      <3>2. \A s \in Wanted(job[w]) : Deployed(job[w], s) => Deployed(job[w], s)'
        BY <2>1 DEF Deployed, Wanted, Slot
      <3> QED
        BY <1>b, <2>1, <2>2, <2>4, <3>1, <3>2 DEF Applied
    <2> QED
      BY <1>3, <2>3, <2>4 DEF WriteFiles, Reply
  <1>4. ASSUME NEW s \in Slot, Inspect(w, s) PROVE Framed
    <2>1. /\ pc[w] = "inspect"
          /\ UNCHANGED <<docker, net, conf, rec, netRec, svcRec, job, node>>
      BY <1>4 DEF Inspect, outside, redis
    <2>2. RunningInv'
      BY <1>a, <2>1 DEF RunningInv
    <2>3. CASE EndSlot(w, s, TRUE)
      BY <2>1, <2>2, <2>3, EndSlotApplied
    <2>4. CASE /\ slot' = [slot EXCEPT ![w] = s]
               /\ IF docker[s] = None
                  THEN Goto(w, "create") /\ UNCHANGED cid
                  ELSE /\ cid' = [cid EXCEPT ![w] = docker[s].id]
                       /\ Goto(w, IF s[2] = NginxProxy \/ ~docker[s].running
                                  THEN "stop" ELSE "compare")
               /\ UNCHANGED <<todo, errs>>
      <3>1. /\ pc'[w] \in {"create", "stop", "compare"} /\ slot'[w] = s
            /\ pc'[w] = "compare" => s[2] # NginxProxy /\ docker[s] # None /\ docker[s].running
        BY <1>a, <2>4 DEF TypeOK, Goto
      <3>2. s[1] = node[w]
        BY <1>4 DEF Inspect, ApplyHead, OnNode
      <3>3. pc'[w] = "compare" => node[w] \in net
        BY <1>a, <3>1, <3>2 DEF RunningInv
      <3> QED
        BY <1>b, <2>1, <2>2, <2>4, <3>1, <3>3 DEF Applied, Deployed
    <2> QED
      BY <1>4, <2>3, <2>4 DEF Inspect
  <1>5. ASSUME Compare(w) PROVE Framed
    <2>1. /\ pc[w] = "compare"
          /\ UNCHANGED <<docker, net, conf, rec, netRec, svcRec, job, node, slot>>
      BY <1>5 DEF Compare, outside, redis
    <2>2. RunningInv'
      BY <1>a, <2>1 DEF RunningInv
    <2>3. CASE EndSlot(w, slot[w], TRUE)
      BY <2>1, <2>2, <2>3, EndSlotApplied
    <2>4. CASE /\ Exists(slot[w], cid[w])
               /\ Goto(w, IF <<SpecFor(job[w], slot[w]), docker[slot[w]].spec>> \in Matches
                          THEN "save" ELSE "stop")
               /\ UNCHANGED <<todo, cid, errs>>
      <3>1. /\ pc'[w] \in {"save", "stop"}
            /\ pc'[w] = "save" => <<SpecFor(job[w], slot[w]), docker[slot[w]].spec>> \in Matches
        BY <1>a, <2>4 DEF TypeOK, Goto
      <3>2. pc'[w] = "save" => Built(w)'
        BY <1>b, <2>1, <2>4, <3>1 DEF Built, Exists, Applied
      <3> QED
        BY <1>b, <2>1, <2>2, <2>4, <3>1, <3>2 DEF Applied, Deployed
    <2> QED
      BY <1>5, <2>3, <2>4 DEF Compare
  <1>6. ASSUME StopContainer(w) PROVE Framed
    <2>1. /\ pc[w] = "stop" /\ pc'[w] = "remove"
          /\ slot[w] \in todo[w] /\ slot[w] \in Slot
          /\ UNCHANGED <<net, conf, rec, netRec, svcRec, job, todo, node, slot, errs>>
      BY <1>6, <1>a, <1>b DEF StopContainer, redis, local, TypeOK, Goto, Control, OnNode
    <2>2. /\ \A t \in Slot \ {slot[w]} : docker'[t] = docker[t]
          /\ docker'[slot[w]] = docker[slot[w]] \/ ~docker'[slot[w]].running
      BY <1>6, <1>a, <2>1, StoppedOK DEF StopContainer, Exists
    <2>3. RunningInv'
      BY <1>a, <2>1, <2>2 DEF RunningInv
    <2>4. \A t \in Wanted(job[w]) \ todo[w] : docker'[t] = docker[t]
      BY <2>1, <2>2 DEF Wanted
    <2> QED
      BY <1>b, <2>1, <2>3, <2>4 DEF Applied, Deployed
  <1>7. ASSUME RemoveContainer(w) PROVE Framed
    <2>1. /\ pc[w] = "remove" /\ slot[w] \in todo[w] /\ slot[w] \in Slot
          /\ UNCHANGED <<net, conf, rec, netRec, svcRec, job, node, slot>>
      BY <1>7, <1>a, <1>b DEF RemoveContainer, redis, TypeOK, Control, OnNode
    <2>2. /\ \A t \in Slot \ {slot[w]} : docker'[t] = docker[t]
          /\ docker'[slot[w]] \in {docker[slot[w]], None}
      BY <1>7, <1>a, <2>1 DEF RemoveContainer, TypeOK
    <2>3. RunningInv'
      BY <1>a, <2>1, <2>2 DEF RunningInv
    <2>4. CASE EndSlot(w, slot[w], TRUE)
      BY <2>1, <2>3, <2>4, EndSlotApplied
    <2>5. CASE Goto(w, "create") /\ UNCHANGED <<todo, cid, errs>>
      <3>1. pc'[w] = "create"
        BY <1>a, <2>5 DEF TypeOK, Goto
      <3>2. \A t \in Wanted(job[w]) \ todo[w] : docker'[t] = docker[t]
        BY <2>1, <2>2 DEF Wanted
      <3> QED
        BY <1>b, <2>1, <2>3, <2>5, <3>1, <3>2 DEF Applied, Deployed
    <2> QED
      BY <1>7, <2>4, <2>5 DEF RemoveContainer
  <1>8. ASSUME CreateContainer(w) PROVE Framed
    <2>1. /\ pc[w] = "create" /\ slot[w] \in todo[w] /\ slot[w] \in Wanted(job[w])
          /\ slot[w] \in Slot /\ job[w] \in Manifest
          /\ UNCHANGED <<net, conf, rec, netRec, svcRec, job, node, slot>>
      BY <1>8, <1>a, <1>b DEF CreateContainer, redis, TypeOK, Control, OnNode
    <2> DEFINE made == [id |-> NewId(slot[w]), spec |-> SpecFor(job[w], slot[w]),
                        running |-> FALSE, loaded |-> None]
    <2>2. /\ made.id = NewId(slot[w]) /\ made.spec = SpecFor(job[w], slot[w])
          /\ ~made.running
      OBVIOUS
    <2>3. made # None
      <3>1. NewId(slot[w]) \in Id
        BY <1>8, FreshId DEF CreateContainer
      <3>2. made \in Container
        BY <2>1, <3>1, SpecForOK DEF Container
      <3> QED
        BY <3>2, NoneFacts
    <2>4. docker' \in {docker, [docker EXCEPT ![slot[w]] = made]}
      BY <1>8 DEF CreateContainer
    <2>5. \/ EndSlot(w, slot[w], TRUE)
          \/ /\ docker' = [docker EXCEPT ![slot[w]] = made]
             /\ cid' = [cid EXCEPT ![w] = NewId(slot[w])]
             /\ Goto(w, "start")
             /\ UNCHANGED <<todo, errs>>
      BY <1>8 DEF CreateContainer, Effect
    <2> HIDE DEF made
    <2>6. RunningInv'
      BY <1>a, <2>1, <2>2, <2>4 DEF RunningInv, TypeOK
    <2>7. CASE EndSlot(w, slot[w], TRUE)
      BY <2>1, <2>6, <2>7, EndSlotApplied
    <2>8. CASE /\ docker' = [docker EXCEPT ![slot[w]] = made]
               /\ cid' = [cid EXCEPT ![w] = NewId(slot[w])]
               /\ Goto(w, "start")
               /\ UNCHANGED <<todo, errs>>
      <3>1. /\ pc'[w] = "start" /\ cid'[w] = NewId(slot[w])
            /\ docker'[slot[w]] = made
            /\ \A t \in Slot \ {slot[w]} : docker'[t] = docker[t]
        BY <1>a, <2>1, <2>8 DEF TypeOK, Goto
      <3>2. \A t \in Wanted(job[w]) \ todo[w] : docker'[t] = docker[t]
        BY <2>1, <3>1 DEF Wanted
      <3>3. Built(w)'
        BY <2>1, <2>2, <2>3, <3>1, SpecForOK DEF Built, Exists
      <3> QED
        BY <1>b, <2>1, <2>6, <2>8, <3>1, <3>2, <3>3 DEF Applied, Deployed
    <2> QED
      BY <2>5, <2>7, <2>8
  <1>9. ASSUME StartContainer(w) PROVE Framed
    <2>1. /\ pc[w] = "start" /\ slot[w] \in todo[w] /\ slot[w] \in Slot
          /\ slot[w][1] = node[w] /\ Built(w) /\ conf[node[w]] = job[w]
          /\ UNCHANGED <<net, conf, rec, netRec, svcRec, job, node, slot>>
      BY <1>9, <1>a, <1>b DEF StartContainer, redis, TypeOK, Control, OnNode, Applied
    <2>2. docker[slot[w]] # None
      BY <2>1 DEF Built, Exists
    <2>3. \/ docker' = docker
          \/ docker' = Started(slot[w]) /\ node[w] \in net
      BY <1>9 DEF StartContainer
    <2>4. /\ \A t \in Slot \ {slot[w]} : docker'[t] = docker[t]
          /\ docker'[slot[w]] # None
          /\ docker'[slot[w]].id = docker[slot[w]].id
          /\ docker'[slot[w]].spec = docker[slot[w]].spec
          /\ \/ docker'[slot[w]] = docker[slot[w]]
             \/ /\ node[w] \in net
                /\ slot[w][2] = NginxProxy => docker'[slot[w]].loaded = job[w]
      BY <1>a, <2>1, <2>2, <2>3, StartedOK
    <2>5. RunningInv'
      BY <1>a, <2>1, <2>4 DEF RunningInv
    <2>6. CASE EndSlot(w, slot[w], TRUE)
      BY <2>1, <2>5, <2>6, EndSlotApplied
    <2>7. CASE Goto(w, "state") /\ node[w] \in net /\ UNCHANGED <<todo, cid, errs>>
      <3>1. pc'[w] = "state"
        BY <1>a, <2>7 DEF TypeOK, Goto
      <3>2. \A t \in Wanted(job[w]) \ todo[w] : docker'[t] = docker[t]
        BY <2>1, <2>4 DEF Wanted
      <3>3. Built(w)'
        BY <2>1, <2>4, <2>7 DEF Built, Exists
      <3> QED
        BY <1>b, <2>1, <2>5, <2>7, <3>1, <3>2, <3>3 DEF Applied, Deployed
    <2> QED
      BY <1>9, <2>6, <2>7 DEF StartContainer
  <1>10. ASSUME GetContainerState(w) PROVE Framed
    <2>1. /\ pc[w] = "state" /\ pc'[w] = "save"
          /\ UNCHANGED <<docker, net, conf, rec, netRec, svcRec, job, todo, node, slot, cid>>
          /\ errs[w] => errs'[w]
      BY <1>10, <1>a DEF GetContainerState, outside, redis, local, TypeOK, Goto, Note, Fail
    <2>2. RunningInv'
      BY <1>a, <2>1 DEF RunningInv
    <2>3. Built(w)'
      BY <1>b, <2>1 DEF Applied, Built, Exists
    <2> QED
      BY <1>b, <2>1, <2>2, <2>3 DEF Applied, Deployed
  <1>11. ASSUME SaveContainer(w) PROVE Framed
    <2>1. /\ pc[w] = "save" /\ slot[w] \in Slot /\ slot[w][1] = node[w]
          /\ slot[w] \in todo[w]
          /\ UNCHANGED <<docker, net, conf, netRec, svcRec, job, node, slot>>
          /\ \A t \in Slot \ {slot[w]} : rec'[t] = rec[t]
      BY <1>11, <1>a, <1>b DEF SaveContainer, outside, TypeOK, Control, OnNode
    <2>2. RunningInv'
      BY <1>a, <2>1 DEF RunningInv
    <2>3. PICK failed \in BOOLEAN : /\ EndSlot(w, slot[w], failed)
                                    /\ ~failed => rec' = [rec EXCEPT ![slot[w]] = cid[w]]
      BY <1>11 DEF SaveContainer, Reply
    <2>4. /\ todo'[w] = todo[w] \ {slot[w]}
          /\ errs'[w] = (errs[w] \/ failed)
          /\ pc'[w] \in {"inspect", "node", "services"}
      BY <1>a, <2>1, <2>3, EndSlotControl
    <2>5. ~errs'[w] => Deployed(job[w], slot[w])'
      <3> SUFFICES ASSUME ~errs'[w] PROVE Deployed(job[w], slot[w])'
        OBVIOUS
      <3>1. rec'[slot[w]] = cid[w]
        BY <1>a, <2>1, <2>3, <2>4 DEF TypeOK
      <3>2. Built(w) /\ node[w] \in net \cap netRec /\ conf[node[w]] = job[w]
        BY <1>b, <2>1, <2>4 DEF Applied
      <3> QED
        BY <2>1, <3>1, <3>2 DEF Deployed, Built, Exists
    <2>6. ~errs'[w] => \A t \in Wanted(job[w]) \ todo'[w] : Deployed(job[w], t)'
      <3> SUFFICES ASSUME ~errs'[w], NEW t \in Wanted(job[w]) \ todo'[w], t # slot[w]
                   PROVE  Deployed(job[w], t)'
        BY <2>1, <2>5
      <3>1. Deployed(job[w], t) /\ t \in Slot
        BY <1>b, <2>1, <2>4 DEF Applied, Wanted
      <3> QED
        BY <2>1, <3>1 DEF Deployed
    <2> QED
      BY <1>b, <2>1, <2>2, <2>4, <2>6 DEF Applied
  <1>12. ASSUME SaveServices(w) PROVE Framed
    <2>1. /\ pc[w] = "services"
          /\ UNCHANGED <<docker, net, conf, rec, netRec, job, todo>>
      BY <1>12 DEF SaveServices, outside
    <2>2. RunningInv'
      BY <1>a, <2>1 DEF RunningInv
    <2>3. CASE Return(w, "failed")
      <3>1. pc'[w] = "failed"
        BY <1>a, <2>3, ReturnControl
      <3> QED
        BY <2>2, <3>1 DEF Applied
    <2>4. CASE /\ ServicesOf[job[w]] \subseteq svcRec'
               /\ ~errs[w] /\ Goto(w, "commit") /\ UNCHANGED <<errs, mu, node, slot>>
      <3>1. pc'[w] = "commit"
        BY <1>a, <2>4 DEF TypeOK, Goto
      <3> QED
        BY <1>b, <2>1, <2>2, <2>4, <3>1 DEF Applied, Deployed
    <2> QED
      BY <1>12, <2>3, <2>4 DEF SaveServices
  <1>13. ASSUME CommitApply(w) PROVE Framed
    <2>1. RunningInv'
      BY <1>13, <1>a DEF CommitApply, outside, RunningInv
    <2>2. pc'[w] \in {"done", "failed"}
      BY <1>13, <1>a, ReturnControl DEF CommitApply
    <2> QED
      BY <2>1, <2>2 DEF Applied
  <1> QED
    BY <1>1, <1>2, <1>3, <1>4, <1>5, <1>6, <1>7, <1>8, <1>9, <1>10, <1>11, <1>12, <1>13
       DEF ApplyStep

\* Delete: what it is through with is gone.
LEMMA DeleteProgress ==
    ASSUME IInv, NEW w \in Worker, DeleteStep(w)
    PROVE  RunningInv' /\ ProgressInv'
  <1> DEFINE Framed == RunningInv' /\ Deleted(w)' /\ pc'[w] \notin ApplyPC
  <1>a. TypeOK /\ ControlInv /\ RunningInv /\ ProgressInv
    BY DEF IInv
  <1>b. Control(w) /\ Deleted(w)
    BY <1>a DEF ControlInv, ProgressInv
  <1>c. mu = w /\ \A v \in Worker \ {w} : pc'[v] = pc[v]
    BY <1>a, DeleteControl
  <1> USE ControlStates, ApplyStates
  <1> SUFFICES Framed
    <2>1. Applied(w)' \/ pc'[w] \in ApplyPC
      BY DEF Applied
    <2> QED
      BY <1>a, <1>c, <2>1, ProgressFrame
  <1>1. ASSUME NEW n \in Node, DeleteNode(w, n) PROVE Framed
    <2>1. /\ pc[w] = "dnode" /\ pc'[w] = "dstop" /\ node'[w] = n
          /\ OnNode(todo[w], n) # {}
          /\ UNCHANGED <<docker, net, rec, netRec, svcRec, job, todo, errs>>
      BY <1>1, <1>a DEF DeleteNode, outside, redis, TypeOK, Goto
    <2> QED
      BY <1>a, <1>b, <2>1 DEF RunningInv, Deleted
  <1>2. ASSUME NEW s \in Slot, DeleteStop(w, s) PROVE Framed
    <2>1. /\ pc[w] = "dstop" /\ pc'[w] = "dremove" /\ s \in todo[w]
          /\ UNCHANGED <<net, rec, netRec, svcRec, job, todo, node>>
          /\ errs[w] => errs'[w]
      BY <1>2, <1>a DEF DeleteStop, DeleteHead, OnNode, redis, TypeOK, Goto, Note
    <2>2. /\ \A t \in Slot \ {s} : docker'[t] = docker[t]
          /\ docker'[s] = docker[s] \/ ~docker'[s].running
      BY <1>2, <1>a, StoppedOK DEF DeleteStop
    <2>3. RunningInv'
      BY <1>a, <2>1, <2>2 DEF RunningInv
    <2>4. \A t \in Wanted(job[w]) \ todo[w] : docker'[t] = docker[t]
      BY <2>1, <2>2 DEF Wanted
    <2> QED
      BY <1>b, <2>1, <2>3, <2>4 DEF Deleted
  <1>3. ASSUME DeleteRemove(w) PROVE Framed
    <2> DEFINE rest == todo[w] \ {slot[w]}
    <2>1. /\ pc[w] = "dremove" /\ pc'[w] \in {"dstop", "drecords"} /\ todo'[w] = rest
          /\ slot[w] \in Slot /\ slot[w] \in todo[w] /\ slot[w][1] = node[w]
          /\ UNCHANGED <<net, rec, netRec, svcRec, job, node>>
          /\ errs[w] => errs'[w]
      BY <1>3, <1>a, <1>b
         DEF DeleteRemove, DeleteNext, redis, TypeOK, Goto, Note, Control, OnNode
    <2>2. /\ \A t \in Slot \ {slot[w]} : docker'[t] = docker[t]
          /\ docker'[slot[w]] \in {docker[slot[w]], None}
          /\ ~errs'[w] => docker'[slot[w]] = None
      BY <1>3, <1>a, <2>1 DEF DeleteRemove, TypeOK, Note, Reply
    <2>3. RunningInv'
      BY <1>a, <2>1, <2>2 DEF RunningInv
    <2>4. ~errs'[w] => \A t \in Wanted(job[w]) \ rest : docker'[t] = None
      BY <1>b, <2>1, <2>2 DEF Deleted, Wanted
    <2>5. \A t \in Wanted(job[w]) : OnNode(rest, t[1]) = {} =>
             OnNode(todo[w], t[1]) = {} \/ t[1] = node[w]
      BY <2>1 DEF OnNode
    <2> HIDE DEF rest
    <2> QED
      BY <1>b, <2>1, <2>3, <2>4, <2>5 DEF Deleted
  <1>4. ASSUME DeleteRecords(w) PROVE Framed
    <2>1. /\ pc[w] = "drecords" /\ pc'[w] = "dnet"
          /\ UNCHANGED <<docker, net, netRec, job, todo, node>>
          /\ errs[w] => errs'[w]
      BY <1>4, <1>a DEF DeleteRecords, outside, local, TypeOK, Goto, Note
    <2>2. /\ \A t \in Slot : rec'[t] \in {None, rec[t]}
          /\ ~errs'[w] => /\ \A t \in OnNode(Wanted(job[w]), node[w]) : rec'[t] = None
                          /\ ServicesOf[job[w]] \cap svcRec' = {}
      <3>1. PICK r \in Reply, gone \in SUBSET OnNode(Wanted(job[w]), node[w]),
                 ended \in SUBSET ServicesOf[job[w]] :
               /\ r = "ok" => /\ gone = OnNode(Wanted(job[w]), node[w])
                              /\ ended = ServicesOf[job[w]]
               /\ rec' = [s \in Slot |-> IF s \in gone THEN None ELSE rec[s]]
               /\ svcRec' = svcRec \ ended
               /\ Note(w, r # "ok")
        BY <1>4, Zenon DEF DeleteRecords
      <3>2. ~errs'[w] => r = "ok"
        BY <1>a, <3>1 DEF TypeOK, Note
      <3>3. \A t \in Slot : rec'[t] = IF t \in gone THEN None ELSE rec[t]
        BY <3>1
      <3>4. OnNode(Wanted(job[w]), node[w]) \subseteq Slot
        BY DEF OnNode, Wanted
      <3> QED
        BY <3>1, <3>2, <3>3, <3>4
    <2>3. RunningInv'
      BY <1>a, <2>1 DEF RunningInv
    <2>4. ~errs'[w] => \A t \in Wanted(job[w]) : t[1] = node[w] => rec'[t] = None
      BY <2>2 DEF OnNode
    <2>5. \A t \in Wanted(job[w]) : rec[t] = None => rec'[t] = None
      BY <2>2 DEF Wanted
    <2> QED
      BY <1>b, <2>1, <2>2, <2>3, <2>4, <2>5 DEF Deleted
  <1>5. ASSUME RemoveNetwork(w) PROVE Framed
    <2>1. /\ pc[w] = "dnet" /\ pc'[w] = "dnetrec"
          /\ UNCHANGED <<docker, rec, netRec, svcRec, job, todo, node>>
          /\ errs[w] => errs'[w]
      BY <1>5, <1>a DEF RemoveNetwork, redis, local, TypeOK, Goto, Note
    <2>2. \/ net' = net
          \/ net' = net \ {node[w]} /\ Attached(node[w]) = {}
      BY <1>5 DEF RemoveNetwork
    <2>3. RunningInv'
      BY <1>a, <2>1, <2>2 DEF RunningInv, Attached, OnNode
    <2> QED
      BY <1>b, <2>1, <2>3 DEF Deleted
  <1>6. ASSUME DeleteNetworkRecord(w) PROVE Framed
    <2>1. /\ pc[w] = "dnetrec"
          /\ UNCHANGED <<docker, net, rec, svcRec, job, todo>>
          /\ netRec' \in {netRec, netRec \ {node[w]}}
      BY <1>6 DEF DeleteNetworkRecord, outside
    <2>2. RunningInv'
      BY <1>a, <2>1 DEF RunningInv
    <2>3. CASE Return(w, "failed")
      <3>1. pc'[w] = "failed"
        BY <1>a, <2>3, ReturnControl
      <3> QED
        BY <2>2, <3>1 DEF Deleted
    <2>4. CASE \/ Goto(w, "dnode") /\ (~errs'[w] => ~errs[w] /\ node[w] \notin netRec')
               \/ /\ Goto(w, "dcommit") /\ todo[w] = {}
                  /\ ~errs[w] /\ node[w] \notin netRec'
      <3>1. /\ pc'[w] \in {"dnode", "dcommit"}
            /\ ~errs'[w] \/ pc'[w] = "dcommit" => ~errs[w] /\ node[w] \notin netRec'
        BY <1>a, <2>4 DEF TypeOK, Goto
      <3> QED
        BY <1>b, <2>1, <2>2, <3>1 DEF Deleted
    <2>5. CASE Goto(w, "dnode") /\ \E r \in Reply :
                  /\ netRec' = IF r = "fail" THEN netRec ELSE netRec \ {node[w]}
                  /\ Note(w, r # "ok")
      BY <1>a, <2>4, <2>5 DEF TypeOK, Note
    <2> QED
      BY <1>6, <2>3, <2>4, <2>5 DEF DeleteNetworkRecord
  <1>7. ASSUME CommitDelete(w) PROVE Framed
    <2>1. RunningInv'
      BY <1>7, <1>a DEF CommitDelete, outside, RunningInv
    <2>2. pc'[w] \in {"done", "failed"}
      BY <1>7, <1>a, ReturnControl DEF CommitDelete
    <2> QED
      BY <2>1, <2>2 DEF Deleted
  <1> QED
    BY <1>1, <1>2, <1>3, <1>4, <1>5, <1>6, <1>7 DEF DeleteStep

\* Every step preserves the inductive invariant.
LEMMA NextProgress == IInv /\ [Next]_vars => IInv'
  <1> SUFFICES ASSUME IInv, [Next]_vars PROVE IInv'
    OBVIOUS
  <1>1. TypeOK' /\ ControlInv'
    BY NextControl DEF IInv
  <1>2. CASE UNCHANGED vars
    <2>1. RunningInv'
      BY <1>2 DEF IInv, RunningInv, vars
    <2>2. ASSUME NEW w \in Worker PROVE Applied(w)' /\ Deleted(w)'
      <3>1. Applied(w) /\ Deleted(w)
        BY DEF IInv, ProgressInv
      <3> QED
        BY <1>2, <3>1 DEF vars, Applied, Deleted, Deployed, Built, Exists
    <2> QED
      BY <1>1, <2>1, <2>2 DEF IInv, ProgressInv
  <1>3. ASSUME NEW w \in Worker, Request(w) \/ EngineStep(w) PROVE RunningInv' /\ ProgressInv'
    BY <1>3, RequestProgress, LockProgress, ApplyProgress, DeleteProgress DEF EngineStep
  <1>4. ASSUME Outside PROVE RunningInv' /\ ProgressInv'
    BY <1>4, OutsideProgress
  <1> QED
    BY <1>1, <1>2, <1>3, <1>4 DEF Next, IInv

\* The inductive invariant holds at the start.
LEMMA InitIInv == Init => IInv
  BY InitControl, InitProgress DEF IInv

\* Whatever fails, exits, is retried or crashes in between: an Apply that gets
\* past its error check has deployed all of its manifest.
THEOREM ApplyIsSound == Spec => []ApplySound
  <1>1. IInv => ApplySound
    <2> SUFFICES ASSUME IInv, NEW w \in Worker, pc[w] = "commit"
                 PROVE  /\ \A s \in Wanted(job[w]) : Deployed(job[w], s)
                        /\ ServicesOf[job[w]] \subseteq svcRec
      BY DEF ApplySound
    <2>1. Control(w) /\ Applied(w)
      BY DEF IInv, ControlInv, ProgressInv
    <2> QED
      BY <2>1, ApplyStates DEF Control, Applied
  <1> QED
    BY <1>1, InitIInv, NextProgress, PTL DEF Spec

\* A Delete that gets past its error check has left nothing of its manifest's
\* containers and records.
THEOREM DeleteIsSound == Spec => []DeleteSound
  <1>1. IInv => DeleteSound
    <2> SUFFICES ASSUME IInv, NEW w \in Worker, pc[w] = "dcommit"
                 PROVE  /\ \A s \in Wanted(job[w]) :
                              docker[s] = None /\ rec[s] = None /\ s[1] \notin netRec
                        /\ ServicesOf[job[w]] \cap svcRec = {}
      BY DEF DeleteSound
    <2>1. Control(w) /\ Deleted(w)
      BY DEF IInv, ControlInv, ProgressInv
    <2>2. todo[w] = {} /\ ~errs[w]
      BY <2>1 DEF Control
    <2>3. \A s \in Wanted(job[w]) : OnNode(todo[w], s[1]) = {}
      BY <2>2 DEF OnNode
    <2> QED
      BY <2>1, <2>2, <2>3, ApplyStates DEF Deleted
  <1> QED
    BY <1>1, InitIInv, NextProgress, PTL DEF Spec

\* Apply creates and starts a container after those it depends on.
THEOREM StartIsOrdered == Spec => []StartOrder
  <1>1. IInv => StartOrder
    <2> SUFFICES ASSUME IInv, NEW w \in Worker, pc[w] \in {"create", "start"}, ~errs[w],
                        NEW s \in OnNode(Wanted(job[w]), node[w]),
                        ApplyRank(s) < ApplyRank(slot[w])
                 PROVE  Deployed(job[w], s)
      BY DEF StartOrder
    <2>1. Control(w) /\ Applied(w)
      BY DEF IInv, ControlInv, ProgressInv
    <2>2. s \notin OnNode(todo[w], node[w])
      BY <2>1, ControlStates DEF Control, ApplyRank
    <2>3. s \in Wanted(job[w]) /\ s \notin todo[w]
      BY <2>2 DEF OnNode
    <2> QED
      BY <2>1, <2>3, ApplyStates DEF Applied
  <1> QED
    BY <1>1, InitIInv, NextProgress, PTL DEF Spec
=============================================================================
