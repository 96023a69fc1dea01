---------------------------- MODULE Daemon_proofs ----------------------------
(***************************************************************************)
(* Proofs about Daemon: it implements Engine and DesiredState, and the     *)
(* reconciler starts nothing once the desired state is cleared.            *)
(***************************************************************************)
EXTENDS Daemon, Engine_proofs

\* What Reconciler.Run holds: a pass works on the desired manifest.
PassInv ==
    /\ rpc \in {"load", "pass", "start"} => rman \in Manifest
    /\ InPass => rman = desired
    /\ rpc = "start" => rslot \in Slot

\* A handler that is about to apply has a manifest.
HandlerInv == \A w \in Worker : hpc[w] = "apply" => hman[w] \in Manifest

DInv == DaemonTypeOK /\ ControlInv /\ PassInv /\ HandlerInv

\* The state that Daemon adds to Engine's.
DaemonTypes ==
    /\ desired \in Manifest \cup {None}
    /\ rpc \in {"boot", "load", "wait", "pass", "start"}
    /\ rman \in Manifest \cup {None}
    /\ rtodo \in SUBSET Slot
    /\ rslot \in Slot \cup {None}
    /\ rid \in Id \cup {None}
    /\ hpc \in [Worker -> HandlerPC]
    /\ hman \in [Worker -> Manifest \cup {None}]
    /\ misses \in Nat

\* The invariant, apart from what Engine says of its own state.
OwnInv == DaemonTypes /\ PassInv /\ HandlerInv

LEMMA DInvParts == DInv <=> TypeOK /\ ControlInv /\ OwnInv
  BY DEF DInv, DaemonTypeOK, OwnInv, DaemonTypes

-----------------------------------------------------------------------------
(* Every step of the daemon is one of the engine, or none. *)

LEMMA DaemonStepIsEngineStep ==
    ASSUME DInv, [DaemonNext]_allVars
    PROVE  [Next]_vars
  <1>1. CASE UNCHANGED allVars
    BY <1>1 DEF allVars
  <1>2. ASSUME NEW w \in Worker, HandlerRequest(w) PROVE [Next]_vars
    <2>1. CASE \E m \in Manifest : HandleApply(w, m)
      BY <2>1 DEF HandleApply, Next, Request
    <2>2. CASE \E m \in Manifest \cup {None} : HandleDelete(w, m)
      BY <2>2 DEF HandleDelete
    <2> QED
      BY <1>2, <2>1, <2>2 DEF HandlerRequest
  <1>3. ASSUME NEW w \in Worker, HandlerStep(w) PROVE [Next]_vars
    <2>1. CASE HandlerApplies(w)
      BY <2>1 DEF HandlerApplies, DInv, HandlerInv, Next, Request
    <2>2. CASE HandlerDeletes(w)
      BY <2>2 DEF HandlerDeletes, DInv, DaemonTypeOK, Next, Request
    <2>3. CASE HandlerApplied(w) \/ HandlerDeleted(w)
      BY <2>3 DEF HandlerApplied, HandlerDeleted, Next, Request
    <2>4. CASE \/ HandlerReads(w) \/ HandlerSets(w) \/ HandlerClears(w) \/ HandlerPanics(w)
      BY <2>4 DEF HandlerReads, HandlerSets, HandlerClears, HandlerPanics, vars, outside,
                  redis, local, counters
    <2> QED
      BY <1>3, <2>1, <2>2, <2>3, <2>4 DEF HandlerStep
  <1>4. ASSUME NEW w \in Worker, EngineStep(w) PROVE [Next]_vars
    BY <1>4 DEF Next
  <1>5. ASSUME ReconcilerStep PROVE [Next]_vars
    <2>1. CASE PassStart
      <3>1. rslot \in Slot
        BY <2>1 DEF PassStart, DInv, PassInv
      <3>2. CASE docker' = docker
        BY <2>1, <3>2 DEF PassStart, vars, redis, local, counters
      <3>3. CASE /\ Exists(rslot, rid) /\ ~docker[rslot].running /\ rslot[1] \in net
                 /\ docker' = Started(rslot)
        <4>1. StartStopped(rslot)
          BY <2>1, <3>3 DEF PassStart, StartStopped, Exists
        <4> QED
          BY <3>1, <4>1 DEF Next, Outside
      <3> QED
        BY <2>1, <3>2, <3>3 DEF PassStart
    <2>2. CASE Load \/ AdoptLoaded \/ BeginPass \/ \E s \in Slot : PassInspect(s)
      BY <2>2 DEF Load, AdoptLoaded, BeginPass, PassInspect, vars, outside, redis, local,
                  counters
    <2> QED
      BY <1>5, <2>1, <2>2 DEF ReconcilerStep
  <1>6. ASSUME NEW s \in Slot, ContainerExit(s) PROVE [Next]_vars
    BY <1>6 DEF Next, Outside
  <1>7. ASSUME DaemonRestart PROVE [Next]_vars
    BY <1>7 DEF DaemonRestart, Next, Outside
  <1> QED
    BY <1>1, <1>2, <1>3, <1>4, <1>5, <1>6, <1>7 DEF DaemonNext

-----------------------------------------------------------------------------
(* The invariant. *)

\* What the reconciler does keeps the invariant: it changes the desired manifest
\* before its first pass only.
LEMMA ReconcilerOwn ==
    ASSUME DInv, ReconcilerStep
    PROVE  OwnInv'
  <1>a. TypeOK /\ DaemonTypes /\ PassInv /\ HandlerInv
    BY DInvParts DEF OwnInv
  <1>1. ASSUME NEW s \in Slot, EndTurn(s), InPass,
               UNCHANGED <<desired, handlers>>, misses' \in Nat
        PROVE  OwnInv'
    <2>1. DaemonTypes'
      BY <1>1, <1>a, NoneFacts DEF EndTurn, DaemonTypes, handlers
    <2>2. PassInv'
      BY <1>1, <1>a DEF EndTurn, PassInv, InPass
    <2> QED
      BY <1>1, <1>a, <2>1, <2>2 DEF OwnInv, HandlerInv, handlers
  <1>b. ASSUME NEW r, Try(r) PROVE misses' \in Nat
    BY <1>a, <1>b DEF Try, DaemonTypes
  <1>2. CASE Load
    <2>1. /\ misses' \in Nat /\ UNCHANGED <<desired, rtodo, rslot, rid, handlers>>
          /\ \/ stored # None /\ rman' = stored /\ rpc' = "load"
             \/ rpc' = "wait" /\ rman' = rman
      BY <1>2, <1>b DEF Load
    <2> QED
      BY <1>a, <2>1 DEF OwnInv, DaemonTypes, PassInv, HandlerInv, InPass, handlers, TypeOK
  <1>3. CASE AdoptLoaded
    BY <1>3, <1>a DEF AdoptLoaded, OwnInv, DaemonTypes, PassInv, HandlerInv, InPass, handlers
  <1>4. CASE BeginPass
    <2>1. Wanted(desired) \subseteq Slot
      BY DEF Wanted
    <2> QED
      BY <1>4, <1>a, <2>1
         DEF BeginPass, OwnInv, DaemonTypes, PassInv, HandlerInv, InPass, handlers
  <1>5. ASSUME NEW s \in Slot, PassInspect(s) PROVE OwnInv'
    <2>1. misses' \in Nat /\ InPass /\ UNCHANGED <<desired, handlers>>
      BY <1>5, <1>b DEF PassInspect, InPass
    <2>2. CASE EndTurn(s)
      BY <1>1, <2>1, <2>2
    <2>3. CASE /\ docker[s] # None /\ rid' = docker[s].id
               /\ rslot' = s
               /\ rpc' = "start"
               /\ UNCHANGED <<rman, rtodo>>
      <3>1. docker[s].id \in Id
        BY <1>a, <2>3 DEF TypeOK, Container
      <3> QED
        BY <1>a, <2>1, <2>3, <3>1
           DEF OwnInv, DaemonTypes, PassInv, HandlerInv, InPass, handlers
    <2> QED
      BY <1>5, <2>2, <2>3 DEF PassInspect
  <1>6. CASE PassStart
    BY <1>1, <1>6, <1>a, <1>b DEF PassStart, PassInv, InPass
  <1> QED
    BY <1>2, <1>3, <1>4, <1>5, <1>6 DEF ReconcilerStep

\* What a handler does keeps the invariant: it waits for the end of the pass.
LEMMA HandlerOwn ==
    ASSUME DInv, NEW w \in Worker, HandlerRequest(w) \/ HandlerStep(w)
    PROVE  OwnInv'
  <1>a. TypeOK /\ DaemonTypes /\ PassInv /\ HandlerInv
    BY DInvParts DEF OwnInv
  <1>1. ASSUME UNCHANGED <<desired, reconciler, handlers>>, misses' \in Nat
        PROVE  OwnInv'
    BY <1>1, <1>a DEF OwnInv, DaemonTypes, PassInv, HandlerInv, InPass, reconciler, handlers
  <1>8. ASSUME UNCHANGED <<desired, reconciler>>, misses' \in Nat,
               hpc' \in [Worker -> HandlerPC], hman' \in [Worker -> Manifest \cup {None}],
               \A v \in Worker \ {w} : hpc'[v] = hpc[v] /\ hman'[v] = hman[v],
               hpc'[w] = "apply" => hman'[w] \in Manifest
        PROVE  OwnInv'
    BY <1>8, <1>a DEF OwnInv, DaemonTypes, PassInv, HandlerInv, InPass, reconciler
  <1> USE DEF DaemonTypes, HGoto, HandlerPC
  <1>2. CASE \E m \in Manifest : HandleApply(w, m)
    <2>1. PICK m \in Manifest : HandleApply(w, m)
      BY <1>2
    <2>2. UNCHANGED <<desired, reconciler, misses>>
      BY <2>1 DEF HandleApply
    <2>3. CASE UNCHANGED handlers
      BY <1>1, <1>a, <2>2, <2>3
    <2>4. CASE HGoto(w, "apply") /\ hman' = [hman EXCEPT ![w] = m]
      BY <1>8, <1>a, <2>2, <2>4
    <2> QED
      BY <2>1, <2>3, <2>4 DEF HandleApply
  <1>3. CASE \E m \in Manifest \cup {None} : HandleDelete(w, m)
    BY <1>8, <1>3, <1>a DEF HandleDelete
  <1>4. CASE HandlerApplies(w) \/ HandlerApplied(w)
    BY <1>8, <1>4, <1>a DEF HandlerApplies, HandlerApplied
  <1>5. CASE HandlerDeletes(w) \/ HandlerDeleted(w) \/ HandlerPanics(w)
    BY <1>8, <1>5, <1>a DEF HandlerDeletes, HandlerDeleted, HandlerPanics
  <1>6. CASE HandlerReads(w)
    <2>1. PICK r \in {"ok", "fail"} :
             /\ Try(r)
             /\ \/ stored # None /\ hpc' = [hpc EXCEPT ![w] = "set"]
                   /\ hman' = [hman EXCEPT ![w] = stored]
                \/ hpc' = [hpc EXCEPT ![w] = "none"] /\ hman' = hman
      BY <1>6 DEF HandlerReads
    <2>2. misses' \in Nat
      BY <1>a, <2>1 DEF Try
    <2>3. UNCHANGED <<desired, reconciler>> /\ stored \in Manifest \cup {None}
      BY <1>6, <1>a DEF HandlerReads, TypeOK
    <2> QED
      BY <1>8, <1>a, <2>1, <2>2, <2>3
  <1>7. CASE HandlerSets(w) \/ HandlerClears(w)
    BY <1>7, <1>a DEF HandlerSets, HandlerClears, SetDesiredState, OwnInv, PassInv,
                      HandlerInv, InPass, reconciler
  <1> QED
    BY <1>2, <1>3, <1>4, <1>5, <1>6, <1>7 DEF HandlerRequest, HandlerStep

\* Every step of the daemon keeps the invariant.
LEMMA DaemonNextInv == DInv /\ [DaemonNext]_allVars => DInv'
  <1> SUFFICES ASSUME DInv, [DaemonNext]_allVars PROVE DInv'
    OBVIOUS
  <1>1. TypeOK' /\ ControlInv'
    BY DInvParts, DaemonStepIsEngineStep, NextControl
  <1>2. DaemonTypes /\ PassInv /\ HandlerInv
    BY DInvParts DEF OwnInv
  <1>3. ASSUME UNCHANGED daemonVars PROVE OwnInv'
    BY <1>2, <1>3 DEF daemonVars, reconciler, handlers, OwnInv, DaemonTypes, PassInv,
                      HandlerInv, InPass
  <1>4. ASSUME DaemonRestart PROVE OwnInv'
    BY <1>2, <1>4 DEF DaemonRestart, OwnInv, DaemonTypes, PassInv, HandlerInv, InPass,
                      HandlerPC
  <1>5. OwnInv'
    BY <1>3, <1>4, ReconcilerOwn, HandlerOwn DEF DaemonNext, allVars
  <1> QED
    BY <1>1, <1>5, DInvParts DEF DInv, DaemonTypeOK, OwnInv, DaemonTypes

\* The invariant holds at the start.
LEMMA InitDInv == DaemonInit => DInv
  <1>1. DaemonInit => TypeOK /\ ControlInv
    BY InitControl DEF DaemonInit
  <1>2. DaemonInit => OwnInv
    BY DEF DaemonInit, ReconcilerInit, OwnInv, DaemonTypes, PassInv, HandlerInv, InPass,
           HandlerPC
  <1> QED
    BY <1>1, <1>2, DInvParts

\* Type correctness of the daemon.
THEOREM DaemonTypeCorrect == DaemonSpec => []DaemonTypeOK
  <1>1. DInv => DaemonTypeOK
    BY DEF DInv
  <1> QED
    BY <1>1, InitDInv, DaemonNextInv, PTL DEF DaemonSpec

\* The daemon implements the engine: whatever the web server's handlers and the
\* reconciler do, Docker and Redis see the steps that Engine allows.
THEOREM DaemonImplementsEngine == DaemonSpec => EngineSpec
  <1>1. DaemonInit => Init
    BY DEF DaemonInit
  <1>2. DInv /\ [DaemonNext]_allVars => [Next]_vars
    BY DaemonStepIsEngineStep
  <1> QED
    BY <1>1, <1>2, InitDInv, DaemonNextInv, PTL DEF DaemonSpec, EngineSpec, Spec

\* What Apply and Delete promise therefore holds in the daemon too, whatever the
\* reconciler starts between their calls.
THEOREM DaemonKeepsPromises == DaemonSpec => [](ApplySound /\ DeleteSound /\ StartOrder)
  BY DaemonImplementsEngine, ApplyIsSound, DeleteIsSound, StartIsOrdered, PTL DEF EngineSpec

\* Reconciler.mu implements the register of DesiredState.  Run's adoption of the
\* loaded manifest, which takes no lock, comes before its first pass.
THEOREM DaemonImplementsRegister == DaemonSpec => RegisterSpec
  <1>1. DaemonInit => Register!Init
    BY DEF DaemonInit, ReconcilerInit, Register!Init, InPass
  <1>2. ASSUME DInv, [DaemonNext]_allVars
        PROVE  [Register!Next]_<<desired, IF InPass THEN rman ELSE None>>
    <2>a. DaemonTypes /\ PassInv /\ HandlerInv
      BY <1>2, DInvParts DEF OwnInv
    <2> USE <2>a DEF InPass
    <2>b. ASSUME UNCHANGED <<desired, rpc, rman>>
          PROVE  UNCHANGED <<desired, IF InPass THEN rman ELSE None>>
      BY <2>b
    <2>c. ASSUME NEW m \in Manifest \cup {None}, SetDesiredState(m), UNCHANGED <<rpc, rman>>
          PROVE  Register!Next
      BY <2>c DEF SetDesiredState, Register!Next, Register!SetDesiredState
    <2>d. ASSUME NEW s, InPass, EndTurn(s), UNCHANGED desired
          PROVE  [Register!Next]_<<desired, IF InPass THEN rman ELSE None>>
      BY <2>d DEF EndTurn, Register!Next, Register!EndPass
    <2>1. ASSUME NEW w \in Worker, HandlerRequest(w) \/ HandlerStep(w)
          PROVE  [Register!Next]_<<desired, IF InPass THEN rman ELSE None>>
      <3>1. CASE HandlerSets(w) \/ HandlerClears(w)
        BY <2>c, <3>1 DEF HandlerSets, HandlerClears, reconciler, DaemonTypes
      <3>2. CASE ~(HandlerSets(w) \/ HandlerClears(w))
        <4>1. UNCHANGED <<desired, reconciler>>
          BY <2>1, <3>2 DEF HandlerRequest, HandleApply, HandleDelete, HandlerStep,
                HandlerApplies, HandlerApplied, HandlerReads, HandlerDeletes,
                HandlerDeleted, HandlerPanics
        <4> QED
          BY <2>b, <4>1 DEF reconciler
      <3> QED
        BY <3>1, <3>2
    <2>2. ASSUME ReconcilerStep
          PROVE  [Register!Next]_<<desired, IF InPass THEN rman ELSE None>>
      <3>1. CASE Load
        BY <3>1 DEF Load
      <3>2. CASE AdoptLoaded
        BY <3>2 DEF AdoptLoaded, PassInv, Register!Next, Register!SetDesiredState
      <3>3. CASE BeginPass
        BY <3>3 DEF BeginPass, Register!Next, Register!BeginPass
      <3>4. ASSUME NEW s \in Slot, PassInspect(s)
            PROVE  [Register!Next]_<<desired, IF InPass THEN rman ELSE None>>
        <4>1. CASE EndTurn(s)
          BY <2>d, <3>4, <4>1 DEF PassInspect
        <4>2. CASE rpc' = "start" /\ UNCHANGED rman
          BY <3>4, <4>2 DEF PassInspect
        <4> QED
          BY <3>4, <4>1, <4>2 DEF PassInspect
      <3>5. CASE PassStart
        BY <2>d, <3>5 DEF PassStart
      <3> QED
        BY <2>2, <3>1, <3>2, <3>3, <3>4, <3>5 DEF ReconcilerStep
    <2>3. ASSUME DaemonRestart PROVE Register!Next
      BY <2>3 DEF DaemonRestart, Register!Next, Register!Restart
    <2>4. CASE UNCHANGED daemonVars \/ UNCHANGED allVars
      BY <2>b, <2>4 DEF daemonVars, allVars, reconciler
    <2> QED
      BY <1>2, <2>1, <2>2, <2>3, <2>4 DEF DaemonNext
  <1> QED
    BY <1>1, <1>2, InitDInv, DaemonNextInv, PTL DEF DaemonSpec, RegisterSpec, Register!Spec

-----------------------------------------------------------------------------
(* Who starts containers. *)

\* Of the engine's calls only StartContainer sets a container running.
LEMMA EngineStarts ==
    ASSUME TypeOK, ControlInv, NEW w \in Worker, EngineStep(w), NEW s \in Slot,
           docker[s] # None, ~docker[s].running, docker'[s] # None, docker'[s].running
    PROVE  pc[w] = "start"
  <1>1. ASSUME NEW t \in Slot, docker[t] # None, docker' = Stopped(t) PROVE FALSE
    BY <1>1, StoppedOK
  <1>2. ASSUME NEW t \in Slot, docker' = [docker EXCEPT ![t] = None] PROVE FALSE
    BY <1>2 DEF TypeOK
  <1>3. docker' # docker
    OBVIOUS
  <1>4. pc[w] \in SlotPC => slot[w] \in Slot
    BY DEF ControlInv, Control, OnNode, TypeOK
  <1> USE ControlStates
  <1>5. CASE StopContainer(w) \/ RemoveContainer(w)
    BY <1>1, <1>2, <1>3, <1>4, <1>5 DEF StopContainer, RemoveContainer, Exists
  <1>6. CASE CreateContainer(w)
    <2>1. docker[slot[w]] = None /\ \E c : docker' = [docker EXCEPT ![slot[w]] = c]
      BY <1>3, <1>6 DEF CreateContainer
    <2> QED
      BY <1>4, <2>1 DEF TypeOK
  <1>7. CASE StartContainer(w)
    BY <1>7 DEF StartContainer
  <1>8. CASE (\E t \in Slot : DeleteStop(w, t)) \/ DeleteRemove(w)
    BY <1>1, <1>2, <1>3, <1>4, <1>8 DEF DeleteStop, DeleteRemove
  <1> QED
    BY <1>3, <1>5, <1>6, <1>7, <1>8
       DEF EngineStep, Lock, ApplyStep, EnsureNetwork, Inspect, SaveNetwork, WriteFiles,
           Compare, GetContainerState, SaveContainer, SaveServices, CommitApply, DeleteStep,
           DeleteNode, DeleteRecords, RemoveNetwork, DeleteNetworkRecord, CommitDelete, outside

\* Once the desired state is cleared, the reconciler starts nothing.
THEOREM ClearedStaysStopped == DaemonSpec => NoStartOnceCleared
  <1> DEFINE A == \A s \in Slot :
          docker[s] # None /\ ~docker[s].running /\ docker'[s] # None
             /\ docker'[s].running
          => desired # None \/ \E w \in Worker : pc[w] = "start"
  <1>1. ASSUME DInv, [DaemonNext]_allVars PROVE [A]_allVars
    <2> SUFFICES ASSUME DaemonNext, NEW s \in Slot,
                        docker[s] # None, ~docker[s].running,
                        docker'[s] # None, docker'[s].running
                 PROVE  desired # None \/ \E w \in Worker : pc[w] = "start"
      BY <1>1
    <2>a. TypeOK /\ ControlInv /\ PassInv
      BY <1>1 DEF DInv, DaemonTypeOK
    <2>b. docker' # docker
      OBVIOUS
    <2>1. CASE \E w \in Worker : EngineStep(w)
      BY <2>a, <2>1, EngineStarts
    <2>2. CASE ReconcilerStep
      <3>1. PassStart
        BY <2>b, <2>2 DEF ReconcilerStep, Load, AdoptLoaded, BeginPass, PassInspect, outside,
                          vars
      <3> QED
        BY <2>a, <3>1, NoneFacts DEF PassStart, PassInv, InPass
    <2>3. CASE \E w \in Worker : HandlerRequest(w) \/ HandlerStep(w)
      <3>1. docker' = docker
        BY <2>3 DEF HandlerRequest, HandleApply, HandleDelete, HandlerStep, HandlerApplies,
              HandlerApplied, HandlerReads, HandlerSets, HandlerClears, HandlerDeletes,
              HandlerDeleted, HandlerPanics, SaveManifestFromFile, CallApply, CallDelete,
              Done, outside, vars
      <3> QED
        BY <2>b, <3>1
    <2>4. CASE \E t \in Slot : ContainerExit(t)
      BY <2>a, <2>4, StoppedOK DEF ContainerExit
    <2>5. CASE DaemonRestart
      BY <2>b, <2>5 DEF DaemonRestart, Kill, FreshProcess, outside
    <2> QED
      BY <2>1, <2>2, <2>3, <2>4, <2>5 DEF DaemonNext
  <1> QED
    BY <1>1, InitDInv, DaemonNextInv, PTL DEF DaemonSpec, NoStartOnceCleared
=============================================================================
