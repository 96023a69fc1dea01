------------------------------- MODULE Daemon -------------------------------
(***************************************************************************)
(* "klite daemon": the web server's handlers and the reconciler around one *)
(* engine.  Reconciler.mu is a read-write lock: a pass holds it for        *)
(* reading from its first container to its last, SetDesiredState for       *)
(* writing.  The reconciler talks to Docker without holding Engine.mu.     *)
(* main starts the web server before Reconciler.Run, so a request may      *)
(* arrive while Run is still loading the persisted manifest.               *)
(***************************************************************************)
EXTENDS Engine

CONSTANT MaxMisses  \* bound on misses

ASSUME MissesAssumption == MaxMisses \in Nat

VARIABLES
    desired,  \* Reconciler.desiredState
    rpc,      \* where Reconciler.Run is
    rman,     \* the manifest Run loaded, or the one the pass works on
    rtodo,    \* slots the pass has not looked at
    rslot,    \* loop variables of the pass
    rid,      \* existing.ID
    hpc,      \* worker -> where its HTTP handler is
    hman,     \* worker -> the handler's manifest
    misses    \* calls of the reconciler and of the handlers that failed so far

reconciler == <<rpc, rman, rtodo, rslot, rid>>
handlers == <<hpc, hman>>
daemonVars == <<desired, reconciler, handlers, misses>>
allVars == <<vars, daemonVars>>

InPass == rpc \in {"pass", "start"}

HandlerPC == {"none", "apply", "applying", "read", "set",
              "clear", "delete", "deleting"}

DaemonTypeOK ==
    /\ TypeOK
    /\ desired \in Manifest \cup {None}
    /\ rpc \in {"boot", "load", "wait", "pass", "start"}
    /\ rman \in Manifest \cup {None}
    /\ rtodo \in SUBSET Slot
    /\ rslot \in Slot \cup {None}
    /\ rid \in Id \cup {None}
    /\ hpc \in [Worker -> HandlerPC]
    /\ hman \in [Worker -> Manifest \cup {None}]
    /\ misses \in Nat

ReconcilerInit ==
    /\ desired = None
    /\ rpc = "boot" /\ rman = None
    /\ rtodo = {} /\ rslot = None /\ rid = None
    /\ hpc = [w \in Worker |-> "none"]
    /\ hman = [w \in Worker |-> None]
    /\ misses = 0

DaemonInit == Init /\ ReconcilerInit

\* A call to Docker or Redis from outside the engine.
Try(r) == IF r \in {"ok", "refused"} THEN UNCHANGED misses
          ELSE misses < MaxMisses /\ misses' = misses + 1

-----------------------------------------------------------------------------
(* Reconciler.Run *)

\* GetPersistedManifest; on an error Run goes on without a manifest.
Load ==
    /\ rpc = "boot"
    /\ \E r \in {"ok", "fail"} :
          /\ Try(r)
          /\ IF r = "ok" /\ stored # None
             THEN rman' = stored /\ rpc' = "load"
             ELSE rpc' = "wait" /\ UNCHANGED rman
    /\ UNCHANGED <<outside, redis, netCache, mu, pc, job, local, errs, faults,
                   counters, desired, rtodo, rslot, rid, handlers>>

\* r.desiredState = manifest, without r.mu
AdoptLoaded ==
    /\ rpc = "load"
    /\ desired' = rman
    /\ rman' = None
    /\ rpc' = "wait"
    /\ UNCHANGED <<vars, rtodo, rslot, rid, handlers, misses>>

\* Mutant of BeginPass: the expected containers lack nginx-proxy.
BeginPassNoProxy ==
    /\ rpc = "wait"
    /\ desired # None
    /\ rman' = desired
    /\ rtodo' = {s \in Wanted(desired) : s[2] # NginxProxy}
    /\ rpc' = "pass"
    /\ UNCHANGED <<vars, desired, rslot, rid, handlers, misses>>

\* The first pass, or a tick: reconcile takes r.mu for reading.
BeginPass ==
    /\ rpc = "wait"
    /\ desired # None
    /\ rman' = desired
    /\ rtodo' = Wanted(desired)
    /\ rpc' = "pass"
    /\ UNCHANGED <<vars, desired, rslot, rid, handlers, misses>>

\* Mutant of EndTurn: the next pass begins without r.mu released in between.
EndTurnLocked(s) ==
    LET rest == rtodo \ {s}
    IN  /\ rtodo' = IF rest = {} THEN Wanted(rman) ELSE rest
        /\ rid' = None
        /\ rpc' = "pass" /\ rslot' = s /\ UNCHANGED rman

\* On to the next container; the end of the pass releases r.mu.
EndTurn(s) ==
    LET rest == rtodo \ {s}
    IN  /\ rtodo' = rest
        /\ rid' = None
        /\ IF rest = {} THEN rpc' = "wait" /\ rman' = None /\ rslot' = None
                        ELSE rpc' = "pass" /\ rslot' = s /\ UNCHANGED rman

\* Node after node; dnsmasq, nginx-proxy, then the user containers.
PassHead ==
    LET on == IF rslot = None THEN {} ELSE OnNode(rtodo, rslot[1])
        from == IF on = {} THEN rtodo ELSE on
    IN  {s \in from : \A t \in OnNode(from, s[1]) : DeleteRank(s) <= DeleteRank(t)}

\* GetContainerByName: a running container is left alone; so is a missing one,
\* and one that could not be inspected.
PassInspect(s) ==
    /\ rpc = "pass"
    /\ s \in PassHead
    /\ \E r \in {"ok", "fail"} :
          /\ Try(r)
          /\ IF r = "ok" /\ docker[s] # None /\ ~docker[s].running
             THEN /\ rid' = docker[s].id
                  /\ rslot' = s
                  /\ rpc' = "start"
                  /\ UNCHANGED <<rman, rtodo>>
             ELSE EndTurn(s)
    /\ UNCHANGED <<outside, redis, netCache, mu, pc, job, local, errs, faults,
                   counters, desired, handlers>>

\* Mutant of PassStart: the container is restarted, even one that runs.
PassRestart ==
    /\ rpc = "start"
    /\ \E r \in Reply \cup Refusal(rslot \in RefusedSlots) :
          LET able == Exists(rslot, rid) /\ rslot[1] \in net
          IN  /\ Try(r)
              /\ docker' = IF Effect(r) /\ able THEN Started(rslot) ELSE docker
    /\ EndTurn(rslot)
    /\ UNCHANGED <<net, conf, redis, netCache, mu, pc, job, local, errs, faults,
                   counters, desired, handlers>>

\* StartContainer by ID; Docker does nothing to a container that runs already, and
\* may refuse one whose host port is taken.
PassStart ==
    /\ rpc = "start"
    /\ \E r \in Reply \cup Refusal(rslot \in RefusedSlots) :
          LET able == Exists(rslot, rid) /\ ~docker[rslot].running /\ rslot[1] \in net
          IN  /\ Try(r)
              /\ docker' = IF Effect(r) /\ able THEN Started(rslot) ELSE docker
    /\ EndTurn(rslot)
    /\ UNCHANGED <<net, conf, redis, netCache, mu, pc, job, local, errs, faults,
                   counters, desired, handlers>>

ReconcilerStep == Load \/ AdoptLoaded \/ BeginPass \/ PassStart
                  \/ \E s \in Slot : PassInspect(s)

-----------------------------------------------------------------------------
(* web.Server *)

\* Mutant of SetDesiredState: it does not take r.mu.
SetUnlocked(m) == desired' = m

\* SetDesiredState waits for r.mu.
SetDesiredState(m) == ~InPass /\ desired' = m

HGoto(w, p) == hpc' = [hpc EXCEPT ![w] = p]

\* handleApply stores the uploaded manifest before anything else.
HandleApply(w, m) ==
    /\ hpc[w] = "none" /\ pc[w] = "idle"
    /\ \E r \in Reply :
          /\ SaveManifestFromFile(w, m, r)
          /\ IF r = "ok" THEN HGoto(w, "apply") /\ hman' = [hman EXCEPT ![w] = m]
                         ELSE UNCHANGED handlers
    /\ UNCHANGED <<desired, reconciler, misses>>

HandlerApplies(w) ==
    /\ hpc[w] = "apply"
    /\ CallApply(w, hman[w])
    /\ HGoto(w, "applying")
    /\ UNCHANGED <<hman, desired, reconciler, misses>>

\* A failed Apply ends the request and leaves the desired state as it was.
HandlerApplied(w) ==
    /\ hpc[w] = "applying"
    /\ Done(w)
    /\ HGoto(w, IF pc[w] = "done" THEN "read" ELSE "none")
    /\ hman' = [hman EXCEPT ![w] = None]
    /\ UNCHANGED <<desired, reconciler, misses>>

\* GetPersistedManifest, which may be another request's by now.
HandlerReads(w) ==
    /\ hpc[w] = "read"
    /\ \E r \in {"ok", "fail"} :
          /\ Try(r)
          /\ IF r = "ok" /\ stored # None
             THEN HGoto(w, "set") /\ hman' = [hman EXCEPT ![w] = stored]
             ELSE HGoto(w, "none") /\ UNCHANGED hman
    /\ UNCHANGED <<outside, redis, netCache, mu, pc, job, local, errs, faults,
                   counters, desired, reconciler>>

HandlerSets(w) ==
    /\ hpc[w] = "set"
    /\ SetDesiredState(hman[w])
    /\ HGoto(w, "none")
    /\ hman' = [hman EXCEPT ![w] = None]
    /\ UNCHANGED <<vars, reconciler, misses>>

\* m is None when the upload does not parse: handleDelete reports it and goes on.
HandleDelete(w, m) ==
    /\ hpc[w] = "none" /\ pc[w] = "idle"
    /\ HGoto(w, "clear")
    /\ hman' = [hman EXCEPT ![w] = m]
    /\ UNCHANGED <<vars, desired, reconciler, misses>>

\* The desired state is cleared before the engine deletes anything.
HandlerClears(w) ==
    /\ hpc[w] = "clear"
    /\ SetDesiredState(None)
    /\ HGoto(w, "delete")
    /\ UNCHANGED <<vars, hman, reconciler, misses>>

HandlerDeletes(w) ==
    /\ hpc[w] = "delete" /\ hman[w] # None
    /\ CallDelete(w, hman[w])
    /\ HGoto(w, "deleting")
    /\ UNCHANGED <<hman, desired, reconciler, misses>>

\* Delete of the nil manifest panics once it has e.mu; the deferred Unlock runs
\* and net/http ends the request.
HandlerPanics(w) ==
    /\ hpc[w] = "delete" /\ hman[w] = None
    /\ mu = None
    /\ HGoto(w, "none")
    /\ UNCHANGED <<vars, hman, desired, reconciler, misses>>

HandlerDeleted(w) ==
    /\ hpc[w] = "deleting"
    /\ Done(w)
    /\ HGoto(w, "none")
    /\ hman' = [hman EXCEPT ![w] = None]
    /\ UNCHANGED <<desired, reconciler, misses>>

HandlerStep(w) ==
    \/ HandlerApplies(w) \/ HandlerApplied(w) \/ HandlerReads(w) \/ HandlerSets(w)
    \/ HandlerClears(w) \/ HandlerDeletes(w) \/ HandlerDeleted(w)
    \/ HandlerPanics(w)

HandlerRequest(w) ==
    \/ \E m \in Manifest : HandleApply(w, m)
    \/ \E m \in Manifest \cup {None} : HandleDelete(w, m)

-----------------------------------------------------------------------------

\* The daemon dies and is started again.
DaemonRestart ==
    /\ Kill
    /\ desired' = None
    /\ rpc' = "boot" /\ rman' = None
    /\ rtodo' = {} /\ rslot' = None /\ rid' = None
    /\ hpc' = [w \in Worker |-> "none"]
    /\ hman' = [w \in Worker |-> None]
    /\ UNCHANGED misses

DaemonNext ==
    \/ \E w \in Worker : \/ HandlerRequest(w) \/ HandlerStep(w)
                         \/ EngineStep(w) /\ UNCHANGED daemonVars
    \/ ReconcilerStep
    \/ \E s \in Slot : ContainerExit(s) /\ UNCHANGED daemonVars
    \/ DaemonRestart

DaemonSpec == DaemonInit /\ [][DaemonNext]_allVars

\* As in Engine; the ticker keeps ticking, and Go's RWMutex lets no writer starve.
DaemonFairness ==
    /\ WF_allVars(ReconcilerStep)
    /\ \A w \in Worker :
          /\ WF_allVars((ApplyStep(w) \/ DeleteStep(w)) /\ UNCHANGED daemonVars)
          /\ SF_allVars(Lock(w) /\ UNCHANGED daemonVars)
          /\ SF_allVars(HandlerStep(w))
FairDaemonSpec == DaemonSpec /\ DaemonFairness

-----------------------------------------------------------------------------
(* Properties. *)

\* reconciler.go:65-67 holds r.mu for the whole pass, server.go:222-224 clears
\* the desired state first: once it is cleared the reconciler starts nothing,
\* so that what Delete stops stays stopped.
NoStartOnceCleared ==
    [][\A s \in Slot :
          docker[s] # None /\ ~docker[s].running /\ docker'[s] # None
             /\ docker'[s].running
          => desired # None \/ \E w \in Worker : pc[w] = "start"]_allVars

\* The reconciler's lock gives its users the register of DesiredState.
Register == INSTANCE DesiredState WITH pass <- IF InPass THEN rman ELSE None
RegisterSpec == Register!Spec

\* Seen from Docker and Redis the daemon is an engine whose stopped containers
\* somebody starts: Engine's invariants hold in it.
EngineSpec == Spec

\* A stopped container of the desired manifest, whose host ports are free, is
\* started again, or replaced, or no longer wanted.
StoppedGetsStarted ==
    \A s \in Slot \ RefusedSlots :
        desired # None /\ s \in Wanted(desired) /\ docker[s] # None /\ s[1] \in net
        ~> \/ docker[s] = None \/ docker[s].running \/ s[1] \notin net
           \/ desired = None \/ s \notin Wanted(desired)

\* Every HTTP request is answered.
RequestsAnswered == \A w \in Worker : hpc[w] # "none" ~> hpc[w] = "none"

\* reconciler.go:82 "ensures a single node matches desired state", :94
\* "Creating missing container": a missing container of the desired manifest is
\* created.  The code breaks it: the pass only notes it (needReconcile) and
\* reconcile drops the note.
MissingGetsCreated ==
    \A s \in Slot :
        desired # None /\ s \in Wanted(desired) /\ docker[s] = None
        ~> docker[s] # None \/ desired = None \/ s \notin Wanted(desired)

\* web/server.go:221 "clear reconciler's desired state": when a Delete is the
\* only request and has succeeded, nothing is desired any more.  The code breaks
\* it: Run may have read the manifest before and adopt it after the clearing.
DeleteClears ==
    \A w \in Worker :
        /\ hpc[w] = "deleting" /\ pc[w] = "done"
        /\ \A v \in Worker \ {w} : hpc[v] = "none"
        => desired = None
=============================================================================
