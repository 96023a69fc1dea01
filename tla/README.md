# KLite in TLA+

KLite deploys a manifest (nodes with containers, and services between them) on one Docker daemon. A "node" is
a Docker bridge network with a dnsmasq container, an nginx-proxy container and the node's user containers.
`klite apply` and `klite delete` do the work in a process of their own; `klite daemon` keeps a web server and a
reconciler running around one engine. What was deployed is recorded in Redis. Paths below are relative to
`src/klite/`.

## Inventory

| Component | State | Operations | Talks to | Correct when |
|---|---|---|---|---|
| engine (`internal/engine/engine.go`) | `mu`, `activeManifest` (written, never read) | `Apply`, `Delete`; read-only `Status`, `Logs`, `Exec`, `GetServices` | container, network, DNS and proxy managers, state store | a success means the manifest is deployed or gone; containers start in order; every call returns |
| reconciler (`internal/engine/reconciler.go`) | `desiredState`, `mu` (read-write lock) | `Run`, `reconcile`, `SetDesiredState` | container manager (without `Engine.mu`), state store | stopped containers are started, cleared ones are not; a pass works on one manifest |
| web server (`internal/web/server.go`) | one temporary file per upload, named by the client | `handleApply`, `handleDelete`; read-only `handleStatus`, `handleNodes` | engine, reconciler, state store | every request is answered, from its own upload; the desired state follows the requests |
| network manager (`internal/network/manager.go`) | `nodeNetworks`, `nodeSubnets`, `subnetIndex`, per process | `EnsureNetworkForNode`, `RemoveNetworkForNode`, `GetNodeSubnet` | Docker | what is cached is true of Docker; subnets differ |
| container manager (`internal/container/manager.go`) | none | create, start, stop, remove, inspect, `SpecMatches` | Docker | a match means nothing has to be changed |
| state store (`internal/state/redis.go`) | Redis keys `klite:containers:`, `:networks:`, `:services:`, `:manifests:` | save, get, list, delete | Redis | records mirror Docker; listings miss no record that stays |
| DNS and proxy managers (`internal/dns`, `internal/proxy`) | one hosts file and one nginx.conf per node | write the files | file system | running containers have read the current files; every service is reached from every node |
| config (`internal/config/config.go`) | none | `ParseFile`, `validate` | - | accepts what the engine can deploy |
| CLI (`cmd/klite/main.go`) | process context | `apply`, `delete`, `daemon`, `serve`, ... | engine, reconciler, web server | SIGINT leaves a repairable state |
| web UI (`internal/web/static`) | none | a static page | web server | - |

Interaction: HTTP handlers and CLI commands call the engine, which serialises `Apply` and `Delete` with `mu`.
The reconciler calls the container manager directly, so its starts fall between the engine's calls. Handlers
and the reconciler share `desiredState` under the reconciler's own lock, except for one assignment in `Run`.
Several processes share Docker and Redis; each has its own engine and its own network manager. Requests to the web
server share its directory of temporary files. What Apply keeps depends on `SpecMatches`, and whether what it creates
can start depends on names, host ports and nginx's configuration, which all nodes of the manifest share.

What is hard: operations of twenty calls, any of which may fail or take effect with its reply lost, with a "note
the error and go on" policy in nested loops; kills and SIGINT between two calls; the reconciler's and Docker's
own steps in between; caches that outlive what they describe; and the two locks. `PROJECT.json` lists each such
place ("hazards") with the properties aimed at it.

## Modules

* **Engine** - `Apply` and `Delete` of one process, one step per Docker or Redis call, for any number of callers
  (`Worker`). `docker`, `net` and `conf` are Docker's containers and networks and the files on disk; `rec`,
  `netRec`, `svcRec` and `stored` are Redis; `netCache` and `mu` belong to the process; `pc`, `todo`, `node`,
  `slot`, `cid` and `errs` are a call's program counter and local variables. Surroundings: a container exits
  (`ContainerExit`), somebody starts a stopped one (`StartStopped`), SIGINT (`Interrupt`), the process ends
  between requests (`Exit`) or anywhere (`Kill`).
* **DesiredState** - the abstract register: replaced between passes, never during one.
* **Daemon** - extends Engine with `Reconciler.Run`, the passes, `SetDesiredState` and the two HTTP handlers, each
  in as many steps as it makes calls. It takes `StartStopped` away and has the reconciler's own `PassStart`
  instead, so that Engine is the abstract specification of the daemon (`EngineSpec`). A second refinement
  (`RegisterSpec`) maps `pass` of DesiredState to the manifest the running pass works on.
* **Network** - `network.Manager` of several processes against one Docker, with the subnets. Engine keeps only
  `netCache` of it; Network is where its caches and counter are looked at.
* **Serve** - extends Engine with the web server of `klite serve` (no reconciler): the file an upload is put into
  (`dir`, `text`, and in `by` who has it open), written in one or several parts, parsed once to store the manifest
  and once to apply it, removed on every way out; and the listings, KEYS and then GET after GET. A file left by an
  earlier process is an initial state. What a file's text may be parsed as is a set, since the writes of two requests
  may lie over each other.
* **Config** - `validate` as operators on manifests, with the order of its checks and the duplicate checks as they are.
* **Containers** - what `CreateContainer` makes of a spec (ports, mounts, variables, command) and what `SpecMatches`
  compares, as operators.
* **Routing** - the routing table, the containers that are injected and their published ports, the names a container has
  in its network, the hosts file and the nginx configuration, as operators on manifests.
* **Rollout** - `Apply` and `Delete` container by container over the specs of Containers and the routes of Routing,
  with manifests that pass Config. Docker refuses taken host ports, ports beyond 65535 and images that are not to be
  had; nginx refuses duplicate listeners, locations and upstreams it cannot resolve. Docker's DNS answers the names of a
  network's containers (the container's name, with the node's, and in full) and leaves only the others to dnsmasq, so that
  a container of the calling node hides a service of its name (`Reached`). There is one caller and no
  injected fault, for Engine has those: Rollout has the data that Engine abstracts (its relation `Matches` is
  Containers' `SpecMatches`), Engine the control that Rollout does in one step.
* **MCEngine, MCEngine2, MCDaemon, MCNetwork, MCRollout, MCServe** - constants for TLC.
* **Engine_proofs, Recovery_proofs, Daemon_proofs, Serve_proofs, Network_proofs, Containers_proofs,
  Rollout_proofs, Routes_proofs** - theorems.

### Conventions

* A step is one call together with the local code up to the next call. A call's outcome is `ok`, `fail` (an
  error, no effect) or `lost` (the effect, and an error). `faults` bounds these calls in the engine, `misses`
  those of the reconciler and the handlers, `crashes` the kills and interrupts.
* `refused` is the outcome of a Docker that works: the subnet of a network is taken (a new process begins with the first
  one again), an image is not to be had, a host port is in use. It is free of charge, and may come at any time for the
  nodes in `RefusedNets` and the slots in `RefusedSlots`. Which subnet or port it is, Network and Rollout tell.
* After SIGINT Docker calls fail, for they carry the process's context; Redis calls do not.
* Only "running" matters of a container's status. `loaded` says which manifest's files the container read when
  it started.
* Container and network IDs are per slot and per node, and an ID that nothing refers to any more may come back:
  the code compares IDs of one name only.
* Nodes are taken in any order, and so are the user containers of a node. The code follows the manifest's order;
  the models allow more.
* Operators whose comment begins with "Mutant of" are wrong variants of the definition that follows. They take
  no part in a specification; replacing the definition by one must make a property fail (see "mutants").
* Pulling the image is part of `CreateContainer`: both fail the same way. `SaveServices` and `DeleteRecords` make
  several Redis calls in one step: any subset of them may fail. Only listings read in between, and they read the
  keys in any order, so what they find is what they would find before or after the step.
* Names in Config, Containers, Routing and Rollout are sequences of the parts between dashes, because Docker names are
  joined with dashes; images are a reference and perhaps a digest.

## Runs

All numbers with two workers.

| Run | Instance | Distinct states | Shows |
|---|---|---|---|
| Engine | 1 caller, 1 node, 1 user container, 2 manifests, 1 fault; network and nginx-proxy may be refused | 5.6 million | `TypeOK`, `ApplySound`, `DeleteSound`, `StartOrder`, `RedisMirrorsDocker`, `NeverStuck`, `ApplyErrorsExplained` |
| EngineTwoNodes | 1 caller, 2 nodes, 2 manifests, 1 kill or SIGINT; the second node's network may be refused | 5.1 million | `ApplySound`, `DeleteSound`, `ApplyErrorsExplained` across processes and nodes; `CallsAdvance` |
| Daemon | 2 requests, 2 manifests, 1 failed call outside the engine | 3.9 million | both refinements, `NoStartOnceCleared`; `ApplySound`, `RedisMirrorsDocker` with two callers |
| DaemonLive | 1 request at a time, 1 fault, 1 restart, fairness; the network may be refused | 0.29 million | `CallsReturn`, `StoppedGetsStarted`, `RequestsAnswered` |
| Network | 2 processes, 2 nodes, 2 valid subnets | 1.8 million | `TypeOK`, `CachedSubnetIsRight`, `StaleOnlyByOthers`, `NoSelfCollision` |
| Rollout | 14 manifests, 1 process, 1 exit | 0.75 million | `TypeOK`, `ApplyGivesSpec`, `RoutesReach`, `ApplyIsIdempotent`, `RetrySucceeds` |
| Serve | 2 requests, 1 manifest, 1 file name, 1 fault, 1 failed read | 7.7 million | `ServeTypeOK`, `OwnUpload`, `ListingComplete` |
| EngineDns, EngineNetworks, DaemonMissing, DaemonClear, NetworkSubnets | smaller instances of the above | - | one violated property each (below) |

`ApplySound` is the central property: when `Apply` gets past its error check, every container of its manifest is
in Docker with a matching spec, its current ID is in Redis, its network exists and is recorded, and a running
nginx-proxy serves this manifest. It does not say that the container is running: it may have exited since.
`DeleteSound` is its counterpart. `RedisMirrorsDocker` says that without faults and crashes, and whenever no
operation runs, Redis has a container's current ID exactly when Docker has the container. It leaves out the containers
that Docker may refuse, since one that was created and not started has no record.

`ApplyErrorsExplained` is what makes a retry worthwhile: whatever happened before, the first error of an Apply has its
cause in this Apply or in Docker's refusal. The causes are a fault or a SIGINT of its own, a subnet, image or host port
that Docker does not give, and a network in the cache that is gone, which takes an earlier fault. A name in use, or a
container or network that vanished under its hands, is none of them. The refusals are real: a process that did not
create the networks it finds starts with a subnet that one of them may have, and fails on a node that needs another
(`UniqueSubnet`).

`CallsReturn` says that every call returns, under fairness. `CallsAdvance` and `NeverStuck` are what this rests on
beside fairness: every call to Docker or Redis, whatever it answers, leaves an operation with fewer containers to deal
with or at a later stage with the same ones, or it returns and unlocks; and whoever has the mutex is in an operation that
has a next call.

Rollout looks at what only the data show. `ApplyGivesSpec`: after a successful Apply each container, kept or new, has
what its spec asks for; a container may owe a pinned image, a variable or a command to an earlier spec, and the last
of several entries with one Docker name wins. `RoutesReach` follows a connection from a service's name through one or
two proxies to the container, and from the host to every exposed path, where nginx accepts its file. It leaves out the
nodes where a container that is not the service's has its name: there the connection gets to that container.
`ApplyIsIdempotent`: a second Apply replaces nginx-proxy (engine.go:154) and nothing else. `RetrySucceeds`: a second
Apply fails only if the manifest itself cannot be had or a container it does not name is in the way; the first may
also fail because two nodes swap ports.

Serve: `OwnUpload` says that a foreign or half-written manifest can only come from another request that has a file
of the same name at the same time. That such a request may get the other's manifest, a mixture, or none is what the
code does. `ListingComplete` says that deletions and new records during a listing hide no record that stays.

Every step of the daemon is a step of Engine or leaves Engine's variables alone, so Engine's properties are the daemon's
(by the proofs, in every instance). The run Daemon checks `ApplySound` and `RedisMirrorsDocker` nevertheless: with its
two requests it is where two callers of the engine compete, and the run Engine has one.

### Why the bounds are enough

The two requests of Daemon make every pair of operations compete for `mu`; one caller is enough for the loops, faults and
refusals of Engine, for the mutex keeps a second one out of them. Two manifests that differ in a user container, in
the proxy's ports and in a service make every branch of the container loop happen (kept, recreated, recreated
because stopped, created). One fault, placed at any call of any operation, reaches every error path; the sequence of
operations is not bounded, so the state it leaves is met by every later operation. Refusals are not counted; each run
names where they may come, and the one of nginx-proxy in Engine is both of its image and of its port. The reconciler's
start of a container that is refused leaves everything as its failed call does (`Try`, `MaxMisses`). Three IDs are what one slot can
have in use at once: the container's, the record's and a local variable's. Two nodes of which one manifest has one
only are the smallest case of "continue" in the node loop and of a Delete that leaves a node alone. For Network, two
valid subnets let the counter of one process run past the last one, and two processes make each the other's
intruder. The manifests of Rollout are two that deploy two nodes with every optional part of a spec, and swap ports,
variables, commands and image pins between them; one that drops a node; and one for each way manifests that pass
validation can contradict themselves (equal sums of ports, a sum that is too high with an image that is not to be had,
two containers or two nodes of one name, two listeners or paths); six more are refused. Any sequence of Apply and
Delete is followed, with one container exiting somewhere (`MaxExits`). One file name is all that sharing needs, and
requests that share nothing occur when the other one is a listing or none. Kills are bounded by one: a second kill
during the repair leaves states of the same kind. The proofs do away with these bounds for the properties they cover.

`MaxMisses` is 0 in DaemonLive: a reconciler whose calls fail need not make progress. `CallsReturn` is checked there
with one request at a time; the mutex is the only thing a second one adds, and that it is free again after every
call, whatever failed, is what `CallsReturn` of the next call needs (`NeverStuck`, proved for any number of callers). No run switches deadlock
checking off.

### Fairness

* `WF` on the steps of `Apply` and `Delete` and on the return to the caller: Docker, Redis and the file system
  answer, with an error at worst.
* `SF` on `Lock`: a Go mutex hands itself to a waiter that has waited long (starvation mode), so a waiter gets it
  although others keep taking it.
* `WF` on the reconciler: its goroutine runs and the ticker ticks.
* `SF` on the handlers: `SetDesiredState` is a writer of a `sync.RWMutex`, which lets no writer starve.
* Containers never have to exit and requests never have to come.

### What the violated properties show

* **DnsServesManifest** (`EngineDns`). dnsmasq reads its hosts file when it starts and Apply keeps a running
  dnsmasq, whose spec never changes: services of a new manifest do not resolve until dnsmasq is restarted.
* **DeleteRemovesNetworks** (`EngineNetworks`). `RemoveNetworkForNode` succeeds at once when the process has the
  node not in its cache, as `klite delete` never has.
* **MissingGetsCreated** (`DaemonMissing`). The reconciler prints "Creating missing container" and creates nothing.
* **DeleteClears** (`DaemonClear`). `Run` assigns the loaded manifest without the lock after the web server has
  started; it may overwrite a clearing.
* **UniqueSubnet** (`NetworkSubnets`). The subnet counter starts again in every process.

The run Rollout passes because its properties grant what follows, or its manifests avoid it; each is in `PROJECT.json`
with the comment it contradicts. The duplicate checks of `config.go` fill no map. `SpecMatches` keeps variables and commands that a spec
no longer has. "proxyPort + 10000 + service port" may be one number for two nodes, or beyond 65535.
A container's bare name is an alias that Docker's DNS answers ahead of dnsmasq, so a service of that name does not resolve
to the proxy there, be the container one that an earlier manifest left.
Docker names are joined with dashes that they may contain: "web" of node "x-y" and "y-web" of node "x" are both
klite-x-y-web, and Apply of the second keeps the first one's running container, for `SpecMatches` does not look at its
network; the proxy of "x" finds no upstream there and exits, and Apply succeeds.

## Proofs

`tlapm` checks every theorem for all values of the constants: any nodes, containers, manifests, callers, files, and any
number of faults and crashes. The assumptions are the named `ASSUME`s of Engine, Daemon and Network: `None` and the
names of the two infrastructure containers are distinct from the other values, the manifests are well typed, the bounds
are natural numbers, what Docker may refuse are nodes and slots, Docker does not run out of IDs (`IdAssumption`), and a container created from a spec matches it
(`MatchesAssumption`, which Containers_proofs proves of `SpecMatches`); and those of Rollout: the parts of a manifest that
are lists are sequences and its ports are integers (`ContentAssumption`), and `None` is no manifest, no container and no
nginx file (`ExitsAssumption`, `ContainerAssumption`). Three theorems about Rollout have a hypothesis about the manifests,
of which MCRollout has TLC evaluate that the manifests of the run Rollout fulfil it.

**Engine_proofs.** `TypeOK`, mutual exclusion, `ApplySound`, `DeleteSound` and `StartOrder`. None of these is
inductive. The inductive invariant is

    IInv == TypeOK /\ ControlInv /\ RunningInv /\ ProgressInv

* `ControlInv` says what a program counter means: who is past the lock holds it, `todo` is a part of the manifest,
  `node` and `slot` are the loop variables, the slot in hand is a first one of those left, and the error check was
  passed without an error. With one holder of the lock, no other caller changes what an operation has done.
* `RunningInv`: a running container has its network. The surroundings may stop and start containers, and Docker
  starts none without its network.
* `ProgressInv` (`Applied`, `Deleted`): as long as no error was noted, what the loop is through with is deployed, or
  gone; the container in hand is what the manifest asks for once it has been compared or created; and the files of
  the node in hand are this manifest's. This is the invariant of the nested loops, and it survives the reconciler's
  starts because a started nginx-proxy reads the files just written.

At the error check `todo` is empty and no error was noted, so `ProgressInv` is `ApplySound`, or `DeleteSound`. For
`StartOrder`, `ControlInv` makes every container of a lower rank one the loop is through with. The preservation proof
has a lemma for every group of actions (requests, lock, surroundings, Apply, Delete), a step for every action and
a step for every conjunct that the action can disturb. `IInv` was checked by TLC on the instances of Engine and
EngineTwoNodes before.

**Network_proofs.** `TypeOK` and the three properties of the run Network. They are inductive together with
`CallOK`, which says that between its calls a process knows its node and removes cached networks only. The heart of
`CachedSubnetIsRight` is that a new network's ID is in no process's cache, so an entry either is for the network
that exists or for none.

**Recovery_proofs** extends Engine_proofs with the properties that look past one operation, and with the end of each.

* `ApplyErrorsExplained`. `HandInv` says that the container in hand is in Docker under the ID Apply has of it, and
  that there is none when one is to be created; `CacheInv` that the node in hand is cached and, without faults, a
  cached network exists. Then each way into `errs` or "failed" has its cause, and a refusal comes only where there is
  something to create or to start.
* `RedisMirrorsDocker`. Without faults and crashes, `GoneInv` says that what a Delete is through with is gone, and
  `MirrorInv` that records and Docker agree but for the container an Apply has in hand and those of the node a Delete
  is at; `CancelInv` says that only an interrupt cancels. With these and `IInv`, `MInv` is inductive.
* `CallsAdvance` and `NeverStuck`. `TurnInv` says that who has the mutex is in an operation, that a loop is entered with
  something to do, and that only a turn of the container loop holds an ID. The second makes a skipped node a gain: the
  containers left, all of the manifest's at the start, become fewer. So the pair of what is left and the stage is a variant,
  well-founded where nodes and containers are finitely many, and with `NeverStuck` nothing but fairness separates the two
  theorems from `CallsReturn`, which is stated with `ENABLED` and so stays with TLC.

**Daemon_proofs.** The daemon implements Engine (`DaemonImplementsEngine`), so every invariant proved of Engine is one
of the daemon (`DaemonKeepsPromises`); it implements DesiredState; and `NoStartOnceCleared` holds. The invariant

    DInv == DaemonTypeOK /\ ControlInv /\ PassInv /\ HandlerInv

is Engine's control invariant with `PassInv`, a pass works on the desired manifest, and `HandlerInv`, a handler about
to apply has parsed one. Without `PassInv` a pass could start what the register no longer has, without `HandlerInv`
the engine could be called with no manifest.

**Serve_proofs.** `ServeImplementsEngine`, `OwnUpload` and `ListingComplete`. `OpenInv` relates descriptors to
requests under way, `FileInv` says what a file holds whose request is alone (its upload, from the last write on),
`ManInv` that nothing is stored unparsed. `ListInv` says that a record that stays is read or still to be read.

**Containers_proofs.** `CreatedMatches`: what was created from a spec matches it, so that Apply settles; here duplicate
mounts and ports that `nat.NewPort` refuses have to be excluded, as Docker does. `MatchedGives`: what matches has what
the spec asks for, the heart of `ApplyGivesSpec`. The fields that decide are the ports and the mounts, where
`SpecMatches` compares with a map and by counting.

**Rollout_proofs.** The properties of the run Rollout but `RoutesReach`, for any manifests, valid or not.

* `RolloutTypeCorrect`. `RInv` says that `todo` is the rest of the node's list (`LoopInv`) and that every container
  stems from an entry of some manifest (`DockerInv`), which is what gives `MatchedGives` its hypotheses.
* `ApplyGives`. `ProgressInv`: without an error so far, the last entry of a Docker name that the loops are past has a
  container that gives what its spec asks for. "Last" makes it inductive where entries share a name: a later entry of
  the name takes the container over. The hypothesis `InjectedApart` of a manifest is needed: a user container of nginx's
  image and a name that collides through dashes could be kept for an nginx-proxy, without its address. Manifests that keep
  off the names and the images of the injected containers fulfil it (`ApplyGivesAll`).
* `RetriesSucceed`. `OwnPortsInv`: an entry that the loops are past has no container or one with its own ports, also
  when its creation failed. So when the manifest is applied again, none of its own containers holds a port that
  belongs to another one of them, and `ErrorInv` has no other reasons left than those of `InTheWay`.
* `ApplyAgain`. `PortsInv`, no two running containers have one host port, holds at any time, with exits and restarts.
  `MatchInv` says that what Apply is past matches (`CreatedMatches` if it is new), `SettledInv` that a repeated Apply
  finds what it is not past as it was left: kept unless it is nginx-proxy, whose successor gets its ports
  (`ProxyAccepted`).

**Routes_proofs** extends Rollout_proofs with `RoutesReach`, for any manifest whose entries do not clash, and any that were
applied before. The invariant adds three parts to `RInv`:

* `FilesInv`: the nodes that the loops have begun have the files of this manifest, and of no earlier one.
* `ServingInv`: as long as nothing failed and nothing exited, the container of each entry that the loops are past is
  the entry's own, in its node's network, with its ports, and runs; an nginx-proxy has read the node's file, and runs
  unless the file clashes. When the loop comes to nginx-proxy, its upstreams are among these, so they resolve.
* `PortsInv`, as above: a host port leads to one container.

At the end a connection is followed: the name's address is that of the node's proxy, the port belongs to one server
block (`ServerIs`), that leads to the service's container (`BehindIs`) or to a published port, and that port to the
other node's proxy (`AtHostIs`) with one block for the port inside. Full names have three labels and are no other
container's alias (`FullNames`), so an upstream is one container; a service's name may be a container's, which is why
`RoutesReach` asks that it is the service's own or none's. Neither of the theorem's hypotheses can be left out. Without
`ImagesTellApart` a kept container may be in another node's network (above). Without `NoNegativePort` a
sum of ports may be below 1: validation lets a negative proxy port pass, such a sum is not published, and Apply succeeds
with a service that other nodes cannot reach.

Only model-checked are the liveness properties, `CallsReturn`, `StoppedGetsStarted` and `RequestsAnswered`: fairness and
`ENABLED` are out of the prover's reach.

## Not modelled

* Two engines at a time: a CLI process next to a daemon shares Docker and Redis with it, but not `mu`. The network
  manager is modelled across processes, the engine across processes one after the other.
* A restart of `klite serve` in the middle of a request, except for the files it leaves. Kills and restarts of the
  engine are in Engine and Daemon.
* YAML and JSON, ports' order in Docker's answers (`AccessAddress`), labels, extra hosts and the wording of the nginx
  file beyond its listeners, locations and upstreams.
* Logs, exec, the DNS inspection commands and the web UI: they change no state. `ConnectContainer`,
  `DisconnectContainer` and `dns.GenerateConfig` have no callers.

## Plan

Done: Engine, DesiredState, Daemon, Network, then Config, Containers, Routing, Rollout and Serve, with their runs and
the proofs above, in this order because Apply and Delete carry the program's promises, the daemon adds the
concurrency, the network manager the state that outlives processes, the data what a kept container is worth, and the
server what requests share. Left:

1. **Processes** - two engines (a daemon and a CLI process) on one Docker and one Redis: what mutual exclusion within
   a process gives up.
2. The safety core of `RequestsAnswered`, as `CallsAdvance` and `NeverStuck` are that of `CallsReturn`: passes and
   handlers advance, and the two locks are never waited for in a circle.
