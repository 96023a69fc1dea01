----------------------------- MODULE Containers -----------------------------
(***************************************************************************)
(* package container: what CreateContainer makes of a ContainerSpec, and   *)
(* SpecMatches, which compares a spec with a container made earlier.       *)
(*                                                                         *)
(* A spec is a record                                                      *)
(*    name         as in Config                                            *)
(*    image        [ref, digest]; digest is None unless the image is       *)
(*                 pinned with @sha256                                     *)
(*    ports        [containerPort, hostPort, protocol], by their places in *)
(*                 the list                                                *)
(*    env          function from some variables to values                  *)
(*    command      sequence of words                                       *)
(*    volumes      sequence of [hostPath, containerPath, readOnly]         *)
(*    extraHosts   sequence of entries for /etc/hosts                      *)
(*    expose       None or [path, port]                                    *)
(* A config is what Docker's inspect returns of a container: Config,       *)
(* HostConfig and the endpoint's settings in one record.                   *)
(***************************************************************************)
EXTENDS Integers, Sequences, FiniteSets, Functions

CONSTANTS
    Image,      \* image references
    Pullable,   \* those that can be pulled
    ImageEnv,   \* image -> the variables it sets itself
    ImageCmd,   \* image -> its default command
    None        \* nil, no digest, no such container

MaxPort == 65535

\* nat.NewPort's result is used even when it fails: then it is the empty Port.
NoPort == <<0, "">>
Protocol(p) == IF p.protocol = "" THEN "tcp" ELSE p.protocol
NatPort(p) ==
    IF p.containerPort \in 0..MaxPort THEN <<p.containerPort, Protocol(p)>>
                                      ELSE NoPort

\* A map filled in a loop keeps the last entry of a key.
LastOf(S) == CHOOSE i \in S : \A j \in S : j <= i

\* HostConfig.PortBindings, from ports with a host port only.
BuildPortBindings(ports) ==
    LET published == {i \in DOMAIN ports : ports[i].hostPort > 0}
    IN  [k \in {NatPort(ports[i]) : i \in published} |->
            ports[LastOf({i \in published : NatPort(ports[i]) = k})].hostPort]

Bind(v) == <<v.hostPath, v.containerPath, IF v.readOnly THEN "ro" ELSE "rw">>
BuildVolumeMounts(volumes) == [i \in DOMAIN volumes |-> Bind(volumes[i])]

\* Docker adds the image's variables to those of the request.
EnvOf(spec) ==
    [k \in DOMAIN spec.env \cup DOMAIN ImageEnv[spec.image.ref] |->
        IF k \in DOMAIN spec.env THEN spec.env[k] ELSE ImageEnv[spec.image.ref][k]]

\* The config of a container that CreateContainer asks for; dns tells whether it
\* uses the node's dnsmasq, ip is the static address or None.
Created(spec, dns, ip) ==
    [image |-> spec.image,
     env |-> EnvOf(spec),
     cmd |-> IF Len(spec.command) > 0 THEN spec.command ELSE ImageCmd[spec.image.ref],
     bindings |-> BuildPortBindings(spec.ports),
     binds |-> BuildVolumeMounts(spec.volumes),
     extraHosts |-> spec.extraHosts, dns |-> dns, ip |-> ip]

\* CreateContainer pulls the image first; Docker refuses a port that is none and
\* two mounts on one path.
Creatable(config) ==
    /\ config.image.ref \in Pullable
    /\ NoPort \notin DOMAIN config.bindings
    /\ \A k \in DOMAIN config.bindings : config.bindings[k] <= MaxPort
    /\ \A i, j \in DOMAIN config.binds :
          config.binds[i][2] = config.binds[j][2] => i = j

HostPorts(config) == Range(config.bindings)

-----------------------------------------------------------------------------
(* SpecMatches *)

\* specImage == containerImage, or containerImage begins with specImage@sha256:
ImageMatches(image, actual) ==
    \/ image = actual
    \/ image.digest = None /\ image.ref = actual.ref /\ actual.digest # None

ExpectedBindings(ports) ==
    LET published == {i \in DOMAIN ports : ports[i].hostPort > 0}
        Key(p) == <<p.containerPort, Protocol(p)>>
    IN  [k \in {Key(ports[i]) : i \in published} |->
            ports[LastOf({i \in published : Key(ports[i]) = k})].hostPort]

\* Every actual binding is expected, and none is left over.
PortsMatch(ports, actual) ==
    LET expected == ExpectedBindings(ports)
    IN  /\ \A k \in DOMAIN actual : k \in DOMAIN expected /\ actual[k] = expected[k]
        /\ DOMAIN expected \ DOMAIN actual = {}

\* Variables of the container that the spec does not name are not looked at.
EnvMatches(env, actual) ==
    \A k \in DOMAIN env : k \in DOMAIN actual /\ actual[k] = env[k]

VolumesMatch(volumes, actual) ==
    LET expected == {Bind(volumes[i]) : i \in DOMAIN volumes}
    IN  /\ Cardinality(expected) = Len(actual)
        /\ \A i \in DOMAIN actual : actual[i] \in expected

\* Mutant of SpecMatches: ports are not compared.
SpecMatchesNoPorts(spec, config) ==
    /\ ImageMatches(spec.image, config.image)
    /\ EnvMatches(spec.env, config.env)
    /\ VolumesMatch(spec.volumes, config.binds)
    /\ Len(spec.command) > 0 => spec.command = config.cmd

\* Mutant of SpecMatches: the container may have no variable besides the spec's.
SpecMatchesExactEnv(spec, config) ==
    /\ ImageMatches(spec.image, config.image)
    /\ PortsMatch(spec.ports, config.bindings)
    /\ spec.env = config.env
    /\ VolumesMatch(spec.volumes, config.binds)
    /\ Len(spec.command) > 0 => spec.command = config.cmd

\* A spec without a command is content with any; extra hosts are not compared.
SpecMatches(spec, config) ==
    /\ ImageMatches(spec.image, config.image)
    /\ PortsMatch(spec.ports, config.bindings)
    /\ EnvMatches(spec.env, config.env)
    /\ VolumesMatch(spec.volumes, config.binds)
    /\ Len(spec.command) > 0 => spec.command = config.cmd
=============================================================================
