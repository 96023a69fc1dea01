-------------------------- MODULE Containers_proofs --------------------------
(***************************************************************************)
(* Proofs about SpecMatches, for any spec and any images: a container just *)
(* created from a spec matches it, and one that matches has the ports, the *)
(* mounts, the variables and the command of the spec.                      *)
(***************************************************************************)
EXTENDS Containers, FiniteSetTheorems, TLAPS

\* Without a refused port, CreateContainer's bindings are those SpecMatches expects.
LEMMA BindingsExpected ==
    ASSUME NEW ports, NoPort \notin DOMAIN BuildPortBindings(ports)
    PROVE  BuildPortBindings(ports) = ExpectedBindings(ports)
  <1> DEFINE published == {i \in DOMAIN ports : ports[i].hostPort > 0}
             Key(p) == <<p.containerPort, Protocol(p)>>
  <1>1. \A i \in published : NatPort(ports[i]) = Key(ports[i])
    <2> SUFFICES ASSUME NEW i \in published PROVE NatPort(ports[i]) = Key(ports[i])
      OBVIOUS
    <2>1. NatPort(ports[i]) \in DOMAIN BuildPortBindings(ports)
      BY DEF BuildPortBindings
    <2>2. NatPort(ports[i]) # NoPort
      BY <2>1
    <2> QED
      BY <2>2 DEF NatPort
  <1>2. {NatPort(ports[i]) : i \in published} = {Key(ports[i]) : i \in published}
    BY <1>1
  <1>3. \A k : {i \in published : NatPort(ports[i]) = k} = {i \in published : Key(ports[i]) = k}
    BY <1>1
  <1>4. BuildPortBindings(ports) =
          [k \in {NatPort(ports[i]) : i \in published} |->
              ports[LastOf({i \in published : NatPort(ports[i]) = k})].hostPort]
    BY DEF BuildPortBindings
  <1>5. ExpectedBindings(ports) =
          [k \in {Key(ports[i]) : i \in published} |->
              ports[LastOf({i \in published : Key(ports[i]) = k})].hostPort]
    BY DEF ExpectedBindings
  <1> HIDE DEF published, Key
  <1> QED
    BY <1>2, <1>3, <1>4, <1>5, Zenon

\* A sequence without repetitions has as many entries as values.
LEMMA DistinctEntries ==
    ASSUME NEW X, NEW s \in Seq(X), \A i, j \in DOMAIN s : s[i] = s[j] => i = j
    PROVE  /\ IsFiniteSet({s[i] : i \in DOMAIN s})
           /\ Cardinality({s[i] : i \in DOMAIN s}) = Len(s)
  <1> DEFINE T == {s[i] : i \in DOMAIN s}
  <1>1. Len(s) \in Nat /\ DOMAIN s = 1..Len(s)
    OBVIOUS
  <1>2. IsFiniteSet(1..Len(s)) /\ Cardinality(1..Len(s)) = Len(s)
    BY <1>1, FS_Interval
  <1>3. [i \in 1..Len(s) |-> s[i]] \in Bijection(1..Len(s), T)
    BY <1>1 DEF Bijection, Injection, Surjection, IsInjective
  <1>4. ExistsBijection(1..Len(s), T)
    BY <1>3 DEF ExistsBijection
  <1> QED
    BY <1>2, <1>4, FS_Bijection

\* The mounts of a container, one for each volume.
LEMMA MountsOf ==
    ASSUME NEW V, NEW volumes \in Seq(V)
    PROVE  /\ BuildVolumeMounts(volumes) \in Seq({Bind(v) : v \in V})
           /\ DOMAIN BuildVolumeMounts(volumes) = DOMAIN volumes
           /\ Len(BuildVolumeMounts(volumes)) = Len(volumes)
           /\ \A i \in DOMAIN volumes : BuildVolumeMounts(volumes)[i] = Bind(volumes[i])
  BY DEF BuildVolumeMounts

\* What Docker has just created from a spec matches that spec: Apply, repeated,
\* replaces no container but nginx-proxy.  (Engine assumes it of its abstract
\* specs.)
THEOREM CreatedMatches ==
    ASSUME NEW spec, NEW dns, NEW ip,
           spec.volumes \in Seq(Range(spec.volumes)), Len(spec.command) \in Nat,
           Creatable(Created(spec, dns, ip))
    PROVE  SpecMatches(spec, Created(spec, dns, ip))
  <1> DEFINE config == Created(spec, dns, ip)
             V == Range(spec.volumes)
  <1>0. spec.volumes \in Seq(V)
    OBVIOUS
  <1> HIDE DEF V
  <1>1. /\ config.image = spec.image /\ config.env = EnvOf(spec)
        /\ config.bindings = BuildPortBindings(spec.ports)
        /\ config.binds = BuildVolumeMounts(spec.volumes)
        /\ Len(spec.command) > 0 => config.cmd = spec.command
    BY DEF Created
  <1>2. /\ NoPort \notin DOMAIN config.bindings
        /\ \A i, j \in DOMAIN config.binds : config.binds[i][2] = config.binds[j][2] => i = j
    BY DEF Creatable
  <1> HIDE DEF config
  <1>3. ImageMatches(spec.image, config.image)
    BY <1>1 DEF ImageMatches
  <1>4. PortsMatch(spec.ports, config.bindings)
    <2>1. config.bindings = ExpectedBindings(spec.ports)
      BY <1>1, <1>2, BindingsExpected
    <2> QED
      BY <2>1 DEF PortsMatch
  <1>5. EnvMatches(spec.env, config.env)
    BY <1>1 DEF EnvMatches, EnvOf
  <1>6. VolumesMatch(spec.volumes, config.binds)
    <2> DEFINE binds == config.binds
    <2>1. /\ binds \in Seq({Bind(v) : v \in V}) /\ DOMAIN binds = DOMAIN spec.volumes
          /\ \A i \in DOMAIN spec.volumes : binds[i] = Bind(spec.volumes[i])
      BY <1>1, <1>0, MountsOf
    <2>2. \A i, j \in DOMAIN binds : binds[i] = binds[j] => i = j
      BY <1>2
    <2>3. {binds[i] : i \in DOMAIN binds} = {Bind(spec.volumes[i]) : i \in DOMAIN spec.volumes}
      BY <2>1
    <2>4. Cardinality({binds[i] : i \in DOMAIN binds}) = Len(binds)
      <3> HIDE DEF binds
      <3> QED
        BY <2>1, <2>2, DistinctEntries
    <2>5. \A i \in DOMAIN binds : binds[i] \in {Bind(spec.volumes[j]) : j \in DOMAIN spec.volumes}
      BY <2>1
    <2> QED
      BY <2>3, <2>4, <2>5 DEF VolumesMatch
  <1> QED
    BY <1>1, <1>3, <1>4, <1>5, <1>6 DEF SpecMatches, config

\* The config of a container that exists.
IsConfig(config) ==
    /\ config.binds \in Seq(Range(config.binds))
    /\ config.bindings = [q \in DOMAIN config.bindings |-> config.bindings[q]]
    /\ \A q \in DOMAIN config.bindings : q[1] \in 0..MaxPort
    /\ Creatable(config)

\* All that a container created afresh would have of the spec.
Gives(spec, config, fresh) ==
    /\ config.image.ref = fresh.image.ref
    /\ config.bindings = fresh.bindings
    /\ Range(config.binds) = Range(fresh.binds)
    /\ \A v \in DOMAIN spec.env : config.env[v] = spec.env[v]
    /\ Len(spec.command) > 0 => config.cmd = spec.command

\* What Apply keeps: a container that matches has the spec's ports, mounts,
\* variables, command and image, whatever it was once created from.  Only what the
\* spec leaves open may be an older spec's.
THEOREM MatchedGives ==
    ASSUME NEW spec, NEW config, NEW dns, NEW ip,
           spec.volumes \in Seq(Range(spec.volumes)),
           IsConfig(config), SpecMatches(spec, config)
    PROVE  Gives(spec, config, Created(spec, dns, ip))
  <1> DEFINE fresh == Created(spec, dns, ip)
             binds == config.binds
             wanted == {Bind(spec.volumes[i]) : i \in DOMAIN spec.volumes}
             V == Range(spec.volumes)
             B == Range(config.binds)
  <1>0. spec.volumes \in Seq(V) /\ config.binds \in Seq(B)
    BY DEF IsConfig
  <1> HIDE DEF V, B
  <1>8. /\ config.bindings = [q \in DOMAIN config.bindings |-> config.bindings[q]]
        /\ \A q \in DOMAIN config.bindings : q[1] \in 0..MaxPort
        /\ Creatable(config)
    BY DEF IsConfig
  <1>1. /\ fresh.image = spec.image /\ fresh.bindings = BuildPortBindings(spec.ports)
        /\ fresh.binds = BuildVolumeMounts(spec.volumes)
    BY DEF Created
  <1>2. config.bindings = ExpectedBindings(spec.ports)
    <2> DEFINE expected == ExpectedBindings(spec.ports)
    <2>1. /\ \A q \in DOMAIN config.bindings : /\ q \in DOMAIN expected
                                              /\ config.bindings[q] = expected[q]
          /\ DOMAIN expected \subseteq DOMAIN config.bindings
      BY DEF SpecMatches, PortsMatch
    <2>2. expected = [q \in DOMAIN expected |-> expected[q]]
      BY DEF ExpectedBindings
    <2> HIDE DEF expected
    <2> QED
      BY <1>8, <2>1, <2>2 DEF expected
  <1>3. config.bindings = fresh.bindings
    <2>1. ASSUME NEW i \in DOMAIN spec.ports, spec.ports[i].hostPort > 0
          PROVE  NatPort(spec.ports[i]) # NoPort
      <3>1. <<spec.ports[i].containerPort, Protocol(spec.ports[i])>> \in DOMAIN config.bindings
        BY <1>2, <2>1 DEF ExpectedBindings
      <3>2. NatPort(spec.ports[i]) = <<spec.ports[i].containerPort, Protocol(spec.ports[i])>>
        BY <1>8, <3>1 DEF NatPort
      <3>3. NoPort \notin DOMAIN config.bindings
        BY <1>8 DEF Creatable
      <3> QED
        BY <3>1, <3>2, <3>3
    <2>2. NoPort \notin DOMAIN BuildPortBindings(spec.ports)
      BY <2>1 DEF BuildPortBindings
    <2> QED
      BY <1>1, <1>2, <2>2, BindingsExpected
  <1>4. Range(config.binds) = Range(fresh.binds)
    <2>1. Cardinality(wanted) = Len(binds) /\ \A i \in DOMAIN binds : binds[i] \in wanted
      BY DEF SpecMatches, VolumesMatch
    <2>2. \A i, j \in DOMAIN binds : binds[i] = binds[j] => i = j
      BY <1>8 DEF Creatable
    <2>3. Cardinality({binds[i] : i \in DOMAIN binds}) = Len(binds)
      <3> HIDE DEF binds
      <3> QED
        BY <1>0, <2>2, DistinctEntries DEF binds
    <2>0. /\ fresh.binds \in Seq({Bind(v) : v \in V})
          /\ DOMAIN fresh.binds = DOMAIN spec.volumes
          /\ \A i \in DOMAIN spec.volumes : fresh.binds[i] = Bind(spec.volumes[i])
      <3>1. /\ BuildVolumeMounts(spec.volumes) \in Seq({Bind(v) : v \in V})
            /\ DOMAIN BuildVolumeMounts(spec.volumes) = DOMAIN spec.volumes
            /\ \A i \in DOMAIN spec.volumes :
                  BuildVolumeMounts(spec.volumes)[i] = Bind(spec.volumes[i])
        BY <1>0, MountsOf
      <3> QED
        BY <1>1, <3>1
    <2>8. wanted = {fresh.binds[i] : i \in DOMAIN fresh.binds}
      BY <2>0
    <2>4. IsFiniteSet(wanted)
      <3> DEFINE f == [i \in DOMAIN spec.volumes |-> Bind(spec.volumes[i])]
      <3>1. IsFiniteSet(DOMAIN spec.volumes)
        BY FS_Interval
      <3>2. f \in [DOMAIN spec.volumes -> wanted] /\ \A x \in wanted : \E i \in DOMAIN spec.volumes : f[i] = x
        OBVIOUS
      <3> HIDE DEF f, wanted
      <3>3. f \in Surjection(DOMAIN spec.volumes, wanted)
        BY <3>2 DEF Surjection
      <3> QED
        BY <3>1, <3>3, FS_Surjection
    <2>5. {binds[i] : i \in DOMAIN binds} \subseteq wanted
      BY <2>1
    <2>6. {binds[i] : i \in DOMAIN binds} = wanted
      <3> HIDE DEF binds, wanted
      <3> QED
        BY <2>1, <2>3, <2>4, <2>5, FS_Subset
    <2>7. Range(fresh.binds) = wanted
      <3> HIDE DEF fresh
      <3> QED
        BY <2>8, Zenon DEF Range
    <2> QED
      BY <2>6, <2>7 DEF Range
  <1>5. config.image.ref = fresh.image.ref
    BY <1>1 DEF SpecMatches, ImageMatches
  <1>6. \A v \in DOMAIN spec.env : config.env[v] = spec.env[v]
    BY DEF SpecMatches, EnvMatches
  <1>7. Len(spec.command) > 0 => config.cmd = spec.command
    BY DEF SpecMatches
  <1> QED
    BY <1>3, <1>4, <1>5, <1>6, <1>7 DEF Gives
=============================================================================
