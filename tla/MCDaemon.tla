------------------------------ MODULE MCDaemon ------------------------------
(* Values of Daemon's constants for TLC. *)
EXTENDS Daemon, TLC

\* Two manifests for the one node: they differ in nginx-proxy's configuration
\* and, where there are user containers, in a1's spec.
MCNodesOf == [m \in Manifest |-> Node]
MCAppSpec == [m \in Manifest |-> [s \in Node \X App |-> IF m = "m1" THEN "v1" ELSE "v2"]]
MCServicesOf == [m \in Manifest |-> Service]
MCMatches == {<<x, x>> : x \in AnySpec}

Symmetric == Permutations(Worker)
=============================================================================
