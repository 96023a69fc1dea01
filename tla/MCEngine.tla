------------------------------ MODULE MCEngine ------------------------------
(* Values of Engine's constants for TLC. *)
EXTENDS Engine

\* m1 runs a1 with spec v1 and exposes service s1; m2 changes a1 to v2 and
\* exposes s2 as well.
MCNodesOf == [m \in Manifest |-> Node]
MCAppSpec == [m \in Manifest |-> [s \in Node \X App |-> IF m = "m1" THEN "v1" ELSE "v2"]]
MCServicesOf == [m \in Manifest |-> IF m = "m1" THEN {"s1"} ELSE {"s1", "s2"}]

\* A container of spec v2 has all v1 asks for (envMatches looks for a subset).
MCMatches == {<<x, x>> : x \in AnySpec} \cup {<<"v1", "v2">>}

\* nginx-proxy's host port may be taken.
MCRefusedSlots == {<<"n1", NginxProxy>>}
=============================================================================
