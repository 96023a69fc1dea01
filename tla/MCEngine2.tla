------------------------------ MODULE MCEngine2 ------------------------------
(* Values of Engine's constants for TLC: two nodes, one request at a time. *)
EXTENDS Engine

\* m1 deploys n1 alone, m2 both nodes.  After a restart the network of n2 may be
\* refused: the new process begins with the first subnet again, which n1 has.
MCNodesOf == [m \in Manifest |-> IF m = "m1" THEN {"n1"} ELSE {"n1", "n2"}]
MCAppSpec == [m \in Manifest |-> [s \in Node \X App |-> None]]
MCServicesOf == [m \in Manifest |-> Service]

MCMatches == {<<x, x>> : x \in AnySpec}
=============================================================================
