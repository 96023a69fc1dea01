------------------------------- MODULE MCServe -------------------------------
(* Values of Serve's constants for TLC. *)
EXTENDS Serve

MCNodesOf == [m \in Manifest |-> Node]
MCAppSpec == [m \in Manifest |-> [s \in Node \X App |-> None]]
MCServicesOf == [m \in Manifest |-> Service]
MCMatches == {<<x, x>> : x \in AnySpec}
=============================================================================
