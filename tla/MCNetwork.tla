----------------------------- MODULE MCNetwork -----------------------------
(* Network for TLC: processes are interchangeable, and so are nodes. *)
EXTENDS Network, TLC

Symmetric == Permutations(Proc) \cup Permutations(Node)
=============================================================================
