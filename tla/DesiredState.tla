---------------------------- MODULE DesiredState ----------------------------
(***************************************************************************)
(* What the reconciler's desired state promises its users: a register that *)
(* requests replace at any time between two passes of the reconciler and   *)
(* never during one, so that a pass works on one manifest from its first   *)
(* container to its last.                                                  *)
(***************************************************************************)
CONSTANTS Manifest, None

VARIABLES desired,  \* Reconciler.desiredState
          pass      \* the manifest the running pass works on, or None

Init == desired = None /\ pass = None

SetDesiredState(m) ==
    /\ pass = None
    /\ desired' = m
    /\ UNCHANGED pass

BeginPass ==
    /\ pass = None /\ desired # None
    /\ pass' = desired
    /\ UNCHANGED desired

EndPass ==
    /\ pass' = None
    /\ UNCHANGED desired

\* The process ends and another one starts with nothing desired.
Restart == desired' = None /\ pass' = None

Next ==
    \/ \E m \in Manifest \cup {None} : SetDesiredState(m)
    \/ BeginPass \/ EndPass \/ Restart

Spec == Init /\ [][Next]_<<desired, pass>>
=============================================================================
