------------------------------- MODULE Config -------------------------------
(***************************************************************************)
(* package config: the checks Parse makes of a manifest.                   *)
(*                                                                         *)
(* A manifest is the record that yaml.Unmarshal fills:                     *)
(*    given      the header fields that are not empty                      *)
(*    nodes      sequence of [name, proxyPort, containers]                 *)
(*    services   sequence of [name, target, port]                          *)
(* A name is the sequence of its parts between dashes, <<>> the empty one; *)
(* a target is what strings.Split(target, "/") makes of it.                *)
(***************************************************************************)
EXTENDS Integers, Sequences

EmptyName == <<>>
EmptyTarget == <<EmptyName>>
HeaderFields == {"apiVersion", "kind", "metadata.name"}

\* The container is looked for in the first node of that name only.
TargetExists(m, target) ==
    \E k \in DOMAIN m.nodes :
        /\ m.nodes[k].name = target[1]
        /\ \A j \in 1..(k - 1) : m.nodes[j].name # target[1]
        /\ \E c \in DOMAIN m.nodes[k].containers :
              m.nodes[k].containers[c].name = target[2]

\* One turn of the loop of validateServices.
ServiceValid(m, i) ==
    LET svc == m.services[i]
    IN  /\ svc.name # EmptyName
        /\ svc.target # EmptyTarget
        /\ svc.port > 0
        /\ \A j \in 1..(i - 1) : m.services[j].name # svc.name
        /\ Len(svc.target) = 2
        /\ svc.target[1] # EmptyName /\ svc.target[2] # EmptyName
        /\ TargetExists(m, svc.target)

ValidateServices(m) == \A i \in DOMAIN m.services : ServiceValid(m, i)

\* Both loops look names up in a map that they never fill.
ValidateContainerNames(m) ==
    LET containerNames == {}
    IN  \A k \in DOMAIN m.nodes : \A c \in DOMAIN m.nodes[k].containers :
            m.nodes[k].containers[c].name \notin containerNames
ValidateNodeNames(m) ==
    LET nodeNames == {}
    IN  \A k \in DOMAIN m.nodes : m.nodes[k].name \notin nodeNames

Valid(m) ==
    /\ m.given = HeaderFields
    /\ m.nodes # <<>>
    /\ ValidateServices(m)
    /\ ValidateContainerNames(m)
    /\ ValidateNodeNames(m)
=============================================================================
