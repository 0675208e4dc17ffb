-------------------------- MODULE RegistryPromise --------------------------
(***************************************************************************)
(* What the registry promises to everyone who reads it, with every lock,   *)
(* transaction and failure of registry/repository.py left out.             *)
(*                                                                         *)
(* A version of an agent either has no meaning yet (it is a draft, or does *)
(* not exist) or one meaning for ever; an environment runs the meaning of  *)
(* one published version, or nothing.                                      *)
(***************************************************************************)
CONSTANTS AgentKeys,     \* the agents
          Environments,  \* dev, test, staging, production
          Releases,      \* the configurations a published version may hold
          None           \* an environment that runs nothing

VARIABLES catalog,       \* catalog[k]: version -> release, of the published ones
          live           \* live[k, e]: the release environment e runs, or None

vars == <<catalog, live>>

Init == /\ catalog = [k \in AgentKeys |-> [v \in {} |-> None]]
        /\ live = [ke \in AgentKeys \X Environments |-> None]

(* A version gets its meaning: once, and no other version is touched. *)
Publish(k, v) ==
    /\ v \notin DOMAIN catalog[k]
    /\ catalog'[k][v] \in Releases
    /\ catalog' = [catalog EXCEPT ![k] =
                     [n \in DOMAIN catalog[k] \cup {v} |->
                        IF n = v THEN catalog'[k][v] ELSE catalog[k][n]]]
    /\ UNCHANGED live

(* Promotion and rollback: the environment runs an already published version. *)
Bind(k, e, v) ==
    /\ v \in DOMAIN catalog[k]
    /\ live' = [live EXCEPT ![<<k, e>>] = catalog[k][v]]
    /\ UNCHANGED catalog

Next == \E k \in AgentKeys :
           \/ \E v \in DOMAIN catalog'[k] : Publish(k, v)
           \/ \E e \in Environments, v \in DOMAIN catalog[k] : Bind(k, e, v)

Spec == Init /\ [][Next]_vars
=============================================================================
