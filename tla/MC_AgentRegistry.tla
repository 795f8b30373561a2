-------------------------- MODULE MC_AgentRegistry -------------------------
(* A model-checking instance of AgentRegistry: all agents compete for the   *)
(* memory of one process, two share a Redis, or the statuses of a single    *)
(* agent's configurations come and go.                                      *)
EXTENDS AgentRegistry

CONSTANTS One, Pair, Alone   (* a configuration, two agents, one agent      *)

WithinBounds ==
  \/ mode = "memory" /\ \A a \in Agents : holds[a] = {One}
  \/ mode = "redis" /\ up \subseteq Pair /\ \A a \in Agents : holds[a] = {One}
  \/ up \subseteq {Alone}

InitWithin ==
  /\ Init
  /\ \/ mode = "memory" /\ up = Agents /\ holds = [a \in Agents |-> {One}]
     \/ mode = "redis" /\ up = Pair /\ holds = [a \in Agents |-> {One}]
     \/ up = {Alone} /\ holds = [a \in Agents |-> Configs]

NextWithin == Next /\ WithinBounds'

FairSpecWithin == InitWithin /\ [][NextWithin]_vars /\ Fairness
=============================================================================
