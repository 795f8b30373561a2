-------------------------- MODULE MC_ResolveCache --------------------------
(* Model-checking instances of ResolveCache.                               *)
EXTENDS ResolveCache, TLC

Symmetry == Permutations(Managers) \cup Permutations(Agents) \cup Permutations(Writers)

(* Sets of bounds: everything, or for pipelines two requests that race two *)
(* writes at one process, or all processes recovering from one write and   *)
(* one failure.  The recovery starts with a mapped configuration under a   *)
(* rolling canary: a write withdraws one of them, or creates the           *)
(* configuration.                                                          *)
CONSTANTS Focuses,  (* the sets of bounds of the run                       *)
          Busy,     (* the process of the races                            *)
          Others    (* agents that take part in the races only             *)

VARIABLE focus

WithinBounds ==
  \/ focus = "all"
  \/ /\ focus = "races"
     /\ faults = 0
     /\ \A a \in Agents : req[a].at \in {Busy, Nowhere}
     /\ \A w \in Writers : op[w].at \in {Busy, Nowhere}
  \/ /\ focus = "recovery"
     /\ \A a \in Agents \cap Others : req[a] = Idle

InitWithin ==
  /\ Init
  /\ focus \in Focuses
  /\ focus = "recovery" => mapped = TRUE /\ canary = "rolling"

NextWithin == Next /\ UNCHANGED focus /\ WithinBounds'

SpecWithin == InitWithin /\ [][NextWithin]_<<vars, focus>>
FairSpecWithin == SpecWithin /\ Fairness
=============================================================================
