---------------------------- MODULE AgentRegistry --------------------------
(***************************************************************************)
(* The agent registry and the configuration statuses: UpsertAgent,         *)
(* UpsertAgentConfigStatus, evictOldestAgentLocked, evictStaleAgents and   *)
(* the lists of internal/cache/manager.go, with the handlers of            *)
(* internal/server/agent/handler.go that fill them and the gauges of       *)
(* internal/metrics/collector.go that count them.                          *)
(*                                                                         *)
(* Every process keeps the agents that talked to it, least recently seen   *)
(* last, and what they said about their configurations.  With Redis there  *)
(* is one key and one hash per agent for all processes, and the lists are  *)
(* made from those.  The linked list of agents is kept as its order: to    *)
(* each agent belongs the part of the list from that agent to the back.    *)
(*                                                                         *)
(* Time passes in ticks of some minutes.  A running agent sends at least   *)
(* one heartbeat per tick, and requests and sweeps are short: the age of a *)
(* heartbeat is counted in ticks.                                          *)
(*                                                                         *)
(* Operators named X_Fault are faulty variants of the operator X below     *)
(* them: no action uses them, they show that the properties can fail.      *)
(***************************************************************************)
EXTENDS Integers, FiniteSets

CONSTANTS
  Procs,        (* configserver processes                                  *)
  Home,         (* the only one when there is no Redis                     *)
  Agents, Configs,
  MaxAgents,    (* maxAgents                                               *)
  MaxStatuses,  (* maxStatuses                                             *)
  Window,       (* onlineWindow of the metrics, in ticks                   *)
  Stale,        (* agentTTL, in ticks                                      *)
  Expiry,       (* agentRedisTTL, in ticks                                 *)
  MaxChanges,   (* bound on what happens to the agents                     *)
  MaxFaults,    (* bound on failed Redis calls and restarts                *)
  Never         (* no heartbeat, no status                                 *)

ASSUME HomeAssumption == Home \in Procs
ASSUME LimitAssumption == MaxAgents \in Nat \ {0} /\ MaxStatuses \in Nat
ASSUME TimeAssumption ==
  /\ Window \in Nat /\ Stale \in Nat /\ Expiry \in Nat
  /\ 0 < Window /\ Window < Stale /\ Stale <= Expiry
ASSUME BoundAssumption == MaxChanges \in Nat /\ MaxFaults \in Nat
ASSUME NeverAssumption == Never \notin Int

VARIABLES
  mode,      (* "memory": no Redis; "redis"; "hfe": Redis with HEXPIRE     *)
  up,        (* the running agents                                         *)
  at,        (* the process an agent talks to                              *)
  holds,     (* the configurations an agent has                            *)
  beaten,    (* agents that sent a heartbeat in this tick                  *)
  seen,      (* agentsMap: the age of the last heartbeat                   *)
  lru,       (* agentsLRU, most recently seen first: the part of the list  *)
             (* from an agent to the back, empty if the agent is not in it *)
  noted,     (* statusesMap                                                *)
  listed,    (* the Redis key of an agent: the age of the heartbeat in it  *)
  hash,      (* the Redis hash of an agent: the ages of the fields         *)
  req,       (* the request of an agent                                    *)
  sweep,     (* evictStaleAgents in each process                           *)
  changes, faults,
  orphans    (* history: agents whose statuses no sweep of the process     *)
             (* will look for                                              *)

agentvars == <<up, at, holds, changes>>
memory == <<seen, lru, noted, orphans>>
redis == <<listed, hash>>
vars == <<mode, agentvars, beaten, memory, redis, req, sweep, faults>>

HasRedis == mode # "memory"
Age == 0..Expiry
Idle == [pc |-> "idle", at |-> Home, todo |-> {}]
Asleep == [pc |-> "idle", ids |-> {}, id |-> Never]
NoStatus == [c \in Configs |-> Never]
EmptyList == [a \in Agents |-> {}]
Known(p, a) == seen[p][a] # Never

Init ==
  /\ mode \in {"memory", "redis", "hfe"}
  /\ up \in SUBSET Agents
  /\ at = [a \in Agents |-> Home]
  /\ holds \in [Agents -> SUBSET Configs]
  /\ beaten = {}
  /\ seen = [p \in Procs |-> [a \in Agents |-> Never]]
  /\ lru = [p \in Procs |-> EmptyList]
  /\ noted = [p \in Procs |-> {}]
  /\ listed = [a \in Agents |-> Never]
  /\ hash = [a \in Agents |-> NoStatus]
  /\ req = [a \in Agents |-> Idle]
  /\ sweep = [p \in Procs |-> Asleep]
  /\ changes = 0
  /\ faults = 0
  /\ orphans = [p \in Procs |-> {}]

Fail == faults < MaxFaults /\ faults' = faults + 1

-----------------------------------------------------------------------------
(***************************************************************************)
(* The agents: one stops or starts, is sent to another process, or drops a *)
(* configuration.                                                          *)
(***************************************************************************)
Change ==
  /\ changes < MaxChanges
  /\ changes' = changes + 1
  /\ UNCHANGED <<mode, beaten, memory, redis, req, sweep, faults>>

StopOrStart(a) == Change /\ up' = (up \ {a}) \cup ({a} \ up) /\ UNCHANGED <<at, holds>>
Move(a, p) == Change /\ HasRedis /\ at' = [at EXCEPT ![a] = p] /\ UNCHANGED <<up, holds>>
DropConfig(a, c) == Change /\ holds' = [holds EXCEPT ![a] = @ \ {c}] /\ UNCHANGED <<up, at>>

-----------------------------------------------------------------------------
(***************************************************************************)
(* Heartbeat and ReportStatus.                                             *)
(***************************************************************************)
Members(list) == {a \in Agents : list[a] # {}}
Back(list) == {a \in Agents : list[a] = {a}}
Removed(list, ids) == [b \in Agents |-> IF b \in ids THEN {} ELSE list[b] \ ids]
PushedFront(list, a) == [list EXCEPT ![a] = Members(list) \cup {a}]

(* UpsertAgent, under the lock: a known agent moves to the front, a new    *)
(* one is put there when the last ones, if any, have been pushed out.      *)
Placed_Unmoved(list, out, a) ==
  IF a \in Members(list) THEN list ELSE PushedFront(Removed(list, out), a)

Placed(list, out, a) ==
  IF a \in Members(list) THEN PushedFront(Removed(list, {a}), a)
  ELSE PushedFront(Removed(list, out), a)

(* evictOldestAgentLocked, if there is no room for the new agent.          *)
PushedOut(p, a) ==
  IF a \in Members(lru[p]) \/ Cardinality({b \in Agents : Known(p, b)}) < MaxAgents THEN {}
  ELSE Back(lru[p])

(* The statuses of the one that is pushed out stay: they are looked for    *)
(* under a prefix no key has.                                              *)
Register(p, a) ==
  LET out == PushedOut(p, a)
  IN  /\ lru' = [lru EXCEPT ![p] = Placed(@, out, a)]
      /\ seen' = [seen EXCEPT ![p] = [b \in Agents |-> IF b = a THEN 0 ELSE IF b \in out THEN Never ELSE @[b]]]
      /\ orphans' = [orphans EXCEPT ![p] = @ \cup out]
      /\ UNCHANGED noted

(* What is left of the request when the statuses in todo are to be saved.  *)
Saving(p, todo) == IF todo = {} THEN Idle ELSE [pc |-> "note", at |-> p, todo |-> todo]

Heartbeat(a) ==
  /\ a \in up /\ a \notin beaten /\ req[a] = Idle
  /\ beaten' = beaten \cup {a}
  /\ Register(at[a], a)
  /\ req' = [req EXCEPT ![a] =
               IF HasRedis THEN [pc |-> "publish", at |-> at[a], todo |-> holds[a]]
               ELSE Saving(at[a], holds[a])]
  /\ UNCHANGED <<mode, agentvars, redis, sweep, faults>>

(* SET of the agent's key, with its TTL.  A failure is logged.             *)
Publish(a) ==
  /\ req[a].pc = "publish"
  /\ \/ listed' = [listed EXCEPT ![a] = 0] /\ UNCHANGED faults
     \/ Fail /\ UNCHANGED listed
  /\ req' = [req EXCEPT ![a] = Saving(req[a].at, req[a].todo)]
  /\ UNCHANGED <<mode, agentvars, beaten, memory, hash, sweep>>

(* Statuses that changed are reported between two heartbeats, even by an   *)
(* agent the process does not know.                                        *)
ReportStatus(a) ==
  /\ a \in up /\ req[a] = Idle
  /\ changes < MaxChanges
  /\ changes' = changes + 1
  /\ \E todo \in SUBSET holds[a] :
       /\ todo # {}
       /\ req' = [req EXCEPT ![a] = Saving(at[a], todo)]
  /\ UNCHANGED <<mode, up, at, holds, beaten, memory, redis, sweep, faults>>

(* UpsertAgentConfigStatus: in memory, unless the map is full, ...         *)
Noted(old, s) == IF Cardinality(old) < MaxStatuses THEN old \cup {s} ELSE old

NoteStatus(a) ==
  LET r == req[a] IN
  /\ r.pc = "note"
  /\ \E c \in r.todo :
       /\ noted' = [noted EXCEPT ![r.at] = Noted(@, <<a, c>>)]
       /\ req' = [req EXCEPT ![a] =
                    IF HasRedis THEN [r EXCEPT !.pc = c] ELSE Saving(r.at, r.todo \ {c})]
  /\ orphans' = [orphans EXCEPT ![r.at] = IF Known(r.at, a) THEN @ ELSE @ \cup {a}]
  /\ UNCHANGED <<mode, agentvars, beaten, seen, lru, redis, sweep, faults>>

(* ... then in Redis, with a TTL for the field or for the hash.            *)
RecordStatus(a) ==
  LET r == req[a] IN
  /\ r.pc \in Configs
  /\ \/ hash' = [hash EXCEPT ![a][r.pc] = 0] /\ UNCHANGED faults
     \/ Fail /\ UNCHANGED hash
  /\ req' = [req EXCEPT ![a] = Saving(r.at, r.todo \ {r.pc})]
  /\ UNCHANGED <<mode, agentvars, beaten, memory, listed, sweep>>

Serve(a) == Publish(a) \/ NoteStatus(a) \/ RecordStatus(a)

-----------------------------------------------------------------------------
(***************************************************************************)
(* evictStaleAgents: forget the agents this process has not heard from,    *)
(* then their statuses, then their Redis entries, one by one.              *)
(***************************************************************************)
StaleAgents(p) == {a \in Agents : seen[p][a] = Stale}

Unseen(p, ids) == seen' = [seen EXCEPT ![p] = [a \in Agents |-> IF a \in ids THEN Never ELSE @[a]]]

Forget_MapOnly(p, ids) == Unseen(p, ids) /\ UNCHANGED lru
Forget_Collected(p, ids) == UNCHANGED <<seen, lru>>
Forget(p, ids) ==
  /\ Unseen(p, ids)
  /\ lru' = [lru EXCEPT ![p] = Removed(@, ids)]

SweepAgents(p) ==
  /\ sweep[p] = Asleep
  /\ StaleAgents(p) # {}
  /\ Forget(p, StaleAgents(p))
  /\ sweep' = [sweep EXCEPT ![p] = [pc |-> "statuses", ids |-> StaleAgents(p), id |-> Never]]
  /\ UNCHANGED <<mode, agentvars, beaten, noted, orphans, redis, req, faults>>

Purged_OtherPrefix(statuses, ids) == statuses
Purged(statuses, ids) == {s \in statuses : s[1] \notin ids}

SweepStatuses(p) ==
  /\ sweep[p].pc = "statuses"
  /\ noted' = [noted EXCEPT ![p] = Purged(@, sweep[p].ids)]
  /\ orphans' = [orphans EXCEPT ![p] = @ \ sweep[p].ids]
  /\ sweep' = [sweep EXCEPT ![p] = IF HasRedis THEN [@ EXCEPT !.pc = "key"] ELSE Asleep]
  /\ UNCHANGED <<mode, agentvars, beaten, seen, lru, redis, req, faults>>

DeleteKey(p) ==
  /\ sweep[p].pc = "key"
  /\ \E a \in sweep[p].ids :
       /\ \/ listed' = [listed EXCEPT ![a] = Never] /\ UNCHANGED faults
          \/ Fail /\ UNCHANGED listed
       /\ sweep' = [sweep EXCEPT ![p] = [pc |-> "hash", ids |-> @.ids \ {a}, id |-> a]]
  /\ UNCHANGED <<mode, agentvars, beaten, memory, hash, req>>

DeleteHash(p) ==
  /\ sweep[p].pc = "hash"
  /\ \/ hash' = [hash EXCEPT ![sweep[p].id] = NoStatus] /\ UNCHANGED faults
     \/ Fail /\ UNCHANGED hash
  /\ sweep' = [sweep EXCEPT ![p] = IF @.ids = {} THEN Asleep ELSE [@ EXCEPT !.pc = "key", !.id = Never]]
  /\ UNCHANGED <<mode, agentvars, beaten, memory, listed, req>>

Sweep(p) == SweepAgents(p) \/ SweepStatuses(p) \/ DeleteKey(p) \/ DeleteHash(p)

(* A process restarts: its memory is gone and its requests are answered by *)
(* nobody.                                                                 *)
Restart(p) ==
  /\ Fail
  /\ seen' = [seen EXCEPT ![p] = [a \in Agents |-> Never]]
  /\ lru' = [lru EXCEPT ![p] = EmptyList]
  /\ noted' = [noted EXCEPT ![p] = {}]
  /\ orphans' = [orphans EXCEPT ![p] = {}]
  /\ sweep' = [sweep EXCEPT ![p] = Asleep]
  /\ req' = [a \in Agents |-> IF req[a].at = p THEN Idle ELSE req[a]]
  /\ UNCHANGED <<mode, agentvars, beaten, redis>>

-----------------------------------------------------------------------------
(***************************************************************************)
(* Time.  Redis drops an agent's key Expiry after its last heartbeat, and  *)
(* statuses field by field, or all at once when none was written so long.  *)
(***************************************************************************)
Older(age, limit) == IF age = Never \/ age = limit THEN age ELSE age + 1

OlderKey(age) == IF age # Never /\ age + 1 >= Expiry THEN Never ELSE Older(age, Expiry)

OlderHash_OneTTL(h) ==
  LET older == [c \in Configs |-> Older(h[c], Expiry)]
  IN  IF \A c \in Configs : older[c] \in {Never, Expiry} THEN NoStatus ELSE older

OlderHash(h) ==
  LET older == [c \in Configs |-> Older(h[c], Expiry)]
  IN  IF mode = "hfe" THEN [c \in Configs |-> IF older[c] = Expiry THEN Never ELSE older[c]]
      ELSE IF \A c \in Configs : older[c] \in {Never, Expiry} THEN NoStatus
      ELSE older

Tick ==
  /\ up \subseteq beaten
  /\ \A a \in Agents : req[a] = Idle
  /\ \A p \in Procs : sweep[p] = Asleep
  /\ beaten' = {}
  /\ seen' = [p \in Procs |-> [a \in Agents |-> Older(seen[p][a], Stale)]]
  /\ listed' = [a \in Agents |-> OlderKey(listed[a])]
  /\ hash' = [a \in Agents |-> OlderHash(hash[a])]
  /\ UNCHANGED <<mode, agentvars, lru, noted, orphans, req, sweep, faults>>

Next ==
  \/ \E a \in Agents : StopOrStart(a) \/ (\E p \in Procs : Move(a, p)) \/ (\E c \in Configs : DropConfig(a, c))
  \/ \E a \in Agents : Heartbeat(a) \/ ReportStatus(a) \/ Serve(a)
  \/ \E p \in Procs : Sweep(p) \/ Restart(p)
  \/ Tick

Spec == Init /\ [][Next]_vars

(* Agents that run send heartbeats, requests and sweeps are carried out,   *)
(* and time passes.                                                        *)
Fairness ==
  /\ \A a \in Agents : WF_vars(Heartbeat(a)) /\ WF_vars(Serve(a))
  /\ \A p \in Procs : WF_vars(Sweep(p))
  /\ WF_vars(Tick)

FairSpec == Spec /\ Fairness

-----------------------------------------------------------------------------
(***************************************************************************)
(* The lists, and what the metrics make of them.                           *)
(***************************************************************************)
(* ListAgents at process p: the agents and the ages of their heartbeats.   *)
Ages(p) == IF HasRedis THEN listed ELSE seen[p]
ListAgents(p) == {a \in Agents : Ages(p)[a] # Never}

ListStatuses(p) ==
  IF HasRedis THEN {s \in Agents \X Configs : hash[s[1]][s[2]] # Never} ELSE noted[p]

(* Collect and CollectProto: configserver_agents_online_total and the      *)
(* series of agent_config.                                                 *)
Online(p) == {a \in ListAgents(p) : Ages(p)[a] <= Window}
Unlabelled(p) == {s \in ListStatuses(p) : s[1] \notin ListAgents(p)}

-----------------------------------------------------------------------------
(***************************************************************************)
(* Properties                                                              *)
(***************************************************************************)
Reachable(p) == HasRedis \/ p = Home

(* The parts from each member to the back are those of a list: one begins  *)
(* with its agent, contains the later ones and not the earlier ones.       *)
IsList(list) ==
  /\ list \in [Agents -> SUBSET Agents]
  /\ \A a \in Members(list) : a \in list[a] /\ list[a] \subseteq Members(list)
  /\ \A a, b \in Members(list) :
       /\ b \in list[a] => list[b] \subseteq list[a]
       /\ a \in list[b] \/ b \in list[a]
       /\ a \in list[b] /\ b \in list[a] => a = b

(* Types; map and list of a process have the same agents, each once, and   *)
(* neither map exceeds its limit.                                          *)
TypeOK ==
  /\ mode \in {"memory", "redis", "hfe"}
  /\ up \subseteq Agents /\ beaten \subseteq Agents
  /\ at \in [Agents -> Procs] /\ holds \in [Agents -> SUBSET Configs]
  /\ seen \in [Procs -> [Agents -> 0..Stale \cup {Never}]]
  /\ \A p \in Procs :
       /\ IsList(lru[p]) /\ Cardinality(Members(lru[p])) <= MaxAgents
       /\ Members(lru[p]) = {a \in Agents : Known(p, a)}
       /\ noted[p] \subseteq Agents \X Configs /\ Cardinality(noted[p]) <= MaxStatuses
       /\ orphans[p] \subseteq Agents
  /\ listed \in [Agents -> Age \cup {Never}] /\ hash \in [Agents -> [Configs -> Age \cup {Never}]]
  /\ req \in [Agents -> [pc : {"idle", "publish", "note"} \cup Configs, at : Procs, todo : SUBSET Configs]]
  /\ sweep \in [Procs -> [pc : {"idle", "statuses", "key", "hash"}, ids : SUBSET Agents, id : Agents \cup {Never}]]
  /\ changes \in 0..MaxChanges /\ faults \in 0..MaxFaults

(* A full registry pushes out an agent that has been silent the longest:   *)
(* the list is in the order of the heartbeats, after whatever sweeps and   *)
(* returns of forgotten agents.                                            *)
OldestIsLast ==
  \A p \in Procs : \A a \in Agents : \A b \in lru[p][a] : seen[p][a] <= seen[p][b]

(* A status in memory belongs to an agent the process knows or is just     *)
(* forgetting.  The exceptions are statuses of agents pushed out of a full *)
(* registry and reports of agents the process did not know.                *)
StatusHasAgent ==
  \A p \in Procs : \A s \in noted[p] :
    \/ Known(p, s[1])
    \/ s[1] \in orphans[p]
    \/ sweep[p].pc = "statuses" /\ s[1] \in sweep[p].ids

(* A running agent ends up in the lists and counted as online, although    *)
(* every process it used to talk to deletes its entries sooner or later    *)
(* and Redis and processes may fail.  Without Redis that takes room for it.*)
SeenIsListed ==
  <>[](HasRedis \/ Cardinality(up) <= MaxAgents =>
         \A p \in Procs : Reachable(p) => up \subseteq Online(p))

(* What is over is forgotten: agents that stopped, by all processes and in *)
(* Redis, with their statuses, and with HEXPIRE the statuses of            *)
(* configurations an agent has dropped.                                    *)
GoneIsForgotten ==
  <>[](/\ \A p \in Procs : ListAgents(p) \subseteq up /\ (HasRedis => Unlabelled(p) = {})
       /\ \A p \in Procs : \A s \in noted[p] : s[1] \in up \cup orphans[p]
       /\ mode = "hfe" => \A a \in Agents, c \in Configs : c \notin holds[a] => hash[a][c] = Never)
=============================================================================
