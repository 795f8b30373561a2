------------------------ MODULE AgentRegistryProofs ------------------------
(* Proofs about AgentRegistry: the types and the agreement of map and list, *)
(* the order of the list of agents, and the owners of the statuses, for     *)
(* every set of processes, agents and configurations and every limit.       *)
(*                                                                          *)
(* The invariant is inductive with one addition: both maps of a process     *)
(* are finite.  That a full list has exactly one last agent is the only     *)
(* argument about finite sets: among the parts of the list, which are       *)
(* finite sets, one contains no other.                                      *)
EXTENDS AgentRegistry, FiniteSetTheorems, WellFoundedInduction, TLAPS

-----------------------------------------------------------------------------
(***************************************************************************)
(* The list of agents                                                      *)
(***************************************************************************)
(* A list with nobody in it.                                               *)
LEMMA EmptyIsList == IsList(EmptyList) /\ Members(EmptyList) = {}
BY DEF IsList, EmptyList, Members

(* Taking elements out of a list leaves a list of the others, in the same  *)
(* order.                                                                  *)
LEMMA RemovedIsList ==
  ASSUME NEW list, IsList(list), NEW ids
  PROVE  /\ IsList(Removed(list, ids))
         /\ Members(Removed(list, ids)) = Members(list) \ ids
         /\ \A a \in Agents : Removed(list, ids)[a] \subseteq list[a] \ ids
<1>1. /\ Removed(list, ids) \in [Agents -> SUBSET Agents]
      /\ \A a \in Agents : Removed(list, ids)[a] = IF a \in ids THEN {} ELSE list[a] \ ids
  BY DEF Removed, IsList
<1>2. Members(Removed(list, ids)) = Members(list) \ ids
  BY <1>1 DEF Members, IsList
<1>3. IsList(Removed(list, ids))
  BY <1>1, <1>2 DEF IsList, Members
<1> QED BY <1>1, <1>2, <1>3

(* Putting an agent in front of a list it is not in.                       *)
LEMMA PushedFrontIsList ==
  ASSUME NEW list, IsList(list), NEW a \in Agents, a \notin Members(list)
  PROVE  /\ IsList(PushedFront(list, a))
         /\ Members(PushedFront(list, a)) = Members(list) \cup {a}
         /\ \A b \in Agents : b # a => PushedFront(list, a)[b] = list[b]
<1> DEFINE new == PushedFront(list, a)
<1>1. /\ new \in [Agents -> SUBSET Agents]
      /\ new[a] = Members(list) \cup {a}
      /\ \A b \in Agents : b # a => new[b] = list[b]
  BY DEF PushedFront, IsList, Members
<1>2. Members(new) = Members(list) \cup {a}
  BY <1>1 DEF Members
<1>3. \A b \in Members(list) : b # a /\ new[b] = list[b] /\ a \notin new[b]
  BY <1>1 DEF IsList, Members
<1> HIDE DEF new
<1>4. \A b \in Members(new) : b \in new[b] /\ new[b] \subseteq Members(new)
  BY <1>1, <1>2, <1>3 DEF IsList
<1>5. ASSUME NEW b \in Members(new), NEW c \in Members(new)
      PROVE  /\ c \in new[b] => new[c] \subseteq new[b]
             /\ b \in new[c] \/ c \in new[b]
             /\ b \in new[c] /\ c \in new[b] => b = c
  BY <1>1, <1>2, <1>3 DEF IsList
<1>6. IsList(new)
  BY <1>1, <1>4, <1>5 DEF IsList
<1> QED BY <1>1, <1>2, <1>6 DEF new

(* Of finitely many sets one contains no other.                            *)
LEMMA SomeSetIsMinimal ==
  ASSUME NEW S, IsFiniteSet(S), NEW T, T \subseteq SUBSET S, T # {}
  PROVE  \E x \in T : \A y \in T : y \subseteq x => y = x
<1>1. T \subseteq FiniteSubsetsOf(S)
  BY FS_Subset DEF FiniteSubsetsOf
<1>2. \E x \in T : \A y \in T : <<y, x>> \notin StrictSubsetOrdering(S)
  BY <1>1, FS_StrictSubsetOrderingWellFounded, WFMin
<1> QED BY <1>2 DEF StrictSubsetOrdering

(* A finite list that is not empty has exactly one last member.            *)
LEMMA OneIsBack ==
  ASSUME NEW list, IsList(list), IsFiniteSet(Members(list)), Members(list) # {}
  PROVE  \E b \in Members(list) : Back(list) = {b}
<1> DEFINE parts == {list[a] : a \in Members(list)}
<1>1. parts \subseteq SUBSET Members(list) /\ parts # {}
  BY DEF IsList
<1>2. PICK x \in parts : \A y \in parts : y \subseteq x => y = x
  <2> HIDE DEF parts
  <2> QED BY <1>1, SomeSetIsMinimal
<1>3. PICK b \in Members(list) : x = list[b]
  OBVIOUS
<1>4. list[b] = {b}
  <2>1. ASSUME NEW c \in list[b] PROVE c = b
    <3>1. c \in Members(list) /\ list[c] \subseteq list[b]
      BY <1>3 DEF IsList
    <3>2. list[c] = list[b]
      BY <3>1, <1>2, <1>3
    <3> QED BY <3>1, <3>2, <1>3 DEF IsList
  <2> QED BY <2>1 DEF IsList
<1>5. ASSUME NEW c \in Back(list) PROVE c = b
  <2>1. c \in Members(list) /\ list[c] = {c}
    BY DEF Back, Members
  <2> QED BY <2>1, <1>3, <1>4 DEF IsList
<1>6. b \in Back(list)
  BY <1>3, <1>4 DEF Back, Members
<1> QED BY <1>5, <1>6

-----------------------------------------------------------------------------
(***************************************************************************)
(* The memory of one process.  Types and limits are those of TypeOK; Joined *)
(* says so for one process, of given maps.                                 *)
(***************************************************************************)
Joined(ages, list) ==
  /\ ages \in [Agents -> 0..Stale \cup {Never}]
  /\ IsList(list) /\ IsFiniteSet(Members(list)) /\ Cardinality(Members(list)) <= MaxAgents
  /\ Members(list) = {a \in Agents : ages[a] # Never}

Sorted(ages, list) == \A a \in Agents : \A b \in list[a] : ages[a] <= ages[b]

(* A heartbeat puts the agent in front and pushes out at most one other,   *)
(* the last one, which makes room in a full list.                          *)
LEMMA RegisterKeeps ==
  ASSUME NEW p \in Procs, NEW a \in Agents, Joined(seen[p], lru[p]), Sorted(seen[p], lru[p])
  PROVE  LET out == PushedOut(p, a)
             list == Placed(lru[p], out, a)
             ages == [b \in Agents |-> IF b = a THEN 0 ELSE IF b \in out THEN Never ELSE seen[p][b]]
         IN  Joined(ages, list) /\ Sorted(ages, list)
<1> DEFINE old == lru[p]
           out == PushedOut(p, a)
           gone == IF a \in Members(old) THEN {a} ELSE out
           rest == Removed(old, gone)
           list == Placed(old, out, a)
           ages == [b \in Agents |-> IF b = a THEN 0 ELSE IF b \in out THEN Never ELSE seen[p][b]]
<1>1. /\ seen[p] \in [Agents -> 0..Stale \cup {Never}]
      /\ IsList(old) /\ IsFiniteSet(Members(old)) /\ Cardinality(Members(old)) \in Nat
      /\ Cardinality(Members(old)) <= MaxAgents /\ MaxAgents \in Nat \ {0}
      /\ Members(old) = {b \in Agents : Known(p, b)}
      /\ \A b \in Agents : \A c \in old[b] : seen[p][b] <= seen[p][c]
  BY FS_CardinalityType, LimitAssumption DEF Joined, Sorted, Known
<1>2. out \subseteq Members(old) /\ a \notin out
  BY <1>1 DEF PushedOut, Back, Members
<1>3. list = PushedFront(rest, a)
  BY DEF Placed
<1>4. /\ IsList(rest) /\ Members(rest) = Members(old) \ gone /\ a \notin Members(rest)
      /\ \A b \in Agents : rest[b] \subseteq old[b] \ gone
  <2>1. /\ IsList(rest) /\ Members(rest) = Members(old) \ gone
        /\ \A b \in Agents : rest[b] \subseteq old[b] \ gone
    <3> HIDE DEF old, gone
    <3> QED BY <1>1, RemovedIsList
  <2>2. a \in gone \/ a \notin Members(old)
    OBVIOUS
  <2> QED BY <2>1, <2>2
<1>5. /\ IsList(list) /\ Members(list) = (Members(old) \ gone) \cup {a}
      /\ \A b \in Agents : b # a => list[b] = rest[b]
  <2> DEFINE pushed == PushedFront(rest, a)
  <2>1. /\ IsList(pushed) /\ Members(pushed) = Members(rest) \cup {a}
        /\ \A b \in Agents : b # a => pushed[b] = rest[b]
    <3> HIDE DEF rest
    <3> QED BY <1>4, PushedFrontIsList
  <2> HIDE DEF rest, list, gone, pushed
  <2>2. list = pushed
    BY <1>3 DEF pushed
  <2> QED BY <2>1, <2>2, <1>4
<1>6. Members(list) = {b \in Agents : ages[b] # Never}
  <2>1. \A b \in Agents : b \in Members(old) <=> seen[p][b] # Never
    BY <1>1 DEF Known
  <2>3. Members(list) = (Members(old) \ out) \cup {a}
    BY <1>5, <1>2 DEF PushedOut
  <2>4. \A b \in Agents : ages[b] = IF b = a THEN 0 ELSE IF b \in out THEN Never ELSE seen[p][b]
    OBVIOUS
  <2>5. Members(list) \subseteq Agents /\ Never # 0
    BY NeverAssumption DEF Members
  <2> HIDE DEF out, ages, list, gone, rest
  <2> QED BY <2>1, <2>3, <2>4, <2>5, <1>2
<1>7. IsFiniteSet(Members(list)) /\ Cardinality(Members(list)) <= MaxAgents
  <2>1. CASE a \in Members(old)
    <3>1. Members(list) = Members(old)
      BY <1>5, <2>1
    <3> QED BY <3>1, <1>1
  <2>2. CASE a \notin Members(old) /\ Cardinality(Members(old)) < MaxAgents
    <3>1. Members(list) = Members(old) \cup {a}
      BY <1>5, <1>1, <2>2 DEF PushedOut
    <3>2. IsFiniteSet(Members(old) \cup {a}) /\ Cardinality(Members(old) \cup {a}) = Cardinality(Members(old)) + 1
      BY <1>1, <2>2, FS_AddElement
    <3> QED BY <3>1, <3>2, <2>2, <1>1
  <2>3. CASE a \notin Members(old) /\ ~(Cardinality(Members(old)) < MaxAgents)
    <3>1. Members(old) # {}
      BY <1>1, <2>3, FS_EmptySet
    <3>2. PICK last \in Members(old) : Back(old) = {last}
      BY <3>1, <1>1, OneIsBack
    <3>3. Members(list) = (Members(old) \ {last}) \cup {a}
      BY <3>2, <1>5, <1>1, <2>3 DEF PushedOut
    <3>4. IsFiniteSet(Members(old) \ {last}) /\ Cardinality(Members(old) \ {last}) = Cardinality(Members(old)) - 1
      BY <1>1, FS_RemoveElement
    <3>5. /\ IsFiniteSet((Members(old) \ {last}) \cup {a})
          /\ Cardinality((Members(old) \ {last}) \cup {a}) = Cardinality(Members(old) \ {last}) + 1
      BY <3>4, <2>3, FS_AddElement
    <3> QED BY <3>3, <3>4, <3>5, <1>1
  <2> QED BY <2>1, <2>2, <2>3
<1>8. ages \in [Agents -> 0..Stale \cup {Never}]
  BY <1>1, TimeAssumption
<1>9. Sorted(ages, list)
  <2>1. ASSUME NEW b \in Agents, NEW c \in list[b] PROVE ages[b] <= ages[c]
    <3>1. c \in Agents /\ b \in Members(list) /\ c \in Members(list)
      BY <1>5 DEF IsList, Members
    <3>2. ages[b] \in 0..Stale /\ ages[c] \in 0..Stale
      BY <3>1, <1>6, <1>8
    <3>3. CASE b = a
      BY <3>2, <3>3
    <3>4. CASE b # a
      <4>1. c \in old[b] \ gone
        BY <3>4, <1>5, <1>4
      <4>2. c # a
        BY <3>4, <1>5, <1>4, <3>1 DEF IsList, Members
      <4>3. ages[b] = seen[p][b] /\ ages[c] = seen[p][c]
        BY <3>1, <3>2, <3>4, <4>2, NeverAssumption
      <4> QED BY <4>1, <4>3, <1>1
    <3> QED BY <3>3, <3>4
  <2> QED BY <2>1 DEF Sorted
<1> HIDE DEF ages, list, out
<1>10. Joined(ages, list) /\ Sorted(ages, list)
  BY <1>5, <1>6, <1>7, <1>8, <1>9 DEF Joined
<1> QED BY <1>10 DEF ages, list, out

(* A sweep takes the same agents out of the map and of the list.           *)
LEMMA ForgetKeeps ==
  ASSUME NEW ages, NEW list, NEW ids \in SUBSET Agents, Joined(ages, list), Sorted(ages, list)
  PROVE  LET rest == Removed(list, ids)
             younger == [a \in Agents |-> IF a \in ids THEN Never ELSE ages[a]]
         IN  Joined(younger, rest) /\ Sorted(younger, rest)
<1> DEFINE rest == Removed(list, ids)
           younger == [a \in Agents |-> IF a \in ids THEN Never ELSE ages[a]]
<1>1. /\ IsList(rest) /\ Members(rest) = Members(list) \ ids
      /\ \A a \in Agents : rest[a] \subseteq list[a] \ ids
  BY RemovedIsList DEF Joined
<1>2. IsFiniteSet(Members(rest)) /\ Cardinality(Members(rest)) <= MaxAgents
  <2>1. IsFiniteSet(Members(list)) /\ Cardinality(Members(list)) \in Nat /\ Cardinality(Members(list)) <= MaxAgents
    BY FS_CardinalityType DEF Joined
  <2>2. Members(rest) \subseteq Members(list)
    BY <1>1
  <2>3. IsFiniteSet(Members(rest)) /\ Cardinality(Members(rest)) \in Nat /\ Cardinality(Members(rest)) <= Cardinality(Members(list))
    BY <2>1, <2>2, FS_Subset, FS_CardinalityType
  <2> QED BY <2>1, <2>3, LimitAssumption
<1>3. younger \in [Agents -> 0..Stale \cup {Never}] /\ Members(rest) = {a \in Agents : younger[a] # Never}
  BY <1>1 DEF Joined
<1>4. Sorted(younger, rest)
  <2>1. ASSUME NEW b \in Agents, NEW c \in rest[b] PROVE younger[b] <= younger[c]
    <3>1. c \in Agents /\ b \in Members(rest) /\ b \notin ids /\ c \in list[b] \ ids
      BY <1>1 DEF IsList, Members
    <3> QED BY <3>1 DEF Sorted
  <2> QED BY <2>1 DEF Sorted
<1> HIDE DEF rest, younger
<1>5. Joined(younger, rest)
  BY <1>1, <1>2, <1>3 DEF Joined
<1> QED BY <1>4, <1>5 DEF rest, younger

(* Time makes every known agent older and leaves the order as it is.       *)
LEMMA OlderKeeps ==
  ASSUME NEW ages, NEW list, Joined(ages, list), Sorted(ages, list)
  PROVE  LET older == [a \in Agents |-> Older(ages[a], Stale)]
         IN  Joined(older, list) /\ Sorted(older, list)
<1> DEFINE older == [a \in Agents |-> Older(ages[a], Stale)]
<1>1. /\ older \in [Agents -> 0..Stale \cup {Never}]
      /\ \A a \in Agents : older[a] # Never <=> ages[a] # Never
  BY TimeAssumption, NeverAssumption DEF Joined, Older
<1>2. Joined(older, list)
  <2> HIDE DEF older
  <2> QED BY <1>1 DEF Joined
<1>3. Sorted(older, list)
  <2>1. ASSUME NEW b \in Agents, NEW c \in list[b] PROVE older[b] <= older[c]
    <3>1. c \in Agents /\ b \in Members(list) /\ c \in Members(list)
      BY DEF Joined, IsList, Members
    <3>2. ages[b] \in 0..Stale /\ ages[c] \in 0..Stale /\ ages[b] <= ages[c]
      BY <3>1 DEF Joined, Sorted
    <3> QED BY <3>1, <3>2, TimeAssumption, NeverAssumption DEF Older
  <2> QED BY <2>1 DEF Sorted
<1> QED BY <1>2, <1>3

(* The map of statuses never exceeds its limit.                            *)
LEMMA NotedKeeps ==
  ASSUME NEW old \in SUBSET (Agents \X Configs), NEW s \in Agents \X Configs,
         IsFiniteSet(old), Cardinality(old) <= MaxStatuses
  PROVE  /\ Noted(old, s) \in SUBSET (Agents \X Configs) /\ IsFiniteSet(Noted(old, s))
         /\ Cardinality(Noted(old, s)) <= MaxStatuses
<1>1. Cardinality(old) \in Nat /\ MaxStatuses \in Nat
  BY FS_CardinalityType, LimitAssumption
<1>2. CASE s \in old
  BY <1>2, <1>1, FS_AddElement DEF Noted
<1>3. CASE s \notin old
  <2>1. IsFiniteSet(old \cup {s}) /\ Cardinality(old \cup {s}) = Cardinality(old) + 1
    BY <1>3, FS_AddElement
  <2> QED BY <2>1, <1>1 DEF Noted
<1> QED BY <1>2, <1>3

LEMMA PurgedKeeps ==
  ASSUME NEW old \in SUBSET (Agents \X Configs), NEW ids, IsFiniteSet(old), Cardinality(old) <= MaxStatuses
  PROVE  /\ Purged(old, ids) \in SUBSET (Agents \X Configs) /\ IsFiniteSet(Purged(old, ids))
         /\ Cardinality(Purged(old, ids)) <= MaxStatuses
<1>1. Purged(old, ids) \subseteq old
  BY DEF Purged
<1>2. /\ IsFiniteSet(Purged(old, ids)) /\ Cardinality(Purged(old, ids)) \in Nat
      /\ Cardinality(Purged(old, ids)) <= Cardinality(old) /\ Cardinality(old) \in Nat
  BY <1>1, FS_Subset, FS_CardinalityType
<1> QED BY <1>1, <1>2, LimitAssumption

-----------------------------------------------------------------------------
(***************************************************************************)
(* The inductive invariant                                                 *)
(***************************************************************************)
ListsAreSorted == \A p \in Procs : Joined(seen[p], lru[p]) /\ Sorted(seen[p], lru[p])

NotedIsSmall ==
  \A p \in Procs :
    noted[p] \in SUBSET (Agents \X Configs) /\ IsFiniteSet(noted[p]) /\ Cardinality(noted[p]) <= MaxStatuses

AgentsTyped ==
  /\ mode \in {"memory", "redis", "hfe"}
  /\ up \subseteq Agents /\ beaten \subseteq Agents
  /\ at \in [Agents -> Procs] /\ holds \in [Agents -> SUBSET Configs]
  /\ changes \in 0..MaxChanges /\ faults \in 0..MaxFaults

MemoryTyped ==
  /\ seen = [p \in Procs |-> seen[p]] /\ DOMAIN lru = Procs /\ DOMAIN noted = Procs
  /\ orphans \in [Procs -> SUBSET Agents]

RedisTyped == listed \in [Agents -> Age \cup {Never}] /\ hash \in [Agents -> [Configs -> Age \cup {Never}]]

Requests == [pc : {"idle", "publish", "note"} \cup Configs, at : Procs, todo : SUBSET Configs]
Sweeps == [pc : {"idle", "statuses", "key", "hash"}, ids : SUBSET Agents, id : Agents \cup {Never}]
WorkTyped == req \in [Agents -> Requests] /\ sweep \in [Procs -> Sweeps]

Typed == AgentsTyped /\ MemoryTyped /\ RedisTyped /\ WorkTyped

IInv == Typed /\ ListsAreSorted /\ NotedIsSmall /\ StatusHasAgent

LEMMA IdleTyped == Idle \in Requests /\ Asleep \in Sweeps
BY HomeAssumption DEF Idle, Asleep, Requests, Sweeps

LEMMA SavingTyped ==
  ASSUME NEW p \in Procs, NEW todo \in SUBSET Configs
  PROVE  Saving(p, todo) \in Requests
BY IdleTyped DEF Saving, Requests

LEMMA OlderTyped ==
  /\ \A age \in Age \cup {Never} : Older(age, Expiry) \in Age \cup {Never} /\ OlderKey(age) \in Age \cup {Never}
  /\ \A h \in [Configs -> Age \cup {Never}] : OlderHash(h) \in [Configs -> Age \cup {Never}]
<1>1. \A age \in Age \cup {Never} : Older(age, Expiry) \in Age \cup {Never} /\ OlderKey(age) \in Age \cup {Never}
  BY TimeAssumption, NeverAssumption DEF Older, OlderKey, Age
<1>2. ASSUME NEW h \in [Configs -> Age \cup {Never}]
      PROVE OlderHash(h) \in [Configs -> Age \cup {Never}]
  <2> DEFINE older == [c \in Configs |-> Older(h[c], Expiry)]
  <2>1. older \in [Configs -> Age \cup {Never}]
    BY <1>1
  <2>2. [c \in Configs |-> IF older[c] = Expiry THEN Never ELSE older[c]] \in [Configs -> Age \cup {Never}]
    BY <2>1
  <2>3. NoStatus \in [Configs -> Age \cup {Never}]
    BY DEF NoStatus
  <2> QED BY <2>1, <2>2, <2>3 DEF OlderHash
<1> QED BY <1>1, <1>2

(* Initially nothing is known.                                             *)
LEMMA InitIInv == Init => IInv
<1> SUFFICES ASSUME Init PROVE IInv
  OBVIOUS
<1>1. AgentsTyped /\ MemoryTyped /\ RedisTyped /\ WorkTyped
  BY HomeAssumption, BoundAssumption, IdleTyped
     DEF Init, AgentsTyped, MemoryTyped, RedisTyped, WorkTyped, NoStatus
<1>2. ASSUME NEW p \in Procs PROVE Joined(seen[p], lru[p]) /\ Sorted(seen[p], lru[p])
  <2>1. seen[p] = [a \in Agents |-> Never] /\ lru[p] = EmptyList
    BY DEF Init
  <2>2. IsFiniteSet({}) /\ Cardinality({}) <= MaxAgents
    BY FS_EmptySet, LimitAssumption
  <2>3. \A a \in Agents : EmptyList[a] = {}
    BY DEF EmptyList
  <2> QED BY <2>1, <2>2, <2>3, EmptyIsList DEF Joined, Sorted
<1>3. NotedIsSmall
  BY FS_EmptySet, LimitAssumption DEF Init, NotedIsSmall
<1>4. StatusHasAgent
  BY DEF Init, StatusHasAgent
<1> QED BY <1>1, <1>2, <1>3, <1>4 DEF IInv, Typed, ListsAreSorted

-----------------------------------------------------------------------------
(***************************************************************************)
(* What a step leaves alone in memory                                      *)
(***************************************************************************)
(* The lists change by a heartbeat, a sweep, a restart or time.            *)
LEMMA ListSteps ==
  ASSUME [Next]_vars
  PROVE  \/ UNCHANGED <<seen, lru>>
         \/ \E a \in Agents : Heartbeat(a)
         \/ \E p \in Procs : SweepAgents(p) \/ Restart(p)
         \/ Tick
BY DEF Next, vars, memory, redis, agentvars, Change, StopOrStart, Move, DropConfig, ReportStatus, Serve,
       Publish, NoteStatus, RecordStatus, Sweep, SweepStatuses, DeleteKey, DeleteHash

LEMMA HeartbeatSorted ==
  ASSUME IInv, NEW a \in Agents, Heartbeat(a)
  PROVE  ListsAreSorted'
<1> DEFINE p == at[a]
           out == PushedOut(p, a)
           list == Placed(lru[p], out, a)
           ages == [b \in Agents |-> IF b = a THEN 0 ELSE IF b \in out THEN Never ELSE seen[p][b]]
<1>1. p \in Procs /\ DOMAIN seen = Procs /\ DOMAIN lru = Procs
  BY DEF IInv, Typed, AgentsTyped, MemoryTyped
<1>2. Joined(ages, list) /\ Sorted(ages, list)
  BY <1>1, RegisterKeeps DEF IInv, ListsAreSorted
<1>3. lru' = [lru EXCEPT ![p] = list] /\ seen' = [seen EXCEPT ![p] = ages]
  BY DEF Heartbeat, Register
<1> HIDE DEF p, out, list, ages
<1>4. \A q \in Procs : /\ lru'[q] = IF q = p THEN list ELSE lru[q]
                       /\ seen'[q] = IF q = p THEN ages ELSE seen[q]
  BY <1>1, <1>3
<1> QED BY <1>2, <1>4 DEF IInv, ListsAreSorted

LEMMA SweepSorted ==
  ASSUME IInv, NEW p \in Procs, SweepAgents(p)
  PROVE  ListsAreSorted'
<1> DEFINE ids == StaleAgents(p)
           list == Removed(lru[p], ids)
           ages == [a \in Agents |-> IF a \in ids THEN Never ELSE seen[p][a]]
<1>1. DOMAIN seen = Procs /\ DOMAIN lru = Procs /\ ids \in SUBSET Agents
  BY DEF IInv, Typed, MemoryTyped, StaleAgents
<1>2. Joined(ages, list) /\ Sorted(ages, list)
  BY <1>1, ForgetKeeps DEF IInv, ListsAreSorted
<1>3. lru' = [lru EXCEPT ![p] = list] /\ seen' = [seen EXCEPT ![p] = ages]
  BY DEF SweepAgents, Forget, Unseen
<1> HIDE DEF ids, list, ages
<1>4. \A q \in Procs : /\ lru'[q] = IF q = p THEN list ELSE lru[q]
                       /\ seen'[q] = IF q = p THEN ages ELSE seen[q]
  BY <1>1, <1>3
<1> QED BY <1>2, <1>4 DEF IInv, ListsAreSorted

LEMMA RestartSorted ==
  ASSUME IInv, NEW p \in Procs, Restart(p)
  PROVE  ListsAreSorted'
<1>1. DOMAIN seen = Procs /\ DOMAIN lru = Procs
  BY DEF IInv, Typed, MemoryTyped
<1>2. \A q \in Procs : /\ lru'[q] = IF q = p THEN EmptyList ELSE lru[q]
                       /\ seen'[q] = IF q = p THEN [a \in Agents |-> Never] ELSE seen[q]
  BY <1>1 DEF Restart
<1>3. Joined([a \in Agents |-> Never], EmptyList) /\ Sorted([a \in Agents |-> Never], EmptyList)
  <2>1. IsFiniteSet({}) /\ Cardinality({}) <= MaxAgents
    BY FS_EmptySet, LimitAssumption
  <2>2. \A a \in Agents : EmptyList[a] = {}
    BY DEF EmptyList
  <2> QED BY <2>1, <2>2, EmptyIsList DEF Joined, Sorted
<1> QED BY <1>2, <1>3 DEF IInv, ListsAreSorted

LEMMA TickSorted ==
  ASSUME IInv, Tick
  PROVE  ListsAreSorted'
<1>1. ASSUME NEW p \in Procs PROVE Joined(seen'[p], lru'[p]) /\ Sorted(seen'[p], lru'[p])
  <2> DEFINE ages == seen[p]
             list == lru[p]
             older == [a \in Agents |-> Older(ages[a], Stale)]
  <2>1. seen'[p] = older /\ lru'[p] = list
    BY DEF Tick
  <2>2. Joined(ages, list) /\ Sorted(ages, list)
    BY DEF IInv, ListsAreSorted
  <2> HIDE DEF ages, list
  <2>3. Joined(older, list) /\ Sorted(older, list)
    BY <2>2, OlderKeeps
  <2> QED BY <2>1, <2>3
<1> QED BY <1>1 DEF ListsAreSorted

LEMMA NextSorted == IInv /\ [Next]_vars => ListsAreSorted'
<1> SUFFICES ASSUME IInv, [Next]_vars PROVE ListsAreSorted'
  OBVIOUS
<1>1. CASE UNCHANGED <<seen, lru>>
  BY <1>1 DEF IInv, ListsAreSorted
<1> QED BY <1>1, ListSteps, HeartbeatSorted, SweepSorted, RestartSorted, TickSorted

-----------------------------------------------------------------------------
(***************************************************************************)
(* Types                                                                   *)
(***************************************************************************)
LEMMA NextAgents == IInv /\ [Next]_vars => AgentsTyped'
<1> SUFFICES ASSUME IInv, [Next]_vars PROVE AgentsTyped'
  OBVIOUS
<1> USE BoundAssumption DEF IInv, Typed, AgentsTyped
<1>1. ASSUME NEW a \in Agents, StopOrStart(a) PROVE AgentsTyped'
  BY <1>1 DEF StopOrStart, Change
<1>2. ASSUME NEW a \in Agents, NEW p \in Procs, Move(a, p) PROVE AgentsTyped'
  BY <1>2 DEF Move, Change
<1>3. ASSUME NEW a \in Agents, NEW c \in Configs, DropConfig(a, c) PROVE AgentsTyped'
  BY <1>3 DEF DropConfig, Change
<1>4. ASSUME NEW a \in Agents, Heartbeat(a) PROVE AgentsTyped'
  BY <1>4 DEF Heartbeat, agentvars
<1>5. ASSUME NEW a \in Agents, ReportStatus(a) PROVE AgentsTyped'
  BY <1>5 DEF ReportStatus
<1>6. ASSUME NEW a \in Agents, Serve(a) PROVE AgentsTyped'
  BY <1>6 DEF Serve, Publish, NoteStatus, RecordStatus, Fail, agentvars
<1>7. ASSUME NEW p \in Procs, Sweep(p) PROVE AgentsTyped'
  BY <1>7 DEF Sweep, SweepAgents, SweepStatuses, DeleteKey, DeleteHash, Fail, agentvars
<1>8. ASSUME NEW p \in Procs, Restart(p) PROVE AgentsTyped'
  BY <1>8 DEF Restart, Fail, agentvars
<1>9. CASE Tick
  BY <1>9 DEF Tick, agentvars
<1>10. CASE UNCHANGED vars
  BY <1>10 DEF vars, agentvars
<1> QED BY <1>1, <1>2, <1>3, <1>4, <1>5, <1>6, <1>7, <1>8, <1>9, <1>10 DEF Next

LEMMA NextMemory == IInv /\ [Next]_vars => MemoryTyped' /\ NotedIsSmall'
<1> SUFFICES ASSUME IInv, [Next]_vars PROVE MemoryTyped' /\ NotedIsSmall'
  OBVIOUS
<1>0. /\ seen = [p \in Procs |-> seen[p]] /\ DOMAIN lru = Procs /\ DOMAIN noted = Procs
      /\ orphans \in [Procs -> SUBSET Agents] /\ NotedIsSmall
      /\ \A a \in Agents : at[a] \in Procs
      /\ \A a \in Agents : req[a].at \in Procs /\ req[a].todo \subseteq Configs
      /\ \A p \in Procs : sweep[p].ids \subseteq Agents
  BY DEF IInv, Typed, AgentsTyped, MemoryTyped, WorkTyped, Requests, Sweeps
<1>1. CASE UNCHANGED memory
  BY <1>0, <1>1 DEF memory, MemoryTyped, NotedIsSmall
<1>2. ASSUME NEW a \in Agents, Heartbeat(a) PROVE MemoryTyped' /\ NotedIsSmall'
  <2>1. PushedOut(at[a], a) \subseteq Agents
    BY DEF PushedOut, Back
  <2>2. /\ DOMAIN lru' = Procs /\ seen' = [p \in Procs |-> seen'[p]] /\ noted' = noted
        /\ orphans' \in [Procs -> SUBSET Agents]
    BY <1>0, <1>2, <2>1 DEF Heartbeat, Register
  <2> QED BY <1>0, <2>2 DEF MemoryTyped, NotedIsSmall
<1>3. ASSUME NEW a \in Agents, NoteStatus(a) PROVE MemoryTyped' /\ NotedIsSmall'
  <2> DEFINE p == req[a].at
  <2>1. PICK c \in req[a].todo : noted' = [noted EXCEPT ![p] = Noted(@, <<a, c>>)]
    BY <1>3 DEF NoteStatus
  <2>2. c \in Configs /\ p \in Procs
    BY <1>0
  <2>3. /\ Noted(noted[p], <<a, c>>) \in SUBSET (Agents \X Configs) /\ IsFiniteSet(Noted(noted[p], <<a, c>>))
        /\ Cardinality(Noted(noted[p], <<a, c>>)) <= MaxStatuses
    <3> DEFINE s == <<a, c>>
               old == noted[p]
    <3>1. s \in Agents \X Configs /\ old \in SUBSET (Agents \X Configs) /\ IsFiniteSet(old) /\ Cardinality(old) <= MaxStatuses
      BY <2>2, <1>0 DEF NotedIsSmall
    <3> HIDE DEF s, old
    <3>2. /\ Noted(old, s) \in SUBSET (Agents \X Configs) /\ IsFiniteSet(Noted(old, s))
          /\ Cardinality(Noted(old, s)) <= MaxStatuses
      BY <3>1, NotedKeeps
    <3> QED BY <3>2 DEF s, old
  <2>4. \A q \in Procs : noted'[q] = IF q = p THEN Noted(noted[p], <<a, c>>) ELSE noted[q]
    BY <2>1, <2>2, <1>0
  <2>5. NotedIsSmall'
    BY <2>3, <2>4, <1>0 DEF NotedIsSmall
  <2>6. orphans' = [orphans EXCEPT ![p] = IF Known(p, a) THEN @ ELSE @ \cup {a}] /\ UNCHANGED <<seen, lru>>
    BY <1>3 DEF NoteStatus
  <2>7. MemoryTyped'
    BY <2>1, <2>6, <1>0 DEF MemoryTyped
  <2> QED BY <2>5, <2>7
<1>4. ASSUME NEW p \in Procs, SweepAgents(p) PROVE MemoryTyped' /\ NotedIsSmall'
  BY <1>0, <1>4 DEF SweepAgents, Forget, Unseen, MemoryTyped, NotedIsSmall
<1>5. ASSUME NEW p \in Procs, SweepStatuses(p) PROVE MemoryTyped' /\ NotedIsSmall'
  <2> DEFINE rest == Purged(noted[p], sweep[p].ids)
  <2>1. rest \in SUBSET (Agents \X Configs) /\ IsFiniteSet(rest) /\ Cardinality(rest) <= MaxStatuses
    BY <1>0, PurgedKeeps DEF NotedIsSmall
  <2> HIDE DEF rest
  <2>2. /\ noted' = [noted EXCEPT ![p] = rest] /\ UNCHANGED <<seen, lru>>
        /\ orphans' = [orphans EXCEPT ![p] = @ \ sweep[p].ids]
    BY <1>5 DEF SweepStatuses, rest
  <2> QED BY <2>1, <2>2, <1>0 DEF MemoryTyped, NotedIsSmall
<1>6. ASSUME NEW p \in Procs, Restart(p) PROVE MemoryTyped' /\ NotedIsSmall'
  <2>1. IsFiniteSet({}) /\ Cardinality({}) <= MaxStatuses
    BY FS_EmptySet, LimitAssumption
  <2> QED BY <1>0, <1>6, <2>1 DEF Restart, MemoryTyped, NotedIsSmall
<1>7. CASE Tick
  BY <1>0, <1>7 DEF Tick, MemoryTyped, NotedIsSmall
<1> QED
  BY <1>1, <1>2, <1>3, <1>4, <1>5, <1>6, <1>7
     DEF Next, vars, memory, Change, StopOrStart, Move, DropConfig, ReportStatus, Serve, Publish, RecordStatus,
         Sweep, DeleteKey, DeleteHash

LEMMA NextRedis == IInv /\ [Next]_vars => RedisTyped'
<1> SUFFICES ASSUME IInv, [Next]_vars PROVE RedisTyped'
  OBVIOUS
<1>0. listed \in [Agents -> Age \cup {Never}] /\ hash \in [Agents -> [Configs -> Age \cup {Never}]] /\ 0 \in Age
  BY TimeAssumption DEF IInv, Typed, RedisTyped, Age
<1>1. CASE UNCHANGED redis
  BY <1>0, <1>1 DEF redis, RedisTyped
<1>2. ASSUME NEW a \in Agents, Publish(a) PROVE RedisTyped'
  BY <1>0, <1>2 DEF Publish, RedisTyped
<1>3. ASSUME NEW a \in Agents, RecordStatus(a) PROVE RedisTyped'
  <2> DEFINE c == req[a].pc
  <2>1. CASE UNCHANGED hash
    BY <1>0, <1>3, <2>1 DEF RecordStatus, RedisTyped
  <2>2. CASE hash' = [hash EXCEPT ![a][c] = 0]
    <3>1. [hash[a] EXCEPT ![c] = 0] \in [Configs -> Age \cup {Never}]
      BY <1>0
    <3>2. hash' = [hash EXCEPT ![a] = [hash[a] EXCEPT ![c] = 0]]
      BY <2>2
    <3> HIDE DEF c
    <3>3. hash' \in [Agents -> [Configs -> Age \cup {Never}]]
      BY <1>0, <3>1, <3>2
    <3> QED BY <1>0, <1>3, <3>3 DEF RecordStatus, RedisTyped
  <2> QED BY <1>3, <2>1, <2>2 DEF RecordStatus
<1>4. ASSUME NEW p \in Procs, DeleteKey(p) PROVE RedisTyped'
  BY <1>0, <1>4 DEF DeleteKey, RedisTyped
<1>5. ASSUME NEW p \in Procs, DeleteHash(p) PROVE RedisTyped'
  <2>1. NoStatus \in [Configs -> Age \cup {Never}]
    BY DEF NoStatus
  <2> QED BY <1>0, <1>5, <2>1 DEF DeleteHash, RedisTyped
<1>6. CASE Tick
  BY <1>0, <1>6, OlderTyped DEF Tick, RedisTyped
<1> QED
  BY <1>1, <1>2, <1>3, <1>4, <1>5, <1>6
     DEF Next, vars, redis, Change, StopOrStart, Move, DropConfig, Heartbeat, ReportStatus, Serve, NoteStatus,
         Sweep, SweepAgents, SweepStatuses, Restart

LEMMA NextWork == IInv /\ [Next]_vars => WorkTyped'
<1> SUFFICES ASSUME IInv, [Next]_vars PROVE WorkTyped'
  OBVIOUS
<1>0. /\ req \in [Agents -> Requests] /\ sweep \in [Procs -> Sweeps]
      /\ at \in [Agents -> Procs] /\ holds \in [Agents -> SUBSET Configs]
      /\ \A a \in Agents : req[a].at \in Procs /\ req[a].todo \subseteq Configs
  BY DEF IInv, Typed, AgentsTyped, WorkTyped, Requests
<1>1. CASE UNCHANGED <<req, sweep>>
  BY <1>0, <1>1 DEF WorkTyped
<1>2. ASSUME NEW a \in Agents, Heartbeat(a) PROVE WorkTyped'
  <2>1. Saving(at[a], holds[a]) \in Requests
    BY <1>0, SavingTyped
  <2>2. [pc |-> "publish", at |-> at[a], todo |-> holds[a]] \in Requests
    BY <1>0 DEF Requests
  <2> QED BY <1>0, <1>2, <2>1, <2>2 DEF Heartbeat, WorkTyped
<1>3. ASSUME NEW a \in Agents, ReportStatus(a) PROVE WorkTyped'
  <2>1. PICK todo \in SUBSET holds[a] : req' = [req EXCEPT ![a] = Saving(at[a], todo)]
    BY <1>3 DEF ReportStatus
  <2>2. Saving(at[a], todo) \in Requests
    BY <1>0, SavingTyped
  <2> QED BY <1>0, <1>3, <2>1, <2>2 DEF ReportStatus, WorkTyped
<1>4. ASSUME NEW a \in Agents, Publish(a) PROVE WorkTyped'
  BY <1>0, <1>4, SavingTyped DEF Publish, WorkTyped
<1>5. ASSUME NEW a \in Agents, NoteStatus(a) PROVE WorkTyped'
  <2>1. PICK c \in req[a].todo :
          req' = [req EXCEPT ![a] = IF HasRedis THEN [req[a] EXCEPT !.pc = c]
                                    ELSE Saving(req[a].at, req[a].todo \ {c})]
    BY <1>5 DEF NoteStatus
  <2>2. [req[a] EXCEPT !.pc = c] \in Requests /\ Saving(req[a].at, req[a].todo \ {c}) \in Requests
    BY <1>0, SavingTyped DEF Requests
  <2> QED BY <1>0, <1>5, <2>1, <2>2 DEF NoteStatus, WorkTyped
<1>6. ASSUME NEW a \in Agents, RecordStatus(a) PROVE WorkTyped'
  <2>1. Saving(req[a].at, req[a].todo \ {req[a].pc}) \in Requests
    BY <1>0, SavingTyped
  <2> QED BY <1>0, <1>6, <2>1 DEF RecordStatus, WorkTyped
<1>7. ASSUME NEW p \in Procs, Sweep(p) PROVE WorkTyped'
  <2>0. sweep[p] \in Sweeps
    BY <1>0
  <2>1. CASE SweepAgents(p)
    <3>1. [pc |-> "statuses", ids |-> StaleAgents(p), id |-> Never] \in Sweeps
      BY DEF Sweeps, StaleAgents
    <3> QED BY <1>0, <2>1, <3>1 DEF SweepAgents, WorkTyped
  <2>2. CASE SweepStatuses(p)
    <3>1. [sweep[p] EXCEPT !.pc = "key"] \in Sweeps
      BY <2>0 DEF Sweeps
    <3> QED BY <1>0, <2>2, <3>1, IdleTyped DEF SweepStatuses, WorkTyped
  <2>3. CASE DeleteKey(p)
    <3>1. PICK a \in sweep[p].ids : sweep' = [sweep EXCEPT ![p] = [pc |-> "hash", ids |-> sweep[p].ids \ {a}, id |-> a]]
      BY <2>3 DEF DeleteKey
    <3>2. [pc |-> "hash", ids |-> sweep[p].ids \ {a}, id |-> a] \in Sweeps
      BY <2>0 DEF Sweeps
    <3> QED BY <1>0, <2>3, <3>1, <3>2 DEF DeleteKey, WorkTyped
  <2>4. CASE DeleteHash(p)
    <3>1. [sweep[p] EXCEPT !.pc = "key", !.id = Never] \in Sweeps
      BY <2>0 DEF Sweeps
    <3> QED BY <1>0, <2>4, <3>1, IdleTyped DEF DeleteHash, WorkTyped
  <2> QED BY <1>7, <2>1, <2>2, <2>3, <2>4 DEF Sweep
<1>8. ASSUME NEW p \in Procs, Restart(p) PROVE WorkTyped'
  BY <1>0, <1>8, IdleTyped DEF Restart, WorkTyped
<1> QED
  BY <1>1, <1>2, <1>3, <1>4, <1>5, <1>6, <1>7, <1>8
     DEF Next, vars, Change, StopOrStart, Move, DropConfig, Serve, Tick

-----------------------------------------------------------------------------
(***************************************************************************)
(* Statuses and their agents                                               *)
(***************************************************************************)
Owned(p, a) ==
  \/ Known(p, a)
  \/ a \in orphans[p]
  \/ sweep[p].pc = "statuses" /\ a \in sweep[p].ids

LEMMA NextStatuses == IInv /\ [Next]_vars => StatusHasAgent'
<1> SUFFICES ASSUME IInv, [Next]_vars, NEW p \in Procs, NEW s \in Agents \X Configs, s \in noted'[p]
             PROVE  Owned(p, s[1])'
  <2>1. ASSUME IInv, [Next]_vars, \A p \in Procs : \A s \in Agents \X Configs : s \in noted'[p] => Owned(p, s[1])'
        PROVE StatusHasAgent'
    <3>1. \A p \in Procs : noted'[p] \subseteq Agents \X Configs
      BY <2>1, NextMemory DEF NotedIsSmall
    <3>2. ASSUME NEW p \in Procs, NEW s \in noted'[p] PROVE Owned(p, s[1])'
      BY <2>1, <3>1
    <3> QED BY <3>2 DEF StatusHasAgent, Owned
  <2> QED BY <2>1
<1> DEFINE a == s[1]
<1>0. /\ DOMAIN seen = Procs /\ DOMAIN noted = Procs /\ orphans \in [Procs -> SUBSET Agents]
      /\ DOMAIN sweep = Procs /\ a \in Agents
      /\ \A q \in Procs : seen[q] \in [Agents -> 0..Stale \cup {Never}]
      /\ s \in noted[p] => Owned(p, a)
  BY DEF IInv, Typed, MemoryTyped, WorkTyped, ListsAreSorted, Joined, StatusHasAgent, Owned
<1> HIDE DEF a
<1>1. CASE UNCHANGED <<seen, noted, orphans, sweep>>
  BY <1>0, <1>1 DEF Owned, Known, a
<1>2. ASSUME NEW b \in Agents, Heartbeat(b) PROVE Owned(p, a)'
  <2> DEFINE q == at[b]
             out == PushedOut(q, b)
  <2>1. /\ seen' = [seen EXCEPT ![q] = [d \in Agents |-> IF d = b THEN 0 ELSE IF d \in out THEN Never ELSE @[d]]]
        /\ orphans' = [orphans EXCEPT ![q] = @ \cup out] /\ UNCHANGED <<noted, sweep>>
    BY <1>2 DEF Heartbeat, Register
  <2> HIDE DEF q, out
  <2>2. Owned(p, a)
    BY <2>1, <1>0
  <2>3. seen'[p][a] = (IF p = q THEN IF a = b THEN 0 ELSE IF a \in out THEN Never ELSE seen[p][a] ELSE seen[p][a])
    BY <2>1, <1>0
  <2>4. orphans'[p] = IF p = q THEN orphans[p] \cup out ELSE orphans[p]
    BY <2>1, <1>0
  <2> QED BY <2>1, <2>2, <2>3, <2>4, NeverAssumption DEF Owned, Known
<1>3. ASSUME NEW b \in Agents, NoteStatus(b) PROVE Owned(p, a)'
  <2> DEFINE q == req[b].at
  <2>1. PICK c \in req[b].todo : noted' = [noted EXCEPT ![q] = Noted(@, <<b, c>>)]
    BY <1>3 DEF NoteStatus
  <2>2. /\ orphans' = [orphans EXCEPT ![q] = IF Known(q, b) THEN @ ELSE @ \cup {b}]
        /\ UNCHANGED <<seen, sweep>>
    BY <1>3 DEF NoteStatus
  <2>3. s \in noted[p] \/ (p = q /\ a = b)
    BY <1>0, <2>1 DEF Noted, a
  <2>4. orphans'[p] = IF p = q /\ ~Known(q, b) THEN orphans[p] \cup {b} ELSE orphans[p]
    BY <2>2, <1>0
  <2> HIDE DEF q
  <2> QED BY <1>0, <2>2, <2>3, <2>4 DEF Owned, Known
<1>4. ASSUME NEW q \in Procs, SweepAgents(q) PROVE Owned(p, a)'
  <2>1. /\ seen' = [seen EXCEPT ![q] = [d \in Agents |-> IF d \in StaleAgents(q) THEN Never ELSE @[d]]]
        /\ sweep[q] = Asleep /\ UNCHANGED <<noted, orphans>>
        /\ sweep' = [sweep EXCEPT ![q] = [pc |-> "statuses", ids |-> StaleAgents(q), id |-> Never]]
    BY <1>4 DEF SweepAgents, Forget, Unseen
  <2>2. Owned(p, a)
    BY <2>1, <1>0
  <2>3. CASE p = q
    <3>1. sweep[p].pc # "statuses"
      BY <2>1, <2>3 DEF Asleep
    <3>2. Known(p, a) \/ a \in orphans[p]
      BY <2>2, <3>1 DEF Owned
    <3>3. sweep'[p].pc = "statuses" /\ sweep'[p].ids = StaleAgents(q)
      BY <2>1, <2>3, <1>0
    <3>4. seen'[p][a] = IF a \in StaleAgents(q) THEN Never ELSE seen[p][a]
      BY <2>1, <2>3, <1>0
    <3> QED BY <2>1, <3>2, <3>3, <3>4 DEF Owned, Known
  <2>4. CASE p # q
    BY <2>1, <2>2, <2>4, <1>0 DEF Owned, Known
  <2> QED BY <2>3, <2>4
<1>5. ASSUME NEW q \in Procs, SweepStatuses(q) PROVE Owned(p, a)'
  <2>1. /\ noted' = [noted EXCEPT ![q] = Purged(@, sweep[q].ids)]
        /\ orphans' = [orphans EXCEPT ![q] = @ \ sweep[q].ids] /\ UNCHANGED seen
        /\ \A r \in Procs : r # q => sweep'[r] = sweep[r]
    BY <1>5, <1>0 DEF SweepStatuses
  <2>2. s \in noted[p] /\ (p = q => a \notin sweep[p].ids)
    BY <2>1, <1>0 DEF Purged, a
  <2>3. orphans'[p] = IF p = q THEN orphans[p] \ sweep[p].ids ELSE orphans[p]
    BY <2>1, <1>0
  <2> QED BY <2>1, <2>2, <2>3, <1>0 DEF Owned, Known
<1>6. ASSUME NEW q \in Procs, DeleteKey(q) \/ DeleteHash(q) PROVE Owned(p, a)'
  <2>1. /\ sweep[q].pc \in {"key", "hash"} /\ UNCHANGED <<seen, noted, orphans>>
        /\ \A r \in Procs : r # q => sweep'[r] = sweep[r]
    BY <1>6, <1>0 DEF DeleteKey, DeleteHash, memory
  <2> QED BY <2>1, <1>0 DEF Owned, Known
<1>7. ASSUME NEW q \in Procs, Restart(q) PROVE Owned(p, a)'
  <2>1. p # q
    BY <1>7, <1>0 DEF Restart
  <2>2. /\ seen'[p] = seen[p] /\ noted'[p] = noted[p] /\ orphans'[p] = orphans[p] /\ sweep'[p] = sweep[p]
    BY <1>7, <2>1, <1>0 DEF Restart
  <2> QED BY <2>2, <1>0 DEF Owned, Known
<1>8. CASE Tick
  <2>1. UNCHANGED <<noted, orphans, sweep>>
    BY <1>8 DEF Tick
  <2>2. seen'[p] = [b \in Agents |-> Older(seen[p][b], Stale)]
    BY <1>8 DEF Tick
  <2>3. seen'[p][a] = Older(seen[p][a], Stale)
    BY <2>2, <1>0
  <2>4. Owned(p, a)
    BY <2>1, <1>0
  <2>5. seen[p][a] # Never => seen'[p][a] # Never
    BY <2>3, <1>0, TimeAssumption, NeverAssumption DEF Older
  <2> QED BY <2>1, <2>5, <2>4 DEF Owned, Known, a
<1> QED
  BY <1>1, <1>2, <1>3, <1>4, <1>5, <1>6, <1>7, <1>8
     DEF Next, vars, memory, Change, StopOrStart, Move, DropConfig, ReportStatus, Serve, Publish, RecordStatus,
         Sweep, a

-----------------------------------------------------------------------------
(***************************************************************************)
(* The theorems                                                            *)
(***************************************************************************)
LEMMA NextIInv == IInv /\ [Next]_vars => IInv'
BY NextAgents, NextMemory, NextRedis, NextWork, NextSorted, NextStatuses DEF IInv, Typed

LEMMA SpecIInv == Spec => []IInv
<1>1. Init => IInv
  BY InitIInv
<1>2. IInv /\ [Next]_vars => IInv'
  BY NextIInv
<1> QED BY <1>1, <1>2, PTL DEF Spec

(* The map of agents and the list of a process have the same agents, each  *)
(* once; neither map exceeds its limit, whatever heartbeats, sweeps and    *)
(* restarts come in whatever order.                                        *)
THEOREM TypeIsOK == Spec => []TypeOK
<1>1. IInv => TypeOK
  <2> SUFFICES ASSUME IInv PROVE TypeOK
    OBVIOUS
  <2>1. seen \in [Procs -> [Agents -> 0..Stale \cup {Never}]]
    <3>1. \A p \in Procs : seen[p] \in [Agents -> 0..Stale \cup {Never}]
      BY DEF IInv, ListsAreSorted, Joined
    <3> QED BY <3>1 DEF IInv, Typed, MemoryTyped
  <2>2. \A p \in Procs :
          /\ IsList(lru[p]) /\ Cardinality(Members(lru[p])) <= MaxAgents
          /\ Members(lru[p]) = {a \in Agents : Known(p, a)}
    BY DEF IInv, ListsAreSorted, Joined, Known
  <2>3. \A p \in Procs :
          noted[p] \subseteq Agents \X Configs /\ Cardinality(noted[p]) <= MaxStatuses /\ orphans[p] \subseteq Agents
    BY DEF IInv, NotedIsSmall, Typed, MemoryTyped
  <2>4. /\ req \in [Agents -> [pc : {"idle", "publish", "note"} \cup Configs, at : Procs, todo : SUBSET Configs]]
        /\ sweep \in [Procs -> [pc : {"idle", "statuses", "key", "hash"}, ids : SUBSET Agents, id : Agents \cup {Never}]]
    BY DEF IInv, Typed, WorkTyped, Requests, Sweeps
  <2> QED BY <2>1, <2>2, <2>3, <2>4 DEF TypeOK, IInv, Typed, AgentsTyped, RedisTyped
<1> QED BY <1>1, SpecIInv, PTL

(* The list of every process is in the order of the heartbeats, so a full  *)
(* registry pushes out an agent that has been silent the longest.          *)
THEOREM TheOldestIsLast == Spec => []OldestIsLast
<1>1. IInv => OldestIsLast
  BY DEF IInv, ListsAreSorted, Sorted, OldestIsLast
<1> QED BY <1>1, SpecIInv, PTL

(* Every status in memory belongs to an agent the process knows or is just *)
(* forgetting, with the two exceptions the history names.                  *)
THEOREM EveryStatusHasAgent == Spec => []StatusHasAgent
<1>1. IInv => StatusHasAgent
  BY DEF IInv
<1> QED BY <1>1, SpecIInv, PTL
=============================================================================
