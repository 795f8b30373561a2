---------------------------- MODULE ResolveCache ---------------------------
(***************************************************************************)
(* The agent-resolution cache of internal/cache/manager.go: which          *)
(* configurations an agent gets, and which canaries are rolling.  Seen     *)
(* for one agent and one configuration: the answer is whether the          *)
(* configuration is delivered, and whether the canary overlays it.         *)
(*                                                                         *)
(* Resolved names are cached per process under a key that starts with the  *)
(* epoch at the time of the request; invalidateResolveCache increments the *)
(* epoch.  The list of rolling canaries is cached under one fixed key.     *)
(***************************************************************************)
EXTENDS Integers, FiniteSets

CONSTANTS
  Managers,   (* processes                                                 *)
  Agents,     (* concurrent requests of the agent                          *)
  Writers,    (* concurrent administrative writes                          *)
  HasRedis,   (* FALSE is the all-in-one mode                              *)
  Onetime,    (* the configuration is a onetime command                    *)
  MaxWrites,  (* bound on the committed writes                             *)
  MaxFaults,  (* bound on lost messages and crashes                        *)
  Nowhere     (* the process of an idle request                            *)

ASSUME BoundAssumption ==
  /\ HasRedis \in BOOLEAN /\ Onetime \in BOOLEAN
  /\ MaxWrites \in Nat /\ MaxFaults \in Nat
ASSUME NameAssumption == Nowhere \notin Managers

(* Without Redis there is a single process (cmd/allinone).                 *)
ASSUME AllInOneAssumption == ~HasRedis => \A m, n \in Managers : m = n

(* Operators named X_Fault are faulty variants of the operator X below     *)
(* them: no action uses them, they show that the properties can fail.      *)

VARIABLES
  mapped,   (* a group of the agent maps the configuration                 *)
  exists,   (* the configuration has a row                                 *)
  canary,   (* the status of its canary row                                *)
  writes,   (* committed writes                                            *)
  epoch,    (* resolveEpoch of each process                                *)
  names,    (* the resolved name sets each process caches                  *)
  list,     (* the cached list of rolling canaries                         *)
  flight,   (* the singleflight call for that list                         *)
  req,      (* the requests                                                *)
  op,       (* the writes                                                  *)
  inbox,    (* flush messages on the way to each process                   *)
  faults,   (* failures so far                                             *)
  late,     (* history: processes that stored an outdated canary list      *)
  lost      (* history: processes that missed a flush                      *)

dbvars == <<mapped, exists, canary, writes>>
cachevars == <<epoch, names, list, flight>>
history == <<late, lost>>
vars == <<dbvars, cachevars, req, op, inbox, faults, history>>

Status == {"none", "rolling", "paused"}

(* What the database delivers to the agent now, and whether the canary is  *)
(* in the list of rolling ones.                                            *)
Delivered == IF mapped /\ exists THEN "in" ELSE "out"
Active == IF canary = "rolling" THEN "on" ELSE "off"

Idle == [pc |-> "idle", at |-> Nowhere, key |-> 0, found |-> "out"]
NoFlight == [st |-> "none", found |-> "off"]
IdleOp == [pc |-> "idle", at |-> Nowhere]

Init ==
  /\ mapped \in BOOLEAN /\ exists \in BOOLEAN
  /\ canary \in {"none", "rolling"}
  /\ Onetime => canary = "none"
  /\ writes = 0
  /\ epoch = [m \in Managers |-> 0]
  /\ names = [m \in Managers |-> {}]
  /\ list = [m \in Managers |-> "unset"]
  /\ flight = [m \in Managers |-> NoFlight]
  /\ req = [a \in Agents |-> Idle]
  /\ op = [w \in Writers |-> IdleOp]
  /\ inbox = [m \in Managers |-> 0]
  /\ faults = 0
  /\ late = {}
  /\ lost = {}

Fail == faults < MaxFaults /\ faults' = faults + 1

(* A flush has yet to reach process m: its own, or somebody else's by way  *)
(* of a message.                                                           *)
Pending(m) ==
  \/ inbox[m] > 0
  \/ \E w \in Writers : \/ op[w].pc = "flush"
                        \/ op[w].pc = "publish" /\ op[w].at # m

(* ... or a failure swallowed it.                                          *)
Behind(m) == Pending(m) \/ m \in lost

-----------------------------------------------------------------------------
(***************************************************************************)
(* GetConfigsForAgent and hydrateAgentConfigSet.                           *)
(***************************************************************************)
Cached(m) == {e \in names[m] : e.key = epoch[m]}

(* resolveAgentKey reads the epoch, once.                                  *)
StartRequest(a, m) ==
  /\ req[a] = Idle
  /\ req' = [req EXCEPT ![a] =
       IF Cached(m) = {}
         THEN [pc |-> "mappings", at |-> m, key |-> epoch[m], found |-> "out"]
         ELSE [pc |-> "canaries", at |-> m, key |-> epoch[m],
               found |-> (CHOOSE e \in Cached(m) : TRUE).found]]
  /\ UNCHANGED <<dbvars, cachevars, op, inbox, faults, history>>

(* The store's queries are not one transaction: first the mappings of the  *)
(* matching groups ...                                                     *)
QueryMappings(a) ==
  /\ req[a].pc = "mappings"
  /\ req' = [req EXCEPT ![a].pc = "configs", ![a].found = IF mapped THEN "in" ELSE "out"]
  /\ UNCHANGED <<dbvars, cachevars, op, inbox, faults, history>>

(* ... then the configurations they name.                                  *)
QueryConfigs(a) ==
  /\ req[a].pc = "configs"
  /\ req' = [req EXCEPT ![a].pc = "store",
                        ![a].found = IF exists THEN @ ELSE "out"]
  /\ UNCHANGED <<dbvars, cachevars, op, inbox, faults, history>>

StoreKey_ReadAgain(a) == epoch[req[a].at]
StoreKey(a) == req[a].key

StoreNames(a) ==
  LET m == req[a].at IN
  /\ req[a].pc = "store"
  /\ names' = [names EXCEPT ![m] =
       {e \in @ : e.key # StoreKey(a)} \cup {[key |-> StoreKey(a), found |-> req[a].found]}]
  /\ req' = [req EXCEPT ![a].pc = "canaries"]
  /\ UNCHANGED <<dbvars, epoch, list, flight, op, inbox, faults, history>>

(* getActiveCanaries: the cached list, or the call in flight, or a new one.*)
GetCanaries(a) ==
  LET m == req[a].at IN
  /\ req[a].pc = "canaries"
  /\ \/ list[m] # "unset" /\ req' = [req EXCEPT ![a] = Idle] /\ UNCHANGED flight
     \/ /\ list[m] = "unset"
        /\ req' = [req EXCEPT ![a].pc = "wait"]
        /\ flight' = IF flight[m].st = "none"
                       THEN [flight EXCEPT ![m].st = "query"] ELSE flight
  /\ UNCHANGED <<dbvars, epoch, names, list, op, inbox, faults, history>>

(* A query fails, and the request with it.                                 *)
QueryFails(a) ==
  /\ req[a].pc \in {"mappings", "configs"}
  /\ Fail
  /\ req' = [req EXCEPT ![a] = Idle]
  /\ UNCHANGED <<dbvars, cachevars, op, inbox, history>>

ListCanaries(m) ==
  /\ flight[m].st = "query"
  /\ flight' = [flight EXCEPT ![m] = [st |-> "got", found |-> Active]]
  /\ UNCHANGED <<dbvars, epoch, names, list, req, op, inbox, faults, history>>

(* Everyone who waited applies the list.                                   *)
Answer_FirstOnly(m) ==
  \E a \in Agents :
    /\ req[a].pc = "wait" /\ req[a].at = m
    /\ req' = [req EXCEPT ![a] = Idle]
Answer(m) ==
  req' = [a \in Agents |-> IF req[a].pc = "wait" /\ req[a].at = m THEN Idle ELSE req[a]]

(* Still inside the call: the list is stored, then the call returns.       *)
StoreCanaries(m) ==
  /\ flight[m].st = "got"
  /\ list' = [list EXCEPT ![m] = flight[m].found]
  /\ late' = IF flight[m].found # Active /\ ~Pending(m) THEN late \cup {m} ELSE late \ {m}
  /\ flight' = [flight EXCEPT ![m] = NoFlight]
  /\ Answer(m)
  /\ UNCHANGED <<dbvars, epoch, names, op, inbox, faults, lost>>

(* The error, too, goes to everyone who waited.                            *)
ListFails(m) ==
  /\ flight[m].st = "query"
  /\ Fail
  /\ flight' = [flight EXCEPT ![m] = NoFlight]
  /\ Answer(m)
  /\ UNCHANGED <<dbvars, epoch, names, list, op, inbox, history>>

Request(a) ==
  \/ \E m \in Managers : StartRequest(a, m)
  \/ QueryMappings(a) \/ QueryConfigs(a) \/ QueryFails(a)
  \/ StoreNames(a) \/ GetCanaries(a)

-----------------------------------------------------------------------------
(***************************************************************************)
(* Writes.  Each commits, then runs invalidateResolveCache, unless the     *)
(* answer of the database was lost and the wrapper returns the error.      *)
(***************************************************************************)
Commit(w, m) ==
  /\ op[w] = IdleOp
  /\ writes < MaxWrites
  /\ writes' = writes + 1
  /\ \/ /\ op' = [op EXCEPT ![w] = [pc |-> "flush", at |-> m]]
        /\ UNCHANGED <<faults, lost>>
     \/ Fail /\ lost' = Managers /\ UNCHANGED op
  /\ UNCHANGED <<cachevars, req, inbox, late>>

(* Groups, their tags, selectors and mappings.                             *)
ChangeMapping(w, m) ==
  /\ Commit(w, m)
  /\ mapped' = ~mapped
  /\ UNCHANGED <<exists, canary>>

(* Deleting a configuration deletes its mappings, and keeps its canary.    *)
DeleteConfig(w, m) ==
  /\ Commit(w, m)
  /\ mapped' = FALSE /\ exists' = FALSE
  /\ UNCHANGED canary

CreateOnetime(w, m) ==
  /\ Onetime
  /\ ~exists
  /\ Commit(w, m)
  /\ exists' = TRUE
  /\ UNCHANGED <<mapped, canary>>

(* Creating a pipeline or instance configuration invalidates that          *)
(* configuration's own key, and not the resolved sets.                     *)
CreateConfig ==
  /\ ~Onetime
  /\ ~exists
  /\ writes < MaxWrites
  /\ writes' = writes + 1
  /\ exists' = TRUE
  /\ UNCHANGED <<mapped, canary, cachevars, req, op, inbox, faults, history>>

(* Create; pause and resume; abort or promote.  Onetime commands have no   *)
(* canaries.                                                               *)
ChangeCanary(w, m) ==
  /\ ~Onetime
  /\ Commit(w, m)
  /\ canary' \in (IF canary = "none" THEN {"rolling"} ELSE Status \ {canary})
  /\ UNCHANGED <<mapped, exists>>

(* The own epoch and canary list ...                                       *)
FlushNames_EpochKept(m) == UNCHANGED epoch
FlushNames(m) == epoch' = [epoch EXCEPT ![m] = @ + 1]

DropList_Kept(m) == UNCHANGED <<list, late>>
DropList(m) ==
  /\ list' = [list EXCEPT ![m] = "unset"]
  /\ late' = late \ {m}

FlushOwn(m) ==
  /\ FlushNames(m)
  /\ DropList(m)
  /\ lost' = lost \ {m}
  /\ UNCHANGED <<names, flight>>

Flush(w) ==
  LET m == op[w].at IN
  /\ op[w].pc = "flush"
  /\ FlushOwn(m)
  /\ op' = [op EXCEPT ![w] = IF HasRedis THEN [@ EXCEPT !.pc = "publish"] ELSE IdleOp]
  /\ UNCHANGED <<dbvars, req, inbox, faults>>

(* ... and a message to every process.                                     *)
Publish(w) ==
  /\ op[w].pc = "publish"
  /\ inbox' = [m \in Managers |-> inbox[m] + 1]
  /\ op' = [op EXCEPT ![w] = IdleOp]
  /\ UNCHANGED <<dbvars, cachevars, req, faults, history>>

PublishFails(w) ==
  /\ op[w].pc = "publish"
  /\ Fail
  /\ op' = [op EXCEPT ![w] = IdleOp]
  /\ lost' = lost \cup (Managers \ {op[w].at})
  /\ UNCHANGED <<dbvars, cachevars, req, inbox, late>>

Deliver(m) ==
  /\ inbox[m] > 0
  /\ inbox' = [inbox EXCEPT ![m] = @ - 1]
  /\ FlushOwn(m)
  /\ UNCHANGED <<dbvars, req, op, faults>>

(* ReceiveMessage reports a broken connection: what was on the way is gone,*)
(* and everything is flushed.                                              *)
ReceiveError(m) ==
  /\ HasRedis
  /\ Fail
  /\ inbox' = [inbox EXCEPT ![m] = 0]
  /\ FlushOwn(m)
  /\ UNCHANGED <<dbvars, req, op>>

(* A message published while the subscriber is not connected.              *)
LoseMessage(m) ==
  /\ inbox[m] > 0
  /\ Fail
  /\ inbox' = [inbox EXCEPT ![m] = @ - 1]
  /\ lost' = lost \cup {m}
  /\ UNCHANGED <<dbvars, cachevars, req, op, late>>

Write(w) ==
  \/ \E m \in Managers : \/ ChangeMapping(w, m) \/ DeleteConfig(w, m)
                         \/ CreateOnetime(w, m) \/ ChangeCanary(w, m)
  \/ Flush(w) \/ Publish(w) \/ PublishFails(w)

-----------------------------------------------------------------------------
(* resolveTTL and resolveCanaryTTL, or eviction.  (A time to live of 0     *)
(* means for ever to the cache library.)                                   *)
ExpireNames_TTLZero(m) == FALSE
ExpireNames(m) ==
  \E e \in names[m] :
    /\ names' = [names EXCEPT ![m] = @ \ {e}]
    /\ UNCHANGED <<dbvars, epoch, list, flight, req, op, inbox, faults, history>>

ExpireList(m) ==
  /\ list[m] # "unset"
  /\ list' = [list EXCEPT ![m] = "unset"]
  /\ late' = late \ {m}
  /\ UNCHANGED <<dbvars, epoch, names, flight, req, op, inbox, faults, lost>>

(* A restart loses the caches, the requests and the writes of a process; a *)
(* flush it had not published is lost for the others.                      *)
Restart(m) ==
  LET cut == \E w \in Writers : op[w].at = m IN
  /\ Fail
  /\ epoch' = [epoch EXCEPT ![m] = 0]
  /\ names' = [names EXCEPT ![m] = {}]
  /\ list' = [list EXCEPT ![m] = "unset"]
  /\ flight' = [flight EXCEPT ![m] = NoFlight]
  /\ req' = [a \in Agents |-> IF req[a].at = m THEN Idle ELSE req[a]]
  /\ op' = [w \in Writers |-> IF op[w].at = m THEN IdleOp ELSE op[w]]
  /\ inbox' = [inbox EXCEPT ![m] = 0]
  /\ late' = late \ {m}
  /\ lost' = IF cut THEN (lost \cup Managers) \ {m} ELSE lost \ {m}
  /\ UNCHANGED dbvars

-----------------------------------------------------------------------------
Next ==
  \/ \E a \in Agents : Request(a)
  \/ \E m \in Managers : ListCanaries(m) \/ ListFails(m) \/ StoreCanaries(m)
  \/ \E w \in Writers : Write(w)
  \/ CreateConfig
  \/ \E m \in Managers : Deliver(m) \/ ReceiveError(m) \/ LoseMessage(m)
  \/ \E m \in Managers : ExpireNames(m) \/ ExpireList(m) \/ Restart(m)

Spec == Init /\ [][Next]_vars

(* A started request, call or write runs on; messages arrive, entries      *)
(* expire.  Nobody has to ask or to write.                                 *)
Fairness ==
  /\ \A a \in Agents :
       WF_vars(QueryMappings(a) \/ QueryConfigs(a) \/ StoreNames(a) \/ GetCanaries(a))
  /\ \A w \in Writers : WF_vars(Flush(w) \/ Publish(w))
  /\ \A m \in Managers :
       /\ WF_vars(ListCanaries(m) \/ StoreCanaries(m))
       /\ WF_vars(Deliver(m))
       /\ WF_vars(ExpireNames(m))
       /\ WF_vars(ExpireList(m))

FairSpec == Spec /\ Fairness

-----------------------------------------------------------------------------
Typed ==
  /\ mapped \in BOOLEAN /\ exists \in BOOLEAN /\ canary \in Status /\ writes \in Nat
  /\ epoch \in [Managers -> Nat]
  /\ names \in [Managers -> SUBSET [key : Nat, found : {"in", "out"}]]
  /\ list \in [Managers -> {"unset", "on", "off"}]
  /\ flight \in [Managers -> [st : {"none", "query", "got"}, found : {"on", "off"}]]
  /\ req \in [Agents -> [pc : {"idle", "mappings", "configs", "store", "canaries", "wait"},
                          at : Managers \cup {Nowhere}, key : Nat, found : {"in", "out"}]]
  /\ op \in [Writers -> [pc : {"idle", "flush", "publish"}, at : Managers \cup {Nowhere}]]
  /\ inbox \in [Managers -> Nat]
  /\ faults \in Nat
  /\ late \subseteq Managers /\ lost \subseteq Managers
  /\ \A a \in Agents : req[a].pc # "idle" => req[a].at \in Managers
  /\ \A w \in Writers : op[w].pc # "idle" => op[w].at \in Managers

(* Whoever waits for the list has a call in flight to wait for.            *)
WaitersHaveCall ==
  \A a \in Agents : req[a].pc = "wait" => flight[req[a].at].st # "none"

TypeOK == Typed /\ WaitersHaveCall

(* What a request has resolved, from the cache or from the database, and   *)
(* takes to the agent.  It was overtaken when a flush came in between.     *)
Resolved(a) == req[a].pc \in {"canaries", "wait"}
Overtaken(a) == req[a].key # epoch[req[a].at]

(* A set of names that a request can find says what the database says,     *)
(* unless a flush is still to come or a failure swallowed it.  A request   *)
(* that overlaps a write may resolve the old names, but it stores them     *)
(* under the old epoch, where nobody finds them.  So does the answer of a  *)
(* request that no flush overtook.                                         *)
NamesFresh ==
  /\ \A m \in Managers : \A e \in Cached(m) :
       e.found # Delivered => Behind(m)
  /\ \A a \in Agents :
       Resolved(a) /\ req[a].found # Delivered => Overtaken(a) \/ Behind(req[a].at)

(* The half of it that holds for pipeline and instance configurations: an  *)
(* agent does not keep getting what was withdrawn from it.                 *)
WithdrawnIsFlushed ==
  /\ \A m \in Managers : \A e \in Cached(m) :
       e.found = "in" /\ Delivered = "out" => Behind(m)
  /\ \A a \in Agents :
       Resolved(a) /\ req[a].found = "in" /\ Delivered = "out" =>
         Overtaken(a) \/ Behind(req[a].at)

(* The list of rolling canaries has no epoch: it may also be outdated      *)
(* because a query that overlapped a write stored it after the flush.      *)
CanaryListHasCause ==
  \A m \in Managers :
    list[m] \notin {"unset", Active} => Behind(m) \/ m \in late

(* Once writes stop, every process resolves what the database says.        *)
Settles ==
  <>[](\A m \in Managers : /\ \A e \in Cached(m) : e.found = Delivered
                           /\ list[m] \in {"unset", Active})
=============================================================================
