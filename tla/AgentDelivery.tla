---------------------------- MODULE AgentDelivery --------------------------
(***************************************************************************)
(* The agent API of internal/server/agent/handler.go as one agent sees it: *)
(* heartbeats that are answered by any of the configserver processes, the  *)
(* difference between what it reports and what it should have, and the     *)
(* second request for contents that are too long to be sent inline.        *)
(*                                                                         *)
(* Continuous pipelines and instance configurations are treated alike and  *)
(* are the Configs; onetime commands are the Commands.  A process answers  *)
(* from its caches: view[p] is the database at some earlier time, its      *)
(* parts at different times (ConfigCache and ResolveCache say how old they *)
(* may be).  The agent follows protocol/v2/README.md.                      *)
(*                                                                         *)
(* Operators named X_Fault are faulty variants of the operator X below     *)
(* them: no action uses them, they show that the properties can fail.      *)
(***************************************************************************)
EXTENDS Integers, FiniteSetsExt

CONSTANTS
  Procs,        (* configserver processes                                  *)
  Configs,      (* pipeline or instance configurations                     *)
  Commands,     (* onetime commands                                        *)
  Bodies,       (* contents; a content is its length                       *)
  Plain,        (* contents that are no JSON objects (YAML, say)           *)
  MaxInline,    (* maxInlineDetailBytes                                    *)
  AsksFor,      (* the version a FetchConfigRequest carries: that of what  *)
                (* the agent "holds", or that which was "announced" to it  *)
  Nothing,      (* no row, no canary, nothing held, nothing to say         *)
  Removal,      (* version = -1, or expire_time = -1 for a command         *)
  MaxWrites,    (* bound on the writes; their numbers serve as versions    *)
  MaxFaults     (* bound on what is lost and what fails                    *)

Items == [ver : 1..MaxWrites, body : Bodies]
Things == Configs \cup Commands

ASSUME BodyAssumption ==
  Bodies \subseteq Nat \ {0} /\ Bodies # {} /\ Plain \subseteq Bodies /\ MaxInline \in Nat
ASSUME BoundAssumption == MaxWrites \in Nat \ {0, 1} /\ MaxFaults \in Nat
ASSUME AskAssumption == AsksFor \in {"held", "announced"}
ASSUME KindAssumption == Configs \cap Commands = {}
ASSUME NameAssumption == Nothing # Removal /\ {Nothing, Removal} \cap Items = {}

VARIABLES
  row,       (* the rows of configurations and commands; the version of a  *)
             (* command is its CreatedAt                                   *)
  assigned,  (* what the groups of the agent map                           *)
  canary,    (* the rolling canary of a configuration                      *)
  covered,   (* configurations whose canary the agent is eligible for      *)
  overdue,   (* commands <<name, generation>> past their expire_time       *)
  view,      (* what each process has cached                               *)
  held,      (* what the agent has, with the version it reports            *)
  link,      (* the request or the answer under way                        *)
  writes,    (* versions given so far                                      *)
  faults,    (* failures so far                                            *)
  steady,    (* history: assigned and stored from the start on             *)
  ran        (* history: the steady commands the agent has started         *)

dbvars == <<row, assigned, canary, covered, overdue, writes>>
history == <<steady, ran>>
vars == <<dbvars, view, held, link, faults, history>>

(* What the processes read, one entry or list at a time.                   *)
Rolling == [c \in Configs |-> IF c \in covered THEN canary[c] ELSE Nothing]
Fresh == [names |-> assigned, row |-> row, canary |-> Rolling]

(* Nothing is under way; a heartbeat with what the agent reports and its   *)
(* FullState flag; its answer and the FetchDetail flag; a FetchConfig      *)
(* request with a version for each name asked for; its answer.             *)
Silence == [kind |-> "silence"]
Beat(has, full) == [kind |-> "beat", has |-> has, full |-> full]
Answer(upd, fetch) == [kind |-> "answer", upd |-> upd, fetch |-> fetch]
Request(asked) == [kind |-> "request", asked |-> asked]
Fetched(upd) == [kind |-> "fetched", upd |-> upd]

(* The agent has no configuration yet, but may have got commands, of which *)
(* some were deleted, or deleted and created again with the same content.  *)
Init ==
  /\ \E b \in Bodies, there \in SUBSET Things, again \in SUBSET Commands, had \in SUBSET Commands :
       /\ row = [x \in Things |->
                    IF x \notin there THEN Nothing
                    ELSE [ver |-> IF x \in again THEN 2 ELSE 1, body |-> b]]
       /\ assigned = there
       /\ held = [x \in Things |-> IF x \in had THEN [ver |-> 1, body |-> b] ELSE Nothing]
       /\ ran = {<<k, 1>> : k \in had}
  /\ covered \in SUBSET Configs
  /\ \E b \in Bodies :
       canary = [c \in Configs |-> IF c \in covered THEN [ver |-> 2, body |-> b] ELSE Nothing]
  /\ overdue = {}
  /\ view = [p \in Procs |-> Fresh]
  /\ link = Silence
  /\ writes = 2
  /\ faults = 0
  /\ steady = assigned

Fail == faults < MaxFaults /\ faults' = faults + 1

-----------------------------------------------------------------------------
(***************************************************************************)
(* Administration (ConfigRelease has the handlers).  What it writes gets a *)
(* version of its own.                                                     *)
(***************************************************************************)
Stamped_Unversioned(b) == [ver |-> 0, body |-> b]
Stamped(b) == [ver |-> writes + 1, body |-> b]

Write ==
  /\ writes < MaxWrites
  /\ writes' = writes + 1
  /\ UNCHANGED <<overdue, view, held, link, faults, ran>>

(* A configuration is created, updated, rolled back or promoted.  A        *)
(* command is never changed, only created.                                 *)
Store(x, b) ==
  /\ Write
  /\ row' = [row EXCEPT ![x] = Stamped(b)]
  /\ UNCHANGED <<assigned, canary, covered, steady>>

StoreConfig(c, b) == Store(c, b)
CreateCommand(k, b) == row[k] = Nothing /\ Store(k, b)

(* A canary is started or edited; its selectors decide about the agent.    *)
StartCanary(c, b) ==
  /\ Write
  /\ canary' = [canary EXCEPT ![c] = Stamped(b)]
  /\ covered' \in {covered \ {c}, covered \cup {c}}
  /\ UNCHANGED <<row, assigned, steady>>

EndCanary(c) ==
  /\ Write
  /\ canary[c] # Nothing
  /\ canary' = [canary EXCEPT ![c] = Nothing]
  /\ covered' = covered \ {c}
  /\ UNCHANGED <<row, assigned, steady>>

(* The percentage or a selector changes, or the release is paused or       *)
(* resumed: the agent is covered or no longer.                             *)
Cover(c) ==
  /\ Write
  /\ canary[c] # Nothing
  /\ covered' = (covered \ {c}) \cup ({c} \ covered)
  /\ UNCHANGED <<row, assigned, canary, steady>>

(* The transaction also deletes the mappings; the canary stays.            *)
Delete(x) ==
  /\ Write
  /\ row[x] # Nothing
  /\ row' = [row EXCEPT ![x] = Nothing]
  /\ assigned' = assigned \ {x}
  /\ steady' = steady \ {x}
  /\ UNCHANGED <<canary, covered>>

Assign(x) ==
  /\ Write
  /\ x \notin assigned
  /\ assigned' = assigned \cup {x}
  /\ UNCHANGED <<row, canary, covered, steady>>

Unassign(x) ==
  /\ Write
  /\ x \in assigned
  /\ assigned' = assigned \ {x}
  /\ steady' = steady \ {x}
  /\ UNCHANGED <<row, canary, covered>>

(* Time passes the expire_time of a command.                               *)
Generation(k) == <<k, row[k].ver>>

PassDeadline(k) ==
  /\ row[k] # Nothing
  /\ Generation(k) \notin overdue
  /\ overdue' = overdue \cup {Generation(k)}
  /\ UNCHANGED <<row, assigned, canary, covered, writes, view, held, link, faults, history>>

(* An entry of the process' caches has expired or was invalidated, and a   *)
(* request reads it from the database again.                               *)
Refresh(p, new) ==
  /\ link.kind \in {"beat", "request"}
  /\ view[p] # new
  /\ view' = [view EXCEPT ![p] = new]
  /\ UNCHANGED <<dbvars, held, link, faults, history>>

RefreshNames(p) == Refresh(p, [view[p] EXCEPT !.names = assigned])
RefreshRow(p, x) == Refresh(p, [view[p] EXCEPT !.row[x] = row[x]])
RefreshCanaries(p) == Refresh(p, [view[p] EXCEPT !.canary = Rolling])

RefreshSome(p) == RefreshNames(p) \/ RefreshCanaries(p) \/ \E x \in Things : RefreshRow(p, x)

-----------------------------------------------------------------------------
(***************************************************************************)
(* The server: Heartbeat and FetchConfig.                                  *)
(***************************************************************************)
(* GetConfigsForAgent: the rows of the resolved names, overlaid by the     *)
(* canaries the agent is eligible for.  A name without a row is skipped.   *)
Overlaid_DetailOnly(stable, cr) == IF cr = Nothing THEN stable ELSE [stable EXCEPT !.body = cr.body]
Overlaid(stable, cr) == IF cr = Nothing THEN stable ELSE cr

Hydrated(v) ==
  [x \in Things |->
     IF x \notin v.names \/ v.row[x] = Nothing THEN Nothing
     ELSE IF x \in Configs THEN Overlaid(v.row[x], v.canary[x])
     ELSE v.row[x]]

(* What the agent reports is not what it should have: send it, or say that *)
(* it is gone.  Versions are compared, contents are not.                   *)
ConfigUpdate_CurrentForgotten(offer, has, full) ==
  IF offer = Nothing \/ (has # Nothing /\ has.ver = offer.ver)
  THEN IF has = Nothing THEN Nothing ELSE Removal
  ELSE offer

ConfigUpdate(offer, has, full) ==
  IF offer = Nothing THEN IF has = Nothing THEN Nothing ELSE Removal
  ELSE IF ~full /\ has # Nothing /\ has.ver = offer.ver THEN Nothing
  ELSE offer

(* What is sent of a command and hashed by both sides: the content with    *)
(* the generation, which only fits into a JSON object.                     *)
Hash_ContentOnly(cmd) == <<0, cmd.body>>
Hash(cmd) == <<IF cmd.body \in Plain THEN 0 ELSE cmd.ver, cmd.body>>

Same(has, cmd) == has # Nothing /\ Hash(has) = Hash(cmd)

(* A command is cancelled when it is gone, sent before its deadline only,  *)
(* and sent again when the hash differs.                                   *)
Offered_LateToo(k, cmd) == TRUE
Offered(k, cmd) == <<k, cmd.ver>> \notin overdue

CommandUpdate(k, cmd, has, full) ==
  IF cmd = Nothing THEN IF has = Nothing THEN Nothing ELSE Removal
  ELSE IF ~Offered(k, cmd) \/ (Same(has, cmd) /\ ~full) THEN Nothing
  ELSE cmd

Updates(offer, has, full) ==
  [x \in Things |->
     IF x \in Configs THEN ConfigUpdate(offer[x], has[x], full)
     ELSE CommandUpdate(x, offer[x], has[x], full)]

InlineBytes(upd) == MapThenSumSet(LAMBDA c : upd[c].body, {c \in Configs : upd[c] \in Items})

Heartbeat(p) ==
  /\ link.kind = "beat"
  /\ LET upd == Updates(Hydrated(view[p]), link.has, link.full)
     IN  link' = Answer(upd, InlineBytes(upd) > MaxInline)
  /\ UNCHANGED <<dbvars, view, held, faults, history>>

(* Only rows are looked at, neither the assignment nor the canary.  A row  *)
(* that cannot be read is left out of the answer.                          *)
Detail(stored, version) ==
  IF stored = Nothing THEN Removal
  ELSE IF stored.ver = version THEN Nothing
  ELSE stored

FetchConfig(p) ==
  /\ link.kind = "request"
  /\ \E unread \in SUBSET DOMAIN link.asked :
       /\ IF unread = {} THEN UNCHANGED faults ELSE Fail
       /\ link' = Fetched([x \in Things |->
                     IF x \in DOMAIN link.asked \ unread
                     THEN Detail(view[p].row[x], link.asked[x])
                     ELSE Nothing])
  /\ UNCHANGED <<dbvars, view, held, history>>

-----------------------------------------------------------------------------
(***************************************************************************)
(* The agent.  One request at a time; the heartbeat reports everything,    *)
(* but a command need not be reported after its deadline.                  *)
(***************************************************************************)
Late(k) == held[k] # Nothing /\ <<k, held[k].ver>> \in overdue

SendHeartbeat ==
  /\ link = Silence
  /\ \E full \in BOOLEAN, silent \in SUBSET {k \in Commands : Late(k)} :
       link' = Beat([x \in Things |-> IF x \in silent THEN Nothing ELSE held[x]], full)
  /\ UNCHANGED <<dbvars, view, held, faults, history>>

(* Take what is sent.  A command other than the one at hand is started;    *)
(* one with the same bytes is the same to the agent.                       *)
Taken(upd) ==
  [x \in Things |->
     IF upd[x] = Nothing THEN held[x]
     ELSE IF upd[x] = Removal THEN Nothing
     ELSE upd[x]]

Started(upd) == {k \in Commands : upd[k] \in Items /\ ~Same(held[k], upd[k])}

Take(upd) ==
  /\ held' = Taken(upd)
  /\ ran' = ran \cup {<<k, upd[k].ver>> : k \in Started(upd) \cap steady}
  /\ UNCHANGED steady

(* The contents of configurations come with the answer, or are asked for.  *)
InlineTaken(upd) == [x \in Things |-> IF x \in Configs /\ upd[x] \in Items THEN Nothing ELSE upd[x]]

Asked(upd) ==
  [c \in {c \in Configs : upd[c] \in Items} |->
     IF AsksFor = "announced" THEN upd[c].ver
     ELSE IF held[c] = Nothing THEN 0
     ELSE held[c].ver]

ReceiveAnswer ==
  /\ link.kind = "answer"
  /\ IF link.fetch
     THEN Take(InlineTaken(link.upd)) /\ link' = Request(Asked(link.upd))
     ELSE Take(link.upd) /\ link' = Silence
  /\ UNCHANGED <<dbvars, view, faults>>

ReceiveDetails ==
  /\ link.kind = "fetched"
  /\ Take(link.upd)
  /\ link' = Silence
  /\ UNCHANGED <<dbvars, view, faults>>

(* The agent is done with a command and its deadline has passed.  It does  *)
(* its bookkeeping between two exchanges.                                  *)
Finish(k) ==
  /\ link = Silence
  /\ Late(k)
  /\ held' = [held EXCEPT ![k] = Nothing]
  /\ UNCHANGED <<dbvars, view, link, faults, history>>

(* A request or an answer is lost, an error is answered, a process dies,   *)
(* or the agent restarts: it keeps what it has and sends a new heartbeat.  *)
Lose ==
  /\ Fail
  /\ link # Silence
  /\ link' = Silence
  /\ UNCHANGED <<dbvars, view, held, history>>

Next ==
  \/ \E c \in Configs, b \in Bodies : StoreConfig(c, b) \/ StartCanary(c, b)
  \/ \E c \in Configs : EndCanary(c) \/ Cover(c)
  \/ \E x \in Things : Delete(x) \/ Assign(x) \/ Unassign(x)
  \/ \E k \in Commands, b \in Bodies : CreateCommand(k, b)
  \/ \E k \in Commands : PassDeadline(k) \/ Finish(k)
  \/ \E p \in Procs : RefreshSome(p)
  \/ \E p \in Procs : Heartbeat(p) \/ FetchConfig(p)
  \/ SendHeartbeat \/ ReceiveAnswer \/ ReceiveDetails \/ Lose

Spec == Init /\ [][Next]_vars

(* The agent goes on sending heartbeats, somebody answers, and outdated    *)
(* entries that are read again and again are refreshed, as all of them     *)
(* expire.  Nobody is assumed to administrate or to lose messages.         *)
Fairness ==
  /\ WF_vars(SendHeartbeat) /\ WF_vars(ReceiveAnswer) /\ WF_vars(ReceiveDetails)
  /\ WF_vars(\E p \in Procs : Heartbeat(p) \/ FetchConfig(p))
  /\ SF_vars(\E p \in Procs : RefreshSome(p))

FairSpec == Spec /\ Fairness

-----------------------------------------------------------------------------
(***************************************************************************)
(* Properties                                                              *)
(***************************************************************************)
Maybe(S) == S \cup {Nothing}
Deltas == [Things -> Items \cup {Nothing, Removal}]
Views == [names : SUBSET Things, row : [Things -> Maybe(Items)], canary : [Configs -> Maybe(Items)]]
Generations == Commands \X (1..MaxWrites)

Links ==
  [kind : {"silence"}]
  \cup [kind : {"beat"}, has : [Things -> Maybe(Items)], full : BOOLEAN]
  \cup [kind : {"answer"}, upd : Deltas, fetch : BOOLEAN]
  \cup [kind : {"request"}, asked : UNION {[S -> 0..MaxWrites] : S \in SUBSET Configs}]
  \cup [kind : {"fetched"}, upd : Deltas]

(* Types: nothing is sent or kept without a version or with that of a      *)
(* removal, and the history is about commands.                             *)
TypeOK ==
  /\ row \in [Things -> Maybe(Items)]
  /\ assigned \subseteq Things /\ steady \subseteq assigned
  /\ canary \in [Configs -> Maybe(Items)] /\ covered \subseteq Configs
  /\ overdue \subseteq Generations
  /\ view \in [Procs -> Views]
  /\ held \in [Things -> Maybe(Items)]
  /\ link \in Links
  /\ writes \in 1..MaxWrites /\ faults \in 0..MaxFaults
  /\ ran \subseteq Generations

(* What the agent should have, by the database.                            *)
Due == Hydrated(Fresh)

(* The server skips a configuration whose version the agent reports: then  *)
(* the agent has the content, too, whichever of row and canary that        *)
(* version came from and however it arrived (inline or fetched).           *)
SameVersionSameContent ==
  \A c \in Configs : held[c] # Nothing /\ Due[c] # Nothing /\ held[c].ver = Due[c].ver => held[c] = Due[c]

(* Nothing is withdrawn from an agent that was assigned it all along:      *)
(* neither updates, canaries, stale caches, a fetch nor a deadline do.     *)
NoUnfoundedRemoval ==
  link.kind \in {"answer", "fetched"} => \A x \in steady : link.upd[x] # Removal

(* A command that stays assigned is started once, however often messages   *)
(* are lost, sent again or left out, before and after its deadline.        *)
RunsOnce ==
  [][\A k \in Commands \cap steady :
       held'[k] \notin {held[k], Nothing} => <<k, held'[k].ver>> \notin ran]_vars

(* A canary that cannot be sent inline: FetchConfig answers with the row,  *)
(* and the agent never gets the canary (see CanaryArrives).                *)
OutOfReach(c) ==
  /\ c \in assigned
  /\ Rolling[c] # Nothing
  /\ InlineBytes(Due) > MaxInline

(* A command deleted and created again with a content the generation does  *)
(* not fit into: the agent that has the earlier one is not sent this one.  *)
Unrecognised(k) ==
  /\ held[k] # Nothing /\ Due[k] # Nothing
  /\ held[k].body = Due[k].body /\ Due[k].body \in Plain

(* Once the administrators rest, the agent has what it should have, and    *)
(* nothing else; of the commands it has the generation of today, but for   *)
(* those it cannot recognise as new and those past their deadline.         *)
Settled(x) ==
  \/ held[x] = Due[x]
  \/ x \in Configs /\ OutOfReach(x)
  \/ x \in Commands /\ (Unrecognised(x) \/ Late(x) \/ (Due[x] # Nothing /\ ~Offered(x, Due[x])))

Delivered == <>[](\A x \in Things : Settled(x))

(* The same without the exception: whatever the length of a canary, the    *)
(* agents it covers get it.                                                *)
CanaryArrives == <>[](\A c \in Configs : held[c] = Due[c])
=============================================================================
