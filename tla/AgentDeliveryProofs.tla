------------------------ MODULE AgentDeliveryProofs ------------------------
(* Proofs about AgentDelivery, for any number of processes, configurations,*)
(* commands, contents, writes and failures, and both ways to fetch.        *)
EXTENDS AgentDelivery, TLAPS

LEMMA StampedTyped ==
  ASSUME writes \in 1..MaxWrites, writes < MaxWrites, NEW b \in Bodies
  PROVE Stamped(b) \in Items /\ writes + 1 \in 1..MaxWrites
  BY BoundAssumption DEF Stamped, Items

LEMMA FreshTyped == TypeOK => Rolling \in [Configs -> Maybe(Items)] /\ Fresh \in Views
  BY DEF TypeOK, Fresh, Rolling, Views, Maybe, Things

LEMMA HydratedTyped ==
  ASSUME NEW v \in Views
  PROVE Hydrated(v) \in [Things -> Maybe(Items)]
  <1>1. ASSUME NEW x \in Things PROVE Hydrated(v)[x] \in Maybe(Items)
    BY DEF Hydrated, Overlaid, Views, Maybe
  <1>2. QED
    BY <1>1 DEF Hydrated

LEMMA UpdatesTyped ==
  ASSUME NEW offer \in [Things -> Maybe(Items)], NEW has \in [Things -> Maybe(Items)],
         NEW full \in BOOLEAN
  PROVE Updates(offer, has, full) \in Deltas
  <1>1. ASSUME NEW x \in Things
        PROVE Updates(offer, has, full)[x] \in Items \cup {Nothing, Removal}
    <2>1. CASE x \in Configs
      BY <2>1 DEF Updates, ConfigUpdate, Maybe
    <2>2. CASE x \notin Configs
      BY <2>2 DEF Updates, CommandUpdate, Maybe
    <2>3. QED
      BY <2>1, <2>2
  <1>2. QED
    BY <1>1 DEF Updates, Deltas

LEMMA TakenTyped ==
  ASSUME NEW upd \in Deltas, held \in [Things -> Maybe(Items)]
  PROVE Taken(upd) \in [Things -> Maybe(Items)] /\ InlineTaken(upd) \in Deltas
  <1>1. ASSUME NEW x \in Things PROVE Taken(upd)[x] \in Maybe(Items)
    BY DEF Taken, Deltas, Maybe
  <1>2. QED
    BY <1>1 DEF Taken, InlineTaken, Deltas

LEMMA TakeTyped ==
  ASSUME TypeOK, NEW upd \in Deltas, Take(upd)
  PROVE /\ held' \in [Things -> Maybe(Items)] /\ ran' \subseteq Generations
        /\ steady' = steady
  <1>1. held' \in [Things -> Maybe(Items)]
    BY TakenTyped DEF Take, TypeOK
  <1>2. \A k \in Started(upd) : <<k, upd[k].ver>> \in Generations
    BY DEF Started, Generations, Items
  <1>3. QED
    BY <1>1, <1>2 DEF Take, TypeOK

LEMMA AskedTyped ==
  ASSUME TypeOK, NEW upd \in Deltas
  PROVE Asked(upd) \in UNION {[S -> 0..MaxWrites] : S \in SUBSET Configs}
  <1> DEFINE S == {c \in Configs : upd[c] \in Items}
  <1>1. ASSUME NEW c \in S PROVE Asked(upd)[c] \in 0..MaxWrites
    <2>1. 0 \in 0..MaxWrites /\ \A i \in Items : i.ver \in 0..MaxWrites
      BY BoundAssumption DEF Items
    <2>2. upd[c] \in Items /\ (held[c] = Nothing \/ held[c] \in Items)
      BY DEF TypeOK, Maybe, Things
    <2>3. QED
      BY <2>1, <2>2 DEF Asked
  <1>2. Asked(upd) \in [S -> 0..MaxWrites]
    BY <1>1 DEF Asked
  <1>3. QED
    BY <1>2

LEMMA TypeInit == Init => TypeOK
  <1> SUFFICES ASSUME Init PROVE TypeOK
    OBVIOUS
  <1>0. /\ \A b \in Bodies : [ver |-> 1, body |-> b] \in Items /\ [ver |-> 2, body |-> b] \in Items
        /\ writes \in 1..MaxWrites /\ faults \in 0..MaxFaults
    BY BoundAssumption DEF Init, Items
  <1>1. row \in [Things -> Maybe(Items)] /\ assigned \subseteq Things
    BY <1>0 DEF Init, Maybe
  <1>2. canary \in [Configs -> Maybe(Items)] /\ covered \subseteq Configs /\ overdue \subseteq Generations
    BY <1>0 DEF Init, Maybe
  <1>3. view \in [Procs -> Views]
    BY <1>1, <1>2 DEF Init, Fresh, Rolling, Views, Maybe
  <1>4. held \in [Things -> Maybe(Items)]
    BY <1>0 DEF Init, Maybe
  <1>5. ran \subseteq Generations
    BY BoundAssumption DEF Init, Generations
  <1>6. link \in Links /\ steady \subseteq assigned
    BY DEF Init, Silence, Links
  <1>7. QED
    BY <1>0, <1>1, <1>2, <1>3, <1>4, <1>5, <1>6 DEF TypeOK

(* What the administrators do.                                             *)
LEMMA StoreTyped ==
  ASSUME TypeOK, NEW x \in Things, NEW b \in Bodies, Store(x, b)
  PROVE TypeOK'
  <1>1. Stamped(b) \in Items /\ writes' \in 1..MaxWrites
    BY StampedTyped DEF TypeOK, Store, Write
  <1> HIDE DEF Stamped
  <1>2. QED
    BY <1>1 DEF TypeOK, Store, Write, Maybe

LEMMA AdminTyped ==
  ASSUME TypeOK,
         \/ \E c \in Configs, b \in Bodies : StoreConfig(c, b) \/ StartCanary(c, b)
         \/ \E c \in Configs : EndCanary(c) \/ Cover(c)
         \/ \E x \in Things : Delete(x) \/ Assign(x) \/ Unassign(x)
         \/ \E k \in Commands, b \in Bodies : CreateCommand(k, b)
  PROVE TypeOK'
  <1>1. ASSUME NEW c \in Configs, NEW b \in Bodies, StoreConfig(c, b) PROVE TypeOK'
    BY <1>1, StoreTyped DEF StoreConfig, Things
  <1>2. ASSUME NEW c \in Configs, NEW b \in Bodies, StartCanary(c, b) PROVE TypeOK'
    <2>1. Stamped(b) \in Items /\ writes' \in 1..MaxWrites
      BY <1>2, StampedTyped DEF TypeOK, StartCanary, Write
    <2>2. canary' \in [Configs -> Maybe(Items)] /\ covered' \subseteq Configs
      BY <1>2, <2>1 DEF TypeOK, StartCanary, Maybe
    <2>3. QED
      BY <1>2, <2>1, <2>2 DEF TypeOK, StartCanary, Write
  <1>3. ASSUME NEW c \in Configs, EndCanary(c) PROVE TypeOK'
    <2>1. writes' \in 1..MaxWrites
      BY <1>3, BoundAssumption DEF TypeOK, EndCanary, Write
    <2>2. canary' \in [Configs -> Maybe(Items)] /\ covered' \subseteq Configs
      BY <1>3 DEF TypeOK, EndCanary, Maybe
    <2>3. QED
      BY <1>3, <2>1, <2>2 DEF TypeOK, EndCanary, Write
  <1>4. ASSUME NEW c \in Configs, Cover(c) PROVE TypeOK'
    BY <1>4, BoundAssumption DEF TypeOK, Cover, Write
  <1>5. ASSUME NEW x \in Things, Delete(x) PROVE TypeOK'
    <2>1. writes' \in 1..MaxWrites
      BY <1>5, BoundAssumption DEF TypeOK, Delete, Write
    <2>2. row' \in [Things -> Maybe(Items)]
      BY <1>5 DEF TypeOK, Delete, Maybe
    <2>3. QED
      BY <1>5, <2>1, <2>2 DEF TypeOK, Delete, Write
  <1>6. ASSUME NEW x \in Things, Assign(x) \/ Unassign(x) PROVE TypeOK'
    <2>1. writes' \in 1..MaxWrites
      BY <1>6, BoundAssumption DEF TypeOK, Assign, Unassign, Write
    <2>2. QED
      BY <1>6, <2>1 DEF TypeOK, Assign, Unassign, Write
  <1>7. ASSUME NEW k \in Commands, NEW b \in Bodies, CreateCommand(k, b) PROVE TypeOK'
    BY <1>7, StoreTyped DEF CreateCommand, Things
  <1>8. QED
    BY <1>1, <1>2, <1>3, <1>4, <1>5, <1>6, <1>7

LEMMA RefreshTyped ==
  ASSUME TypeOK, NEW p \in Procs, RefreshSome(p)
  PROVE TypeOK'
  <1>1. PICK new \in Views : Refresh(p, new)
    <2>1. CASE RefreshNames(p)
      <3>1. [view[p] EXCEPT !.names = assigned] \in Views
        BY DEF TypeOK, Views
      <3>2. QED
        BY <2>1, <3>1 DEF RefreshNames
    <2>2. CASE RefreshCanaries(p)
      <3>1. [view[p] EXCEPT !.canary = Rolling] \in Views
        BY FreshTyped DEF TypeOK, Views
      <3>2. QED
        BY <2>2, <3>1 DEF RefreshCanaries
    <2>3. CASE \E x \in Things : RefreshRow(p, x)
      <3>1. PICK x \in Things : RefreshRow(p, x)
        BY <2>3
      <3>2. [view[p] EXCEPT !.row[x] = row[x]] \in Views
        BY DEF TypeOK, Views
      <3>3. QED
        BY <3>1, <3>2 DEF RefreshRow
    <2>4. QED
      BY <2>1, <2>2, <2>3 DEF RefreshSome
  <1>2. QED
    BY <1>1 DEF TypeOK, Refresh, dbvars, history

(* What the servers answer and the agent sends.                            *)
LEMMA ExchangeTyped ==
  ASSUME TypeOK,
         \/ \E p \in Procs : Heartbeat(p) \/ FetchConfig(p)
         \/ SendHeartbeat \/ ReceiveAnswer \/ ReceiveDetails \/ Lose
         \/ \E k \in Commands : PassDeadline(k) \/ Finish(k)
  PROVE TypeOK'
  <1>1. ASSUME NEW p \in Procs, Heartbeat(p) PROVE TypeOK'
    <2> DEFINE upd == Updates(Hydrated(view[p]), link.has, link.full)
    <2>1. link.has \in [Things -> Maybe(Items)] /\ link.full \in BOOLEAN
      BY <1>1 DEF TypeOK, Links, Heartbeat
    <2>2. upd \in Deltas
      BY <2>1, HydratedTyped, UpdatesTyped DEF TypeOK
    <2>3. link' = Answer(upd, InlineBytes(upd) > MaxInline)
      BY <1>1 DEF Heartbeat
    <2> HIDE DEF upd
    <2>4. (InlineBytes(upd) > MaxInline) \in BOOLEAN
      OBVIOUS
    <2>5. link' \in Links
      BY <2>2, <2>3, <2>4 DEF Answer, Links
    <2>6. QED
      BY <1>1, <2>5 DEF TypeOK, Heartbeat, dbvars, history
  <1>2. ASSUME NEW p \in Procs, FetchConfig(p) PROVE TypeOK'
    <2>1. PICK unread \in SUBSET DOMAIN link.asked :
            /\ IF unread = {} THEN UNCHANGED faults ELSE Fail
            /\ link' = Fetched([x \in Things |->
                          IF x \in DOMAIN link.asked \ unread
                          THEN Detail(view[p].row[x], link.asked[x]) ELSE Nothing])
      BY <1>2 DEF FetchConfig
    <2>2. \A x \in Things : \A v : Detail(view[p].row[x], v) \in Items \cup {Nothing, Removal}
      BY DEF Detail, TypeOK, Views, Maybe
    <2>3. link' \in Links
      BY <2>1, <2>2 DEF Fetched, Links, Deltas
    <2>4. faults' \in 0..MaxFaults
      BY <2>1, BoundAssumption DEF Fail, TypeOK
    <2>5. QED
      BY <1>2, <2>3, <2>4 DEF TypeOK, FetchConfig, dbvars, history
  <1>3. ASSUME SendHeartbeat PROVE TypeOK'
    <2>1. PICK full \in BOOLEAN, silent \in SUBSET {k \in Commands : Late(k)} :
            link' = Beat([x \in Things |-> IF x \in silent THEN Nothing ELSE held[x]], full)
      BY <1>3 DEF SendHeartbeat
    <2>2. [x \in Things |-> IF x \in silent THEN Nothing ELSE held[x]] \in [Things -> Maybe(Items)]
      BY DEF TypeOK, Maybe
    <2>3. link' \in Links
      BY <2>1, <2>2 DEF Beat, Links
    <2>4. QED
      BY <1>3, <2>3 DEF TypeOK, SendHeartbeat, dbvars, history
  <1>4. ASSUME ReceiveAnswer PROVE TypeOK'
    <2>1. link.upd \in Deltas /\ InlineTaken(link.upd) \in Deltas
      BY <1>4, TakenTyped DEF TypeOK, Links, ReceiveAnswer
    <2>2. /\ held' \in [Things -> Maybe(Items)] /\ ran' \subseteq Generations
          /\ steady' = steady
      BY <1>4, <2>1, TakeTyped DEF ReceiveAnswer
    <2>3. Request(Asked(link.upd)) \in Links /\ Silence \in Links
      BY <2>1, AskedTyped DEF Request, Silence, Links
    <2>4. link' \in Links
      BY <1>4, <2>3 DEF ReceiveAnswer
    <2>5. QED
      BY <1>4, <2>2, <2>4 DEF TypeOK, ReceiveAnswer, dbvars
  <1>5. ASSUME ReceiveDetails PROVE TypeOK'
    <2>1. link.upd \in Deltas
      BY <1>5 DEF TypeOK, Links, ReceiveDetails
    <2>2. /\ held' \in [Things -> Maybe(Items)] /\ ran' \subseteq Generations
          /\ steady' = steady
      BY <1>5, <2>1, TakeTyped DEF ReceiveDetails
    <2>3. link' \in Links
      BY <1>5 DEF ReceiveDetails, Silence, Links
    <2>4. QED
      BY <1>5, <2>2, <2>3 DEF TypeOK, ReceiveDetails, dbvars
  <1>6. ASSUME Lose PROVE TypeOK'
    <2>1. faults' \in 0..MaxFaults /\ link' \in Links
      BY <1>6, BoundAssumption DEF TypeOK, Lose, Fail, Silence, Links
    <2>2. QED
      BY <1>6, <2>1 DEF TypeOK, Lose, dbvars, history
  <1>7. ASSUME NEW k \in Commands, PassDeadline(k) PROVE TypeOK'
    <2>1. Generation(k) \in Generations
      BY <1>7 DEF PassDeadline, Generation, Generations, TypeOK, Maybe, Items, Things
    <2>2. QED
      BY <1>7, <2>1 DEF TypeOK, PassDeadline, history
  <1>8. ASSUME NEW k \in Commands, Finish(k) PROVE TypeOK'
    <2>1. held' \in [Things -> Maybe(Items)]
      BY <1>8 DEF TypeOK, Finish, Maybe
    <2>2. QED
      BY <1>8, <2>1 DEF TypeOK, Finish, dbvars, history
  <1>9. QED
    BY <1>1, <1>2, <1>3, <1>4, <1>5, <1>6, <1>7, <1>8

LEMMA TypeStep == TypeOK /\ [Next]_vars => TypeOK'
  <1> SUFFICES ASSUME TypeOK, [Next]_vars PROVE TypeOK'
    OBVIOUS
  <1>1. CASE Next
    BY <1>1, AdminTyped, RefreshTyped, ExchangeTyped DEF Next
  <1>2. CASE UNCHANGED vars
    BY <1>2 DEF TypeOK, vars, dbvars, history
  <1>3. QED
    BY <1>1, <1>2

(* Whatever is stored, cached, sent and held is well formed.               *)
THEOREM TypeCorrect == Spec => []TypeOK
  <1>1. QED
    BY TypeInit, TypeStep, PTL DEF Spec

-----------------------------------------------------------------------------
(***************************************************************************)
(* What stays assigned is known to every process.                          *)
(***************************************************************************)
SteadyKnown ==
  \A x \in steady :
    /\ x \in assigned /\ row[x] # Nothing
    /\ \A p \in Procs : x \in view[p].names /\ view[p].row[x] # Nothing

LEMMA SteadyInit == Init => SteadyKnown /\ NoUnfoundedRemoval
  <1> SUFFICES ASSUME Init PROVE SteadyKnown /\ NoUnfoundedRemoval
    OBVIOUS
  <1>1. \A i \in Items : i # Nothing
    BY NameAssumption
  <1>2. \A b \in Bodies : [ver |-> 1, body |-> b] \in Items /\ [ver |-> 2, body |-> b] \in Items
    BY BoundAssumption DEF Items
  <1>3. TypeOK
    BY TypeInit
  <1>4. \A x \in assigned : x \in Things /\ row[x] # Nothing
    BY <1>1, <1>2, <1>3 DEF Init, TypeOK
  <1>5. \A p \in Procs : view[p].names = assigned /\ view[p].row = row
    BY DEF Init, Fresh
  <1>6. QED
    BY <1>4, <1>5 DEF Init, SteadyKnown, NoUnfoundedRemoval, Silence

LEMMA SteadyStep ==
  ASSUME TypeOK, SteadyKnown, [Next]_vars
  PROVE SteadyKnown'
  <1>0. \A i \in Items : i # Nothing
    BY NameAssumption
  <1>1. ASSUME NEW x \in Things, NEW b \in Bodies, Store(x, b) PROVE SteadyKnown'
    <2>1. Stamped(b) # Nothing
      BY <1>0, <1>1, StampedTyped DEF TypeOK, Store, Write
    <2> HIDE DEF Stamped
    <2>2. QED
      BY <1>1, <2>1 DEF SteadyKnown, Store, Write, TypeOK
  <1>2. ASSUME NEW c \in Configs, NEW b \in Bodies, StartCanary(c, b) PROVE SteadyKnown'
    BY <1>2 DEF SteadyKnown, StartCanary, Write
  <1>3. ASSUME NEW c \in Configs, EndCanary(c) \/ Cover(c) PROVE SteadyKnown'
    BY <1>3 DEF SteadyKnown, EndCanary, Cover, Write
  <1>4. ASSUME NEW y \in Things, Delete(y) PROVE SteadyKnown'
    BY <1>4 DEF SteadyKnown, Delete, Write, TypeOK
  <1>5. ASSUME NEW y \in Things, Assign(y) \/ Unassign(y) PROVE SteadyKnown'
    BY <1>5 DEF SteadyKnown, Assign, Unassign, Write
  <1>6. ASSUME NEW p \in Procs, RefreshSome(p) PROVE SteadyKnown'
    <2>1. CASE RefreshNames(p)
      BY <2>1 DEF SteadyKnown, RefreshNames, Refresh, dbvars, history, TypeOK, Views
    <2>2. CASE RefreshCanaries(p)
      BY <2>2 DEF SteadyKnown, RefreshCanaries, Refresh, dbvars, history, TypeOK, Views
    <2>3. ASSUME NEW y \in Things, RefreshRow(p, y) PROVE SteadyKnown'
      BY <2>3 DEF SteadyKnown, RefreshRow, Refresh, dbvars, history, TypeOK, Views
    <2>4. QED
      BY <1>6, <2>1, <2>2, <2>3 DEF RefreshSome
  <1>7. ASSUME UNCHANGED <<row, assigned, view, steady>> PROVE SteadyKnown'
    BY <1>7 DEF SteadyKnown
  <1>8. CASE Next
    <2>1. ASSUME NEW k \in Commands, NEW b \in Bodies, CreateCommand(k, b) PROVE SteadyKnown'
      BY <1>1, <2>1 DEF CreateCommand, Things
    <2>2. ASSUME NEW c \in Configs, NEW b \in Bodies, StoreConfig(c, b) PROVE SteadyKnown'
      BY <1>1, <2>2 DEF StoreConfig, Things
    <2>3. ASSUME \/ \E k \in Commands : PassDeadline(k) \/ Finish(k)
                 \/ \E p \in Procs : Heartbeat(p) \/ FetchConfig(p)
                 \/ SendHeartbeat \/ ReceiveAnswer \/ ReceiveDetails \/ Lose
          PROVE SteadyKnown'
      <3>1. UNCHANGED <<row, assigned, view, steady>>
        BY <2>3 DEF PassDeadline, Finish, Heartbeat, FetchConfig, SendHeartbeat, ReceiveAnswer,
                    ReceiveDetails, Lose, Take, dbvars, history
      <3>2. QED
        BY <1>7, <3>1
    <2>4. QED
      BY <1>2, <1>3, <1>4, <1>5, <1>6, <1>8, <2>1, <2>2, <2>3 DEF Next
  <1>9. CASE UNCHANGED vars
    BY <1>7, <1>9 DEF vars, dbvars, history
  <1>10. QED
    BY <1>8, <1>9

LEMMA LinkKept ==
  ASSUME \/ \E c \in Configs, b \in Bodies : StoreConfig(c, b) \/ StartCanary(c, b)
         \/ \E c \in Configs : EndCanary(c) \/ Cover(c)
         \/ \E x \in Things : Delete(x) \/ Assign(x) \/ Unassign(x)
         \/ \E k \in Commands, b \in Bodies : CreateCommand(k, b)
         \/ \E k \in Commands : PassDeadline(k) \/ Finish(k)
         \/ \E p \in Procs : RefreshSome(p)
         \/ UNCHANGED vars
  PROVE UNCHANGED link
  <1>1. ASSUME NEW c \in Configs, NEW b \in Bodies, StoreConfig(c, b) \/ StartCanary(c, b)
        PROVE UNCHANGED link
    BY <1>1 DEF StoreConfig, Store, StartCanary, Write
  <1>2. ASSUME NEW c \in Configs, EndCanary(c) \/ Cover(c) PROVE UNCHANGED link
    BY <1>2 DEF EndCanary, Cover, Write
  <1>3. ASSUME NEW x \in Things, Delete(x) \/ Assign(x) \/ Unassign(x) PROVE UNCHANGED link
    BY <1>3 DEF Delete, Assign, Unassign, Write
  <1>4. /\ \A k \in Commands, b \in Bodies : CreateCommand(k, b) => UNCHANGED link
        /\ \A k \in Commands : PassDeadline(k) \/ Finish(k) => UNCHANGED link
    BY DEF CreateCommand, Store, Write, PassDeadline, Finish
  <1>5. ASSUME NEW p \in Procs, RefreshSome(p) PROVE UNCHANGED link
    BY <1>5 DEF RefreshSome, RefreshNames, RefreshCanaries, RefreshRow, Refresh
  <1>6. CASE UNCHANGED vars
    BY <1>6 DEF vars
  <1>7. QED
    BY <1>1, <1>2, <1>3, <1>4, <1>5, <1>6

LEMMA RemovalStep ==
  ASSUME TypeOK, SteadyKnown, NoUnfoundedRemoval, [Next]_vars
  PROVE NoUnfoundedRemoval'
  <1>0. \A i \in Items : i # Nothing /\ i # Removal
    BY NameAssumption
  <1>1. steady' \subseteq steady /\ steady \subseteq Things
    BY DEF Next, vars, dbvars, history, StoreConfig, CreateCommand, Store, StartCanary, EndCanary,
           Cover, Delete, Assign, Unassign, Write, PassDeadline, Finish, RefreshSome, RefreshNames,
           RefreshCanaries, RefreshRow, Refresh, Heartbeat, FetchConfig, SendHeartbeat,
           ReceiveAnswer, ReceiveDetails, Take, Lose, TypeOK
  <1>2. CASE UNCHANGED link
    BY <1>1, <1>2 DEF NoUnfoundedRemoval
  <1>3. ASSUME NEW p \in Procs, Heartbeat(p) PROVE NoUnfoundedRemoval'
    <2> DEFINE upd == Updates(Hydrated(view[p]), link.has, link.full)
    <2>1. ASSUME NEW x \in steady PROVE upd[x] # Removal
      <3> DEFINE offer == Hydrated(view[p])[x]
      <3>1. x \in Things /\ view[p].row[x] \in Items /\ x \in view[p].names
        BY <1>1 DEF SteadyKnown, TypeOK, Views, Maybe
      <3>2. view[p].canary \in [Configs -> Maybe(Items)]
        BY DEF TypeOK, Views
      <3>3. offer \in Items
        BY <1>0, <3>1, <3>2 DEF Hydrated, Overlaid, Maybe
      <3> HIDE DEF offer
      <3>4. /\ ConfigUpdate(offer, link.has[x], link.full) # Removal
            /\ CommandUpdate(x, offer, link.has[x], link.full) # Removal
        BY <1>0, <3>3, NameAssumption DEF ConfigUpdate, CommandUpdate
      <3>5. upd[x] \in {ConfigUpdate(offer, link.has[x], link.full),
                       CommandUpdate(x, offer, link.has[x], link.full)}
        BY <3>1 DEF Updates, offer
      <3>6. QED
        BY <3>4, <3>5
    <2>2. link'.upd = upd
      BY <1>3 DEF Heartbeat, Answer
    <2> HIDE DEF upd
    <2>3. QED
      BY <1>1, <2>1, <2>2 DEF NoUnfoundedRemoval
  <1>4. ASSUME NEW p \in Procs, FetchConfig(p) PROVE NoUnfoundedRemoval'
    <2>1. PICK unread \in SUBSET DOMAIN link.asked :
            link' = Fetched([x \in Things |->
                          IF x \in DOMAIN link.asked \ unread
                          THEN Detail(view[p].row[x], link.asked[x]) ELSE Nothing])
      BY <1>4 DEF FetchConfig
    <2>2. \A x \in steady : \A v : Detail(view[p].row[x], v) # Removal
      BY <1>0, <1>1, NameAssumption DEF Detail, SteadyKnown, TypeOK, Views, Maybe
    <2>3. \A x \in steady : link'.upd[x] # Removal
      BY <1>1, <2>1, <2>2, NameAssumption DEF Fetched
    <2>4. QED
      BY <1>1, <2>3 DEF NoUnfoundedRemoval
  <1>5. CASE link'.kind \notin {"answer", "fetched"}
    BY <1>5 DEF NoUnfoundedRemoval
  <1>6. CASE SendHeartbeat \/ ReceiveAnswer \/ ReceiveDetails \/ Lose
    <2>1. link'.kind \in {"beat", "request", "silence"}
      BY <1>6 DEF SendHeartbeat, Beat, ReceiveAnswer, Request, ReceiveDetails, Lose, Silence
    <2>2. QED
      BY <1>5, <2>1
  <1>7. CASE \/ \E c \in Configs, b \in Bodies : StoreConfig(c, b) \/ StartCanary(c, b)
             \/ \E c \in Configs : EndCanary(c) \/ Cover(c)
             \/ \E x \in Things : Delete(x) \/ Assign(x) \/ Unassign(x)
             \/ \E k \in Commands, b \in Bodies : CreateCommand(k, b)
             \/ \E k \in Commands : PassDeadline(k) \/ Finish(k)
             \/ \E p \in Procs : RefreshSome(p)
             \/ UNCHANGED vars
    <2>1. UNCHANGED link
      BY <1>7, LinkKept
    <2>2. QED
      BY <1>2, <2>1
  <1>8. QED
    BY <1>3, <1>4, <1>6, <1>7 DEF Next

(* An agent is told to drop only what at some time it was not assigned or  *)
(* what did not exist: outdated caches, canaries, fetches and deadlines    *)
(* withdraw nothing.                                                       *)
THEOREM NothingRemovedWithoutCause == Spec => []NoUnfoundedRemoval
  <1>1. TypeOK /\ SteadyKnown /\ NoUnfoundedRemoval /\ [Next]_vars
        => SteadyKnown' /\ NoUnfoundedRemoval'
    BY SteadyStep, RemovalStep
  <1>2. QED
    BY <1>1, SteadyInit, TypeInit, TypeStep, PTL DEF Spec

-----------------------------------------------------------------------------
(***************************************************************************)
(* A version of a configuration is given once, so that wherever it is      *)
(* found, stored, cached, under way or held, it is the same item.          *)
(***************************************************************************)
Carried(c) == IF link.kind \in {"answer", "fetched"} THEN {link.upd[c]} ELSE {}

Copies(c) ==
  {row[c], canary[c], held[c]} \cup Carried(c)
  \cup UNION {{view[p].row[c], view[p].canary[c]} : p \in Procs}

CopiesAgree ==
  \A c \in Configs : \A i, j \in Copies(c) \cap Items :
    i.ver <= writes /\ (i.ver = j.ver => i = j)

LEMMA CopiesInit == Init => CopiesAgree
  <1> SUFFICES ASSUME Init, NEW c \in Configs
               PROVE \A i, j \in Copies(c) \cap Items : i.ver <= writes /\ (i.ver = j.ver => i = j)
    BY DEF CopiesAgree
  <1>0. c \in Things /\ c \notin Commands /\ Nothing \notin Items
    BY KindAssumption, NameAssumption DEF Things
  <1>1. PICK b1 \in Bodies : row[c] \in {Nothing, [ver |-> 1, body |-> b1]}
    BY <1>0 DEF Init
  <1>2. PICK b2 \in Bodies : canary[c] \in {Nothing, [ver |-> 2, body |-> b2]}
    BY DEF Init
  <1>3. held[c] = Nothing
    BY <1>0 DEF Init
  <1>4. \A p \in Procs : view[p].row[c] = row[c] /\ view[p].canary[c] \in {Nothing, canary[c]}
    BY DEF Init, Fresh, Rolling
  <1>5. Carried(c) = {} /\ writes = 2
    BY DEF Init, Silence, Carried
  <1>6. Copies(c) \cap Items \subseteq {[ver |-> 1, body |-> b1], [ver |-> 2, body |-> b2]}
    BY <1>0, <1>1, <1>2, <1>3, <1>4, <1>5 DEF Copies
  <1>7. QED
    BY <1>5, <1>6

(* Copies are copied from each other, or are new.                          *)
LEMMA NothingNew ==
  ASSUME TypeOK, CopiesAgree, UNCHANGED writes,
         \A c \in Configs : Copies(c)' \cap Items \subseteq Copies(c)
  PROVE CopiesAgree'
  BY DEF CopiesAgree

LEMMA OneNew ==
  ASSUME TypeOK, CopiesAgree, NEW b \in Bodies, writes' = writes + 1,
         \A c \in Configs : Copies(c)' \cap Items \subseteq Copies(c) \cup {Stamped(b)}
  PROVE CopiesAgree'
  <1>1. Stamped(b).ver = writes + 1 /\ writes \in Int
    BY BoundAssumption DEF Stamped, TypeOK
  <1> HIDE DEF Stamped
  <1>2. \A i \in Items : i.ver \in Int
    BY DEF Items
  <1>3. ASSUME NEW c \in Configs, NEW i \in Copies(c)' \cap Items, NEW j \in Copies(c)' \cap Items
        PROVE i.ver <= writes' /\ (i.ver = j.ver => i = j)
    <2>1. CASE i = Stamped(b) /\ j = Stamped(b)
      BY <1>1, <2>1
    <2>2. CASE i = Stamped(b) /\ j \in Copies(c)
      BY <1>1, <1>2, <2>2 DEF CopiesAgree
    <2>3. CASE i \in Copies(c) /\ j = Stamped(b)
      BY <1>1, <1>2, <2>3 DEF CopiesAgree
    <2>4. CASE i \in Copies(c) /\ j \in Copies(c)
      BY <1>1, <1>2, <2>4 DEF CopiesAgree
    <2>5. QED
      BY <1>3, <2>1, <2>2, <2>3, <2>4
  <1>4. QED
    BY <1>3 DEF CopiesAgree

LEMMA CopiesStep ==
  ASSUME TypeOK, CopiesAgree, [Next]_vars
  PROVE CopiesAgree'
  <1>0. Nothing \notin Items /\ Removal \notin Items /\ \A c \in Configs : c \in Things
    BY NameAssumption DEF Things
  <1>1. ASSUME NEW x \in Things, NEW b \in Bodies, Store(x, b) PROVE CopiesAgree'
    <2>1. UNCHANGED <<canary, held, link, view>> /\ writes' = writes + 1
          /\ \A c \in Configs : row'[c] \in {row[c], Stamped(b)}
      BY <1>1 DEF Store, Write, TypeOK
    <2> HIDE DEF Stamped
    <2>2. \A c \in Configs : Copies(c)' \subseteq Copies(c) \cup {Stamped(b)}
      BY <2>1 DEF Copies, Carried
    <2>3. QED
      BY <2>1, <2>2, OneNew
  <1>2. ASSUME NEW d \in Configs, NEW b \in Bodies, StartCanary(d, b) PROVE CopiesAgree'
    <2>1. UNCHANGED <<row, held, link, view>> /\ writes' = writes + 1
          /\ \A c \in Configs : canary'[c] \in {canary[c], Stamped(b)}
      BY <1>2 DEF StartCanary, Write, TypeOK
    <2> HIDE DEF Stamped
    <2>2. \A c \in Configs : Copies(c)' \subseteq Copies(c) \cup {Stamped(b)}
      BY <2>1 DEF Copies, Carried
    <2>3. QED
      BY <2>1, <2>2, OneNew
  <1>3. ASSUME UNCHANGED <<held, link, view>>, writes' = writes + 1,
               \A c \in Configs : row'[c] \in {row[c], Nothing} /\ canary'[c] \in {canary[c], Nothing}
        PROVE CopiesAgree'
    <2>1. PICK b \in Bodies : TRUE
      BY BodyAssumption
    <2>2. \A c \in Configs : Copies(c)' \cap Items \subseteq Copies(c)
      BY <1>0, <1>3 DEF Copies, Carried
    <2>3. QED
      BY <1>3, <2>1, <2>2, OneNew
  <1>4. ASSUME NEW d \in Configs, EndCanary(d) \/ Cover(d) PROVE CopiesAgree'
    BY <1>3, <1>4 DEF EndCanary, Cover, Write, TypeOK
  <1>5. ASSUME NEW x \in Things, Delete(x) \/ Assign(x) \/ Unassign(x) PROVE CopiesAgree'
    <2>1. UNCHANGED <<canary, held, link, view>> /\ writes' = writes + 1
      BY <1>5 DEF Delete, Assign, Unassign, Write
    <2>2. row' = row \/ row' = [row EXCEPT ![x] = Nothing]
      BY <1>5 DEF Delete, Assign, Unassign
    <2>3. \A c \in Configs : row'[c] \in {row[c], Nothing}
      BY <1>0, <2>2 DEF TypeOK
    <2>4. QED
      BY <1>3, <2>1, <2>3
  <1>6. ASSUME NEW p \in Procs, RefreshSome(p) PROVE CopiesAgree'
    <2>1. UNCHANGED <<row, canary, held, link, writes>>
      BY <1>6 DEF RefreshSome, RefreshNames, RefreshCanaries, RefreshRow, Refresh, dbvars
    <2>2. \A q \in Procs, c \in Configs :
            /\ view'[q].row[c] \in {view[q].row[c], row[c]}
            /\ view'[q].canary[c] \in {view[q].canary[c], canary[c], Nothing}
      <3>1. CASE RefreshNames(p)
        BY <3>1 DEF RefreshNames, Refresh, TypeOK, Views
      <3>2. CASE RefreshCanaries(p)
        BY <3>2 DEF RefreshCanaries, Refresh, Rolling, TypeOK, Views
      <3>3. ASSUME NEW x \in Things, RefreshRow(p, x)
            PROVE \A q \in Procs, c \in Configs :
                    /\ view'[q].row[c] \in {view[q].row[c], row[c]}
                    /\ view'[q].canary[c] \in {view[q].canary[c], canary[c], Nothing}
        BY <1>0, <3>3 DEF RefreshRow, Refresh, TypeOK, Views
      <3>4. QED
        BY <1>6, <3>1, <3>2, <3>3 DEF RefreshSome
    <2>3. \A c \in Configs : Copies(c)' \cap Items \subseteq Copies(c)
      BY <1>0, <2>1, <2>2 DEF Copies, Carried
    <2>4. QED
      BY <2>1, <2>3, NothingNew
  <1>7. ASSUME UNCHANGED <<row, canary, view, writes>>,
               \A c \in Configs : Carried(c)' \cap Items \subseteq Copies(c)
                                  /\ held'[c] \in Copies(c) \cup {Nothing}
        PROVE CopiesAgree'
    <2>1. \A c \in Configs : Copies(c)' \cap Items \subseteq Copies(c)
      BY <1>0, <1>7 DEF Copies
    <2>2. QED
      BY <1>7, <2>1, NothingNew
  <1>8. \A c \in Configs : held[c] \in Copies(c)
    BY DEF Copies
  <1>9. ASSUME NEW p \in Procs, Heartbeat(p) PROVE CopiesAgree'
    <2> DEFINE upd == Updates(Hydrated(view[p]), link.has, link.full)
    <2>1. link'.upd = upd /\ UNCHANGED <<row, canary, view, writes, held>>
      BY <1>9 DEF Heartbeat, Answer, dbvars
    <2>2. ASSUME NEW c \in Configs
          PROVE upd[c] \in {view[p].row[c], view[p].canary[c], Nothing, Removal}
      <3>1. Hydrated(view[p])[c] \in {view[p].row[c], view[p].canary[c], Nothing}
        BY <1>0 DEF Hydrated, Overlaid
      <3>2. upd[c] \in {Hydrated(view[p])[c], Nothing, Removal}
        BY <1>0 DEF Updates, ConfigUpdate
      <3>3. QED
        BY <3>1, <3>2
    <2> HIDE DEF upd
    <2>3. \A c \in Configs : Carried(c)' \cap Items \subseteq Copies(c)
      BY <1>0, <2>1, <2>2 DEF Carried, Copies
    <2>4. QED
      BY <1>7, <1>8, <2>1, <2>3
  <1>10. ASSUME NEW p \in Procs, FetchConfig(p) PROVE CopiesAgree'
    <2>1. PICK unread \in SUBSET DOMAIN link.asked :
            link' = Fetched([x \in Things |->
                          IF x \in DOMAIN link.asked \ unread
                          THEN Detail(view[p].row[x], link.asked[x]) ELSE Nothing])
      BY <1>10 DEF FetchConfig
    <2>2. \A c \in Configs : \A v : Detail(view[p].row[c], v) \in {view[p].row[c], Nothing, Removal}
      BY DEF Detail
    <2>3. \A c \in Configs : link'.upd[c] \in {view[p].row[c], Nothing, Removal}
      BY <1>0, <2>1, <2>2 DEF Fetched
    <2>4. \A c \in Configs : Carried(c)' \cap Items \subseteq Copies(c)
      BY <1>0, <2>3 DEF Carried, Copies
    <2>5. QED
      BY <1>7, <1>8, <1>10, <2>4 DEF FetchConfig, dbvars
  <1>11. ASSUME ReceiveAnswer \/ ReceiveDetails PROVE CopiesAgree'
    <2>1. /\ link.kind \in {"answer", "fetched"} /\ UNCHANGED <<row, canary, view, writes>>
          /\ held' \in {Taken(link.upd), Taken(InlineTaken(link.upd))}
          /\ link'.kind \notin {"answer", "fetched"}
      BY <1>11 DEF ReceiveAnswer, ReceiveDetails, Take, Request, Silence, dbvars
    <2>2. \A c \in Configs : held'[c] \in {held[c], link.upd[c], Nothing}
      BY <1>0, <2>1 DEF Taken, InlineTaken
    <2>3. \A c \in Configs : held'[c] \in Copies(c) \cup {Nothing} /\ Carried(c)' = {}
      BY <2>1, <2>2 DEF Copies, Carried
    <2>4. QED
      BY <1>7, <2>1, <2>3
  <1>12. ASSUME SendHeartbeat \/ Lose PROVE CopiesAgree'
    <2>1. link'.kind \notin {"answer", "fetched"} /\ UNCHANGED <<row, canary, view, writes, held>>
      BY <1>12 DEF SendHeartbeat, Beat, Lose, Silence, dbvars
    <2>2. QED
      BY <1>7, <1>8, <2>1 DEF Carried
  <1>13. ASSUME NEW k \in Commands, PassDeadline(k) \/ Finish(k) PROVE CopiesAgree'
    <2>1. UNCHANGED <<row, canary, view, writes, link>>
          /\ \A c \in Configs : held'[c] \in {held[c], Nothing}
      <3>1. CASE PassDeadline(k)
        BY <3>1 DEF PassDeadline
      <3>2. CASE Finish(k)
        BY <1>0, <3>2 DEF Finish, dbvars, TypeOK
      <3>3. QED
        BY <1>13, <3>1, <3>2
    <2>2. \A c \in Configs : Carried(c)' \cap Items \subseteq Copies(c)
      BY <2>1 DEF Carried, Copies
    <2>3. QED
      BY <1>7, <1>8, <2>1, <2>2
  <1>14. CASE UNCHANGED vars
    <2>1. \A c \in Configs : Copies(c)' = Copies(c)
      BY <1>14 DEF vars, dbvars, Copies, Carried
    <2>2. QED
      BY <1>14, <2>1, NothingNew DEF vars, dbvars
  <1>15. CASE Next
    <2>1. ASSUME NEW c \in Configs, NEW b \in Bodies, StoreConfig(c, b) PROVE CopiesAgree'
      BY <1>0, <1>1, <2>1 DEF StoreConfig
    <2>2. ASSUME NEW k \in Commands, NEW b \in Bodies, CreateCommand(k, b) PROVE CopiesAgree'
      BY <1>1, <2>2 DEF CreateCommand, Things
    <2>3. QED
      BY <1>2, <1>4, <1>5, <1>6, <1>9, <1>10, <1>11, <1>12, <1>13, <1>15, <2>1, <2>2 DEF Next
  <1>16. QED
    BY <1>14, <1>15

LEMMA CopiesUsed == TypeOK /\ CopiesAgree => SameVersionSameContent
  <1> SUFFICES ASSUME TypeOK, CopiesAgree, NEW c \in Configs, held[c] # Nothing, Due[c] # Nothing,
                      held[c].ver = Due[c].ver
               PROVE held[c] = Due[c]
    BY DEF SameVersionSameContent
  <1>1. c \in Things
    BY DEF Things
  <1>2. Due[c] \in {row[c], canary[c]}
    BY <1>1 DEF Due, Hydrated, Fresh, Overlaid, Rolling
  <1>3. held[c] \in Copies(c) \cap Items /\ Due[c] \in Copies(c) \cap Items
    BY <1>1, <1>2 DEF Copies, TypeOK, Maybe
  <1>4. QED
    BY <1>3 DEF CopiesAgree

(* The agent that reports the version of what it should have has exactly   *)
(* that, so that skipping it, as both handlers do, leaves nothing out.     *)
THEOREM SameVersionAlwaysSameContent == Spec => []SameVersionSameContent
  <1>1. TypeOK /\ CopiesAgree /\ [Next]_vars => CopiesAgree'
    BY CopiesStep
  <1>2. QED
    BY <1>1, CopiesInit, CopiesUsed, TypeInit, TypeStep, PTL DEF Spec

-----------------------------------------------------------------------------
(***************************************************************************)
(* A command that stays assigned is the same one all along, for every      *)
(* process and whatever is under way.  Once started the agent keeps it, or *)
(* its deadline has passed and it is not offered again; and what is under  *)
(* way was offered before.                                                 *)
(***************************************************************************)
Ran(k) == Generation(k) \in ran

OnceInv ==
  \A k \in Commands : k \in steady =>
    /\ \A p \in Procs : view[p].row[k] = row[k]
    /\ Ran(k) => held[k] = row[k] \/ Generation(k) \in overdue
    /\ link.kind \in {"answer", "fetched"} =>
         /\ link.upd[k] \in {Nothing, row[k]}
         /\ link.upd[k] = row[k] /\ Ran(k) => held[k] = row[k]

CommandInv == TypeOK /\ SteadyKnown /\ OnceInv

LEMMA OnceInit == Init => OnceInv
  <1> SUFFICES ASSUME Init, NEW k \in Commands, k \in steady
               PROVE /\ \A p \in Procs : view[p].row[k] = row[k]
                     /\ Ran(k) => held[k] = row[k]
                     /\ link.kind \notin {"answer", "fetched"}
    BY DEF OnceInv
  <1>1. k \in Things /\ k \notin Configs
    BY KindAssumption DEF Things
  <1>2. PICK b \in Bodies, there \in SUBSET Things, again \in SUBSET Commands, had \in SUBSET Commands :
          /\ row = [x \in Things |-> IF x \notin there THEN Nothing
                                   ELSE [ver |-> IF x \in again THEN 2 ELSE 1, body |-> b]]
          /\ assigned = there
          /\ held = [x \in Things |-> IF x \in had THEN [ver |-> 1, body |-> b] ELSE Nothing]
          /\ ran = {<<j, 1>> : j \in had}
    BY DEF Init
  <1>3. PICK v \in {1, 2} : row[k] = [ver |-> v, body |-> b]
    BY <1>1, <1>2 DEF Init
  <1>4. ASSUME Ran(k) PROVE held[k] = row[k]
    <2>1. <<k, v>> \in ran
      BY <1>3, <1>4 DEF Ran, Generation
    <2>2. k \in had /\ v = 1
      BY <1>2, <2>1
    <2>3. QED
      BY <1>1, <1>2, <1>3, <2>2
  <1>5. QED
    BY <1>4 DEF Init, Fresh, Silence

(* What the administrators, time and the caches do leaves a steady command *)
(* and what is known of it alone.                                          *)
LEMMA OnceKept ==
  ASSUME CommandInv, steady' \subseteq steady, overdue \subseteq overdue', UNCHANGED <<held, link, ran>>,
         \A k \in Commands : k \in steady' => row'[k] = row[k],
         \A k \in Commands : k \in steady' => \A p \in Procs : view'[p].row[k] \in {view[p].row[k], row[k]}
  PROVE  OnceInv'
  <1>1. ASSUME NEW k \in Commands, k \in steady'
        PROVE  /\ k \in steady /\ row'[k] = row[k] /\ Generation(k)' = Generation(k)
               /\ \A p \in Procs : view'[p].row[k] = row[k]
    BY <1>1 DEF CommandInv, OnceInv, Generation
  <1>2. QED
    BY <1>1 DEF CommandInv, OnceInv, Ran

LEMMA OnceAdmin ==
  ASSUME CommandInv,
         \/ \E c \in Configs, b \in Bodies : StoreConfig(c, b) \/ StartCanary(c, b)
         \/ \E c \in Configs : EndCanary(c) \/ Cover(c)
         \/ \E x \in Things : Delete(x) \/ Assign(x) \/ Unassign(x)
         \/ \E k \in Commands, b \in Bodies : CreateCommand(k, b)
  PROVE  OnceInv'
  <1>0. /\ row \in [Things -> Maybe(Items)] /\ Configs \cap Commands = {}
        /\ \A k \in Commands : k \in Things
        /\ \A k \in Commands : k \in steady => row[k] # Nothing
    BY KindAssumption DEF CommandInv, TypeOK, SteadyKnown, Things
  <1>1. UNCHANGED <<held, link, ran, overdue, view>> /\ steady' \subseteq steady
    BY DEF StoreConfig, CreateCommand, Store, StartCanary, EndCanary, Cover, Delete, Assign, Unassign, Write
  <1>2. ASSUME NEW k \in Commands, k \in steady' PROVE row'[k] = row[k]
    <2>0. k \in steady
      BY <1>1, <1>2
    <2>1. ASSUME NEW x \in Things, NEW b \in Bodies, Store(x, b), x # k PROVE row'[k] = row[k]
      BY <1>0, <2>1 DEF Store
    <2>2. ASSUME NEW c \in Configs, NEW b \in Bodies, StoreConfig(c, b) PROVE row'[k] = row[k]
      BY <1>0, <2>1, <2>2 DEF StoreConfig, Things
    <2>3. ASSUME NEW j \in Commands, NEW b \in Bodies, CreateCommand(j, b) PROVE row'[k] = row[k]
      BY <1>0, <2>0, <2>1, <2>3 DEF CreateCommand
    <2>4. ASSUME NEW x \in Things, Delete(x) PROVE row'[k] = row[k]
      BY <1>0, <1>2, <2>4 DEF Delete
    <2>5. QED
      BY <2>2, <2>3, <2>4 DEF StartCanary, EndCanary, Cover, Assign, Unassign
  <1>3. QED
    BY <1>1, <1>2, OnceKept

LEMMA OnceRefresh ==
  ASSUME CommandInv, NEW p \in Procs, RefreshSome(p)
  PROVE  OnceInv'
  <1>1. UNCHANGED <<row, held, link, ran, steady, overdue>>
    BY DEF RefreshSome, RefreshNames, RefreshCanaries, RefreshRow, Refresh, dbvars, history
  <1>2. \A q \in Procs : \A k \in Things : view'[q].row[k] \in {view[q].row[k], row[k]}
    <2>1. view \in [Procs -> Views]
      BY DEF CommandInv, TypeOK
    <2>2. CASE RefreshNames(p)
      BY <2>1, <2>2 DEF RefreshNames, Refresh, Views
    <2>3. CASE RefreshCanaries(p)
      BY <2>1, <2>3 DEF RefreshCanaries, Refresh, Views
    <2>4. ASSUME NEW y \in Things, RefreshRow(p, y)
          PROVE  \A q \in Procs : \A k \in Things : view'[q].row[k] \in {view[q].row[k], row[k]}
      BY <2>1, <2>4 DEF RefreshRow, Refresh, Views
    <2>5. QED
      BY <2>2, <2>3, <2>4 DEF RefreshSome
  <1>3. QED
    BY <1>1, <1>2, OnceKept DEF Things

(* An answer offers a command only before its deadline: if the agent has   *)
(* started it, it has it still.                                            *)
LEMMA OnceAnswered ==
  ASSUME CommandInv, NEW p \in Procs, Heartbeat(p) \/ FetchConfig(p)
  PROVE  OnceInv'
  <1>0. /\ UNCHANGED <<row, held, ran, steady, overdue, view>>
        /\ \A i \in Items : i # Nothing /\ i # Removal
    BY NameAssumption DEF Heartbeat, FetchConfig, dbvars, history
  <1>1. SUFFICES ASSUME NEW k \in Commands, k \in steady
                 PROVE  /\ link'.upd[k] \in {Nothing, row[k]}
                        /\ link'.upd[k] = row[k] /\ Ran(k) => held[k] = row[k]
    <2>1. \A k \in Commands : Generation(k)' = Generation(k) /\ Ran(k)' = Ran(k)
      BY <1>0 DEF Generation, Ran
    <2>2. QED
      BY <1>0, <2>1 DEF CommandInv, OnceInv
  <1>2. k \in Things /\ k \notin Configs /\ row[k] \in Items
    BY <1>1, KindAssumption DEF CommandInv, SteadyKnown, TypeOK, Things, Maybe
  <1>3. CASE Heartbeat(p)
    <2> DEFINE offer == Hydrated(view[p])
               upd == Updates(offer, link.has, link.full)
    <2>1. link'.upd = upd
      BY <1>3 DEF Heartbeat, Answer
    <2>2. offer[k] = row[k]
      BY <1>1, <1>2 DEF Hydrated, CommandInv, SteadyKnown, OnceInv
    <2>3. upd[k] = CommandUpdate(k, row[k], link.has[k], link.full)
      BY <1>2, <2>2 DEF Updates
    <2> HIDE DEF upd
    <2>4. upd[k] \in {Nothing, row[k]}
      BY <1>0, <1>2, <2>3 DEF CommandUpdate
    <2>5. upd[k] = row[k] => Generation(k) \notin overdue
      BY <1>0, <1>2, <2>3 DEF CommandUpdate, Offered, Generation
    <2>6. QED
      BY <1>1, <2>1, <2>4, <2>5 DEF CommandInv, OnceInv
  <1>4. CASE FetchConfig(p)
    <2>1. PICK unread \in SUBSET DOMAIN link.asked :
            link' = Fetched([x \in Things |->
                          IF x \in DOMAIN link.asked \ unread
                          THEN Detail(view[p].row[x], link.asked[x]) ELSE Nothing])
      BY <1>4 DEF FetchConfig
    <2>2. DOMAIN link.asked \subseteq Configs
      BY <1>4 DEF FetchConfig, CommandInv, TypeOK, Links
    <2>3. link'.upd[k] = Nothing
      BY <1>2, <2>1, <2>2 DEF Fetched
    <2>4. QED
      BY <1>0, <1>2, <2>3
  <1>5. QED
    BY <1>3, <1>4

(* What the agent takes of a steady command is what is stored, and it has  *)
(* not started that before unless it has it.                               *)
LEMMA OnceTaken ==
  ASSUME CommandInv, link.kind \in {"answer", "fetched"}, NEW upd, Take(upd),
         \A k \in Commands : upd[k] = link.upd[k], UNCHANGED <<row, view, overdue>>,
         link'.kind \notin {"answer", "fetched"}
  PROVE  /\ OnceInv'
         /\ \A k \in Commands : k \in steady /\ held'[k] \notin {held[k], Nothing}
                                  => <<k, held'[k].ver>> \notin ran
  <1>0. ASSUME NEW k \in Commands, k \in steady
        PROVE  /\ k \in Things /\ row[k] \in Items /\ row[k] # Nothing /\ row[k] # Removal
               /\ upd[k] \in {Nothing, row[k]}
               /\ held'[k] = IF upd[k] = Nothing THEN held[k] ELSE row[k]
               /\ upd[k] = row[k] /\ Ran(k) => held[k] = row[k]
    <2>1. k \in Things /\ row[k] \in Items /\ row[k] # Nothing /\ row[k] # Removal
      BY <1>0, NameAssumption DEF CommandInv, SteadyKnown, TypeOK, Things, Maybe
    <2>2. upd[k] \in {Nothing, row[k]} /\ (upd[k] = row[k] /\ Ran(k) => held[k] = row[k])
      BY <1>0 DEF CommandInv, OnceInv
    <2>3. held'[k] = IF upd[k] = Nothing THEN held[k] ELSE IF upd[k] = Removal THEN Nothing ELSE upd[k]
      BY <2>1 DEF Take, Taken
    <2>4. QED
      BY <2>1, <2>2, <2>3
  <1>1. ASSUME NEW k \in Commands, k \in steady, <<k, row[k].ver>> \in ran'
        PROVE  <<k, row[k].ver>> \in ran \/ upd[k] = row[k]
    <2>1. <<k, row[k].ver>> \in ran \/ k \in Started(upd)
      BY <1>1 DEF Take
    <2>2. k \in Started(upd) => upd[k] = row[k]
      BY <1>0, <1>1, NameAssumption DEF Started
    <2>3. QED
      BY <2>1, <2>2
  <1>2. steady' = steady
    BY DEF Take
  <1>3. OnceInv'
    <2>1. ASSUME NEW k \in Commands, k \in steady, <<k, row[k].ver>> \in ran'
          PROVE  held'[k] = row[k] \/ <<k, row[k].ver>> \in overdue
      BY <1>0, <1>1, <2>1 DEF CommandInv, OnceInv, Ran, Generation
    <2>2. \A k \in Commands : k \in steady => \A p \in Procs : view[p].row[k] = row[k]
      BY DEF CommandInv, OnceInv
    <2>3. QED
      BY <1>2, <2>1, <2>2 DEF OnceInv, Ran, Generation
  <1>4. ASSUME NEW k \in Commands, k \in steady, held'[k] \notin {held[k], Nothing}
        PROVE  <<k, held'[k].ver>> \notin ran
    BY <1>0, <1>4 DEF Ran, Generation
  <1>5. QED
    BY <1>3, <1>4

StartsNew == \A k \in Commands \cap steady : held'[k] \notin {held[k], Nothing} => <<k, held'[k].ver>> \notin ran

LEMMA OnceStep ==
  ASSUME CommandInv, [Next]_vars
  PROVE  OnceInv' /\ StartsNew
  <1>1. CASE \/ \E c \in Configs, b \in Bodies : StoreConfig(c, b) \/ StartCanary(c, b)
             \/ \E c \in Configs : EndCanary(c) \/ Cover(c)
             \/ \E x \in Things : Delete(x) \/ Assign(x) \/ Unassign(x)
             \/ \E k \in Commands, b \in Bodies : CreateCommand(k, b)
    <2>1. held' = held
      BY <1>1 DEF StoreConfig, CreateCommand, Store, StartCanary, EndCanary, Cover, Delete, Assign, Unassign, Write
    <2>2. QED
      BY <1>1, <2>1, OnceAdmin DEF StartsNew
  <1>2. ASSUME NEW p \in Procs, RefreshSome(p) PROVE OnceInv' /\ StartsNew
    <2>1. held' = held
      BY <1>2 DEF RefreshSome, RefreshNames, RefreshCanaries, RefreshRow, Refresh
    <2>2. QED
      BY <1>2, <2>1, OnceRefresh DEF StartsNew
  <1>3. ASSUME NEW p \in Procs, Heartbeat(p) \/ FetchConfig(p) PROVE OnceInv' /\ StartsNew
    <2>1. held' = held
      BY <1>3 DEF Heartbeat, FetchConfig
    <2>2. QED
      BY <1>3, <2>1, OnceAnswered DEF StartsNew
  <1>4. ASSUME NEW k \in Commands, PassDeadline(k) PROVE OnceInv' /\ StartsNew
    <2>1. UNCHANGED <<row, view, held, link, steady, ran>> /\ overdue \subseteq overdue'
      BY <1>4 DEF PassDeadline, history
    <2>2. QED
      BY <2>1, OnceKept DEF StartsNew
  <1>5. ASSUME NEW k \in Commands, Finish(k) PROVE OnceInv' /\ StartsNew
    <2>1. /\ UNCHANGED <<row, view, link, steady, ran, overdue>> /\ link.kind = "silence"
          /\ held' = [held EXCEPT ![k] = Nothing] /\ held[k] # Nothing /\ <<k, held[k].ver>> \in overdue
      BY <1>5 DEF Finish, Late, Silence, dbvars, history
    <2>2. k \in DOMAIN held /\ \A j \in Commands : j \in DOMAIN held
      BY DEF CommandInv, TypeOK, Things
    <2>3. \A j \in Commands : held'[j] = IF j = k THEN Nothing ELSE held[j]
      BY <2>1, <2>2
    <2>4. \A j \in Commands : j \in steady /\ Ran(j) => held'[j] = row[j] \/ Generation(j) \in overdue
      BY <2>1, <2>3 DEF CommandInv, OnceInv, Generation
    <2>5. \A j \in Commands : Generation(j)' = Generation(j) /\ Ran(j)' = Ran(j)
      BY <2>1 DEF Generation, Ran
    <2>6. OnceInv'
      BY <2>1, <2>4, <2>5 DEF CommandInv, OnceInv
    <2>7. QED
      BY <2>3, <2>6 DEF StartsNew
  <1>6. CASE SendHeartbeat \/ Lose
    <2>1. /\ UNCHANGED <<row, view, held, steady, ran, overdue>>
          /\ link'.kind \notin {"answer", "fetched"}
      BY <1>6 DEF SendHeartbeat, Beat, Lose, Silence, dbvars, history
    <2>2. \A j \in Commands : Generation(j)' = Generation(j) /\ Ran(j)' = Ran(j)
      BY <2>1 DEF Generation, Ran
    <2>3. QED
      BY <2>1, <2>2 DEF CommandInv, OnceInv, StartsNew
  <1>7. CASE ReceiveAnswer \/ ReceiveDetails
    <2>1. /\ link.kind \in {"answer", "fetched"} /\ link'.kind \notin {"answer", "fetched"}
          /\ UNCHANGED <<row, view, overdue>>
          /\ Take(link.upd) \/ Take(InlineTaken(link.upd))
      BY <1>7 DEF ReceiveAnswer, ReceiveDetails, Request, Silence, dbvars
    <2>2. \A k \in Commands : InlineTaken(link.upd)[k] = link.upd[k]
      BY KindAssumption DEF InlineTaken, Things
    <2>3. QED
      BY <2>1, <2>2, OnceTaken DEF StartsNew
  <1>8. CASE UNCHANGED vars
    <2>1. UNCHANGED <<row, view, held, link, steady, ran, overdue>>
      BY <1>8 DEF vars, dbvars, history
    <2>2. QED
      BY <2>1, OnceKept DEF StartsNew
  <1>9. QED
    BY <1>1, <1>2, <1>3, <1>4, <1>5, <1>6, <1>7, <1>8 DEF Next

(* A command that stays assigned is started once, however often answers    *)
(* are lost or repeated, before and after its deadline.                    *)
THEOREM CommandsRunOnce == Spec => RunsOnce
  <1>1. Init => CommandInv
    BY TypeInit, SteadyInit, OnceInit DEF CommandInv
  <1>2. CommandInv /\ [Next]_vars => CommandInv'
    BY TypeStep, SteadyStep, OnceStep DEF CommandInv
  <1>3. CommandInv /\ [Next]_vars
          => [\A k \in Commands \cap steady :
                held'[k] \notin {held[k], Nothing} => <<k, held'[k].ver>> \notin ran]_vars
    BY OnceStep DEF StartsNew
  <1>4. QED
    BY <1>1, <1>2, <1>3, PTL DEF Spec, RunsOnce
=============================================================================
