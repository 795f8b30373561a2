------------------------- MODULE ResolveCacheProofs -------------------------
(* Proofs about ResolveCache, for any number of processes, agents, writers *)
(* and failures.                                                           *)
EXTENDS ResolveCache, TLAPS

LEMMA TypedInit == Init => Typed
  <1> SUFFICES ASSUME Init PROVE Typed
    OBVIOUS
  <1>1. mapped \in BOOLEAN /\ exists \in BOOLEAN /\ canary \in Status
    BY DEF Init, Status
  <1>2. QED
    BY <1>1, BoundAssumption DEF Init, Typed, Idle, NoFlight, IdleOp

LEMMA CommitTyped ==
  ASSUME Typed, NEW w \in Writers, NEW m \in Managers, Commit(w, m),
         mapped' \in BOOLEAN, exists' \in BOOLEAN, canary' \in Status
  PROVE Typed'
  <1> USE DEF Typed, Commit, cachevars
  <1>1. writes' \in Nat
    BY DEF Commit
  <1>2. /\ op' \in [Writers -> [pc : {"idle", "flush", "publish"}, at : Managers \cup {Nowhere}]]
        /\ \A v \in Writers : op'[v].pc # "idle" => op'[v].at \in Managers
    <2>1. CASE op' = [op EXCEPT ![w] = [pc |-> "flush", at |-> m]]
      BY <2>1
    <2>2. CASE UNCHANGED op
      BY <2>2
    <2>3. QED
      BY <2>1, <2>2
  <1>3. faults' \in Nat /\ lost' \subseteq Managers
    BY DEF Fail
  <1>4. UNCHANGED <<epoch, names, list, flight, req, inbox, late>>
    OBVIOUS
  <1>5. QED
    BY <1>1, <1>2, <1>3, <1>4

(* A step that changes one request, and keeps it where it is.              *)
LEMMA RequestTyped ==
  ASSUME Typed, NEW a \in Agents, req[a].pc # "idle",
         NEW p \in {"configs", "store", "canaries", "wait"}, NEW f \in {"in", "out"},
         req' = [req EXCEPT ![a].pc = p, ![a].found = f]
  PROVE /\ req' \in [Agents -> [pc : {"idle", "mappings", "configs", "store", "canaries", "wait"},
                                at : Managers \cup {Nowhere}, key : Nat, found : {"in", "out"}]]
        /\ \A b \in Agents : req'[b].pc # "idle" => req'[b].at \in Managers
  <1> USE DEF Typed
  <1>1. DOMAIN req' = Agents /\ req' = [b \in Agents |-> req'[b]]
    OBVIOUS
  <1>2. ASSUME NEW b \in Agents
        PROVE /\ req'[b] \in [pc : {"idle", "mappings", "configs", "store", "canaries", "wait"},
                               at : Managers \cup {Nowhere}, key : Nat, found : {"in", "out"}]
              /\ req'[b].pc # "idle" => req'[b].at \in Managers
    <2>1. req[a] \in [pc : {"idle", "mappings", "configs", "store", "canaries", "wait"},
                      at : Managers \cup {Nowhere}, key : Nat, found : {"in", "out"}]
      OBVIOUS
    <2>2. req'[b] = IF b = a THEN [[req[a] EXCEPT !.pc = p] EXCEPT !.found = f] ELSE req[b]
      OBVIOUS
    <2>3. CASE b = a
      <3>1. [req[a] EXCEPT !.pc = p] \in
              [pc : {"idle", "mappings", "configs", "store", "canaries", "wait"},
               at : Managers \cup {Nowhere}, key : Nat, found : {"in", "out"}]
        BY <2>1
      <3>2. QED
        BY <2>1, <2>2, <2>3, <3>1
    <2>4. CASE b # a
      BY <2>2, <2>4
    <2>5. QED
      BY <2>3, <2>4
  <1>3. QED
    BY <1>1, <1>2

LEMMA TypedStep == ASSUME Typed, [Next]_vars PROVE Typed'
  <1> USE BoundAssumption, NameAssumption DEF Typed, dbvars, cachevars, history
  <1>1. ASSUME NEW a \in Agents, Request(a) PROVE Typed'
    <2>1. ASSUME NEW m \in Managers, StartRequest(a, m) PROVE Typed'
      <3>1. CASE Cached(m) = {}
        BY <2>1, <3>1 DEF StartRequest
      <3>2. CASE Cached(m) # {}
        <4>1. (CHOOSE e \in Cached(m) : TRUE) \in Cached(m)
          BY <3>2
        <4>2. (CHOOSE e \in Cached(m) : TRUE).found \in {"in", "out"}
          BY <4>1 DEF Cached
        <4>3. QED
          BY <2>1, <3>2, <4>2 DEF StartRequest
      <3>3. QED
        BY <3>1, <3>2
    <2>2. CASE QueryMappings(a)
      <3>1. PICK f \in {"in", "out"} :
              req' = [req EXCEPT ![a].pc = "configs", ![a].found = f]
        BY <2>2 DEF QueryMappings
      <3>2. QED
        BY <2>2, <3>1, RequestTyped DEF QueryMappings
    <2>3. CASE QueryConfigs(a)
      <3>1. PICK f \in {"in", "out"} :
              req' = [req EXCEPT ![a].pc = "store", ![a].found = f]
        <4>1. CASE exists
          BY <2>3, <4>1 DEF QueryConfigs
        <4>2. CASE ~exists
          BY <2>3, <4>2 DEF QueryConfigs
        <4>3. QED
          BY <4>1, <4>2
      <3>2. QED
        BY <2>3, <3>1, RequestTyped DEF QueryConfigs
    <2>4. CASE QueryFails(a)
      BY <2>4 DEF QueryFails, Fail, Idle
    <2>5. CASE StoreNames(a)
      BY <2>5 DEF StoreNames, StoreKey
    <2>6. CASE GetCanaries(a)
      <3>1. CASE req' = [req EXCEPT ![a] = Idle] /\ UNCHANGED flight
        BY <2>6, <3>1 DEF GetCanaries, Idle
      <3>2. CASE req' = [req EXCEPT ![a].pc = "wait"]
        <4>1. flight' = flight \/ flight' = [flight EXCEPT ![req[a].at].st = "query"]
          BY <2>6, <3>2 DEF GetCanaries, Idle
        <4>2. req[a].pc # "idle" /\ req[a].found \in {"in", "out"}
          BY <2>6 DEF GetCanaries
        <4>3. req' = [req EXCEPT ![a].pc = "wait", ![a].found = req[a].found]
          BY <3>2
        <4>4. flight' \in [Managers -> [st : {"none", "query", "got"}, found : {"on", "off"}]]
          BY <2>6, <4>1 DEF GetCanaries
        <4>5. QED
          BY <2>6, <4>2, <4>3, <4>4, RequestTyped DEF GetCanaries
      <3>3. QED
        BY <2>6, <3>1, <3>2 DEF GetCanaries
    <2>7. QED
      BY <1>1, <2>1, <2>2, <2>3, <2>4, <2>5, <2>6 DEF Request
  <1>2. ASSUME NEW m \in Managers, ListCanaries(m) \/ ListFails(m) \/ StoreCanaries(m)
        PROVE Typed'
    <2>1. CASE ListCanaries(m)
      BY <2>1 DEF ListCanaries, Active
    <2>2. CASE ListFails(m)
      BY <2>2 DEF ListFails, Fail, NoFlight, Answer, Idle
    <2>3. CASE StoreCanaries(m)
      BY <2>3 DEF StoreCanaries, NoFlight, Answer, Idle
    <2>4. QED
      BY <1>2, <2>1, <2>2, <2>3
  <1>3. ASSUME NEW w \in Writers, Write(w) PROVE Typed'
    <2>1. ASSUME NEW m \in Managers, ChangeMapping(w, m) PROVE Typed'
      <3>1. Commit(w, m) /\ mapped' \in BOOLEAN /\ exists' \in BOOLEAN /\ canary' \in Status
        BY <2>1 DEF ChangeMapping
      <3>2. QED
        BY <3>1, CommitTyped
    <2>2. ASSUME NEW m \in Managers, DeleteConfig(w, m) PROVE Typed'
      <3>1. Commit(w, m) /\ mapped' \in BOOLEAN /\ exists' \in BOOLEAN /\ canary' \in Status
        BY <2>2 DEF DeleteConfig
      <3>2. QED
        BY <3>1, CommitTyped
    <2>3. ASSUME NEW m \in Managers, CreateOnetime(w, m) PROVE Typed'
      <3>1. Commit(w, m) /\ mapped' \in BOOLEAN /\ exists' \in BOOLEAN /\ canary' \in Status
        BY <2>3 DEF CreateOnetime
      <3>2. QED
        BY <3>1, CommitTyped
    <2>4. ASSUME NEW m \in Managers, ChangeCanary(w, m) PROVE Typed'
      <3>1. Commit(w, m) /\ mapped' \in BOOLEAN /\ exists' \in BOOLEAN /\ canary' \in Status
        BY <2>4 DEF ChangeCanary, Status
      <3>2. QED
        BY <3>1, CommitTyped
    <2>5. CASE Flush(w)
      BY <2>5 DEF Flush, FlushOwn, FlushNames, DropList, IdleOp
    <2>6. CASE Publish(w)
      BY <2>6 DEF Publish, IdleOp
    <2>7. CASE PublishFails(w)
      BY <2>7 DEF PublishFails, Fail, IdleOp
    <2>8. QED
      BY <1>3, <2>1, <2>2, <2>3, <2>4, <2>5, <2>6, <2>7 DEF Write
  <1>4. CASE CreateConfig
    BY <1>4 DEF CreateConfig
  <1>5. ASSUME NEW m \in Managers, Deliver(m) \/ ReceiveError(m) \/ LoseMessage(m)
        PROVE Typed'
    <2>1. CASE Deliver(m)
      BY <2>1 DEF Deliver, FlushOwn, FlushNames, DropList
    <2>2. CASE ReceiveError(m)
      BY <2>2 DEF ReceiveError, FlushOwn, FlushNames, DropList, Fail
    <2>3. CASE LoseMessage(m)
      BY <2>3 DEF LoseMessage, Fail
    <2>4. QED
      BY <1>5, <2>1, <2>2, <2>3
  <1>6. ASSUME NEW m \in Managers, ExpireNames(m) \/ ExpireList(m) \/ Restart(m)
        PROVE Typed'
    <2>1. CASE ExpireNames(m)
      BY <2>1 DEF ExpireNames
    <2>2. CASE ExpireList(m)
      BY <2>2 DEF ExpireList
    <2>3. CASE Restart(m)
      BY <2>3 DEF Restart, Fail, NoFlight, Idle, IdleOp
    <2>4. QED
      BY <1>6, <2>1, <2>2, <2>3
  <1>7. CASE UNCHANGED vars
    BY <1>7 DEF vars
  <1>8. QED
    BY <1>1, <1>2, <1>3, <1>4, <1>5, <1>6, <1>7 DEF Next

THEOREM TypeCorrect == Spec => []TypeOK
  <1>1. Init => TypeOK
    BY TypedInit DEF Init, TypeOK, WaitersHaveCall, Idle
  <1>2. TypeOK /\ [Next]_vars => TypeOK'
    <2> SUFFICES ASSUME TypeOK, [Next]_vars PROVE TypeOK'
      OBVIOUS
    <2>1. Typed /\ Typed'
      BY TypedStep DEF TypeOK
    <2>2. ASSUME NEW a \in Agents, req'[a].pc = "wait"
          PROVE flight'[req'[a].at].st # "none"
      <3> USE DEF Typed
      <3>1. req[a].pc = "wait" => flight[req[a].at].st # "none" /\ req[a].at \in Managers
        BY DEF TypeOK, WaitersHaveCall
      <3>2. ASSUME NEW b \in Agents, Request(b) PROVE flight'[req'[a].at].st # "none"
        <4>1. CASE GetCanaries(b)
          <5>1. req[b].at \in Managers
            BY <2>1, <4>1 DEF GetCanaries
          <5>2. CASE a = b
            <6>1. req' # [req EXCEPT ![b] = Idle]
              BY <2>1, <2>2, <5>2 DEF Idle
            <6>2. /\ req' = [req EXCEPT ![b].pc = "wait"]
                  /\ flight' = IF flight[req[b].at].st = "none"
                                 THEN [flight EXCEPT ![req[b].at].st = "query"] ELSE flight
              BY <4>1, <6>1, Zenon DEF GetCanaries
            <6>3. req'[a].at = req[b].at
              BY <5>2, <6>2
            <6>4. flight'[req[b].at].st # "none"
              <7>1. CASE flight[req[b].at].st = "none"
                BY <2>1, <5>1, <6>2, <7>1
              <7>2. CASE flight[req[b].at].st # "none"
                BY <6>2, <7>2
              <7>3. QED
                BY <7>1, <7>2
            <6>5. QED
              BY <6>3, <6>4
          <5>3. CASE a # b
            <6>1. req'[a] = req[a]
              BY <2>1, <4>1, <5>3 DEF GetCanaries
            <6>2. flight'[req[a].at] = flight[req[a].at] \/ flight'[req[a].at].st # "none"
              BY <2>1, <2>2, <3>1, <4>1, <5>1, <6>1 DEF GetCanaries
            <6>3. QED
              BY <2>2, <3>1, <6>1, <6>2
          <5>4. QED
            BY <5>2, <5>3
        <4>2. CASE ~GetCanaries(b)
          <5>1. UNCHANGED flight
            BY <3>2, <4>2 DEF Request, StartRequest, QueryMappings, QueryConfigs,
                              QueryFails, StoreNames, cachevars
          <5>2. req'[a] = req[a]
            BY <2>1, <2>2, <3>2, <4>2 DEF Request, StartRequest, QueryMappings,
                 QueryConfigs, QueryFails, StoreNames, Idle
          <5>3. QED
            BY <2>2, <3>1, <5>1, <5>2
        <4>3. QED
          BY <4>1, <4>2
      <3>3. ASSUME NEW m \in Managers, ListCanaries(m) \/ ListFails(m) \/ StoreCanaries(m)
            PROVE flight'[req'[a].at].st # "none"
        BY <2>1, <2>2, <3>1, <3>3
           DEF ListCanaries, ListFails, StoreCanaries, Answer, Idle, NoFlight
      <3>4. ASSUME NEW m \in Managers, Restart(m) PROVE flight'[req'[a].at].st # "none"
        BY <2>1, <2>2, <3>1, <3>4 DEF Restart, Idle, NoFlight
      <3>5. CASE UNCHANGED <<req, flight>>
        BY <2>2, <3>1, <3>5
      <3>6. QED
        <4>1. CASE Next
          BY <4>1, <3>2, <3>3, <3>4, <3>5
             DEF Next, Write, ChangeMapping, DeleteConfig, CreateOnetime, ChangeCanary,
                 Commit, CreateConfig, Flush, FlushOwn, FlushNames, DropList, Publish, PublishFails,
                 Deliver, ReceiveError, LoseMessage, ExpireNames, ExpireList, cachevars
        <4>2. CASE UNCHANGED vars
          BY <4>2, <3>5 DEF vars, cachevars
        <4>3. QED
          BY <4>1, <4>2
    <2>3. QED
      BY <2>1, <2>2 DEF TypeOK, WaitersHaveCall
  <1>3. QED
    BY <1>1, <1>2, PTL DEF Spec

-----------------------------------------------------------------------------
(* How a process stops being behind: it is flushed, or it starts anew.     *)
Flushed(m) ==
  /\ epoch'[m] = epoch[m] + 1
  /\ list'[m] = "unset"
  /\ UNCHANGED <<names, req>>
Renewed(m) ==
  /\ names'[m] = {}
  /\ list'[m] = "unset"
  /\ \A a \in Agents : req'[a].at # m

(* Every structural write leaves every process behind.                     *)
LEMMA CommitBehind ==
  ASSUME Typed, NEW w \in Writers, NEW m \in Managers, Commit(w, m), NEW n \in Managers
  PROVE Behind(n)'
  <1>1. CASE op' = [op EXCEPT ![w] = [pc |-> "flush", at |-> m]]
    <2>1. op'[w].pc = "flush"
      BY <1>1 DEF Typed
    <2>2. QED
      BY <2>1 DEF Behind, Pending
  <1>2. CASE lost' = Managers
    BY <1>2 DEF Behind
  <1>3. QED
    BY <1>1, <1>2 DEF Commit

(* Being behind lasts until the process is flushed or starts anew.         *)
LEMMA BehindStays ==
  ASSUME Typed, [Next]_vars, NEW n \in Managers, Behind(n)
  PROVE Behind(n)' \/ Flushed(n) \/ Renewed(n)
  <1>0. \/ n \in lost \/ inbox[n] > 0
        \/ \E v \in Writers : op[v].pc = "flush" \/ (op[v].pc = "publish" /\ op[v].at # n)
    BY DEF Behind, Pending
  <1> USE DEF Typed, Behind, Pending
  <1>1. ASSUME NEW w \in Writers, Write(w) PROVE Behind(n)' \/ Flushed(n)
    <2>1. ASSUME NEW m \in Managers, Commit(w, m) PROVE Behind(n)'
      BY <2>1, CommitBehind
    <2>2. CASE Flush(w)
      <3>1. CASE n = op[w].at
        BY <2>2, <3>1 DEF Flush, FlushOwn, FlushNames, DropList, Flushed
      <3>2. CASE n # op[w].at
        <4>1. HasRedis
          BY <2>2, <3>2, AllInOneAssumption DEF Flush
        <4>2. op' = [op EXCEPT ![w].pc = "publish"]
          BY <2>2, <4>1 DEF Flush
        <4>3. op'[w].pc = "publish" /\ op'[w].at # n
          BY <3>2, <4>2
        <4>4. QED
          BY <4>3
      <3>3. QED
        BY <3>1, <3>2
    <2>3. CASE Publish(w)
      BY <2>3 DEF Publish
    <2>4. CASE PublishFails(w)
      <3>1. CASE n # op[w].at
        BY <2>4, <3>1 DEF PublishFails
      <3>2. CASE n = op[w].at
        <4>1. CASE n \in lost \/ inbox[n] > 0
          BY <2>4, <4>1 DEF PublishFails
        <4>2. CASE ~(n \in lost \/ inbox[n] > 0)
          <5>1. PICK v \in Writers : op[v].pc = "flush" \/ (op[v].pc = "publish" /\ op[v].at # n)
            BY <1>0, <4>2
          <5>2. v # w
            BY <2>4, <3>2, <5>1 DEF PublishFails
          <5>3. op'[v] = op[v]
            BY <2>4, <5>2 DEF PublishFails
          <5>4. QED
            BY <5>1, <5>3
        <4>3. QED
          BY <4>1, <4>2
      <3>3. QED
        BY <3>1, <3>2
    <2>5. QED
      BY <1>1, <2>1, <2>2, <2>3, <2>4
         DEF Write, ChangeMapping, DeleteConfig, CreateOnetime, ChangeCanary
  <1>2. ASSUME NEW m \in Managers, Deliver(m) PROVE Behind(n)' \/ Flushed(n)
    BY <1>2 DEF Deliver, FlushOwn, FlushNames, DropList, Flushed
  <1>3. ASSUME NEW m \in Managers, ReceiveError(m) PROVE Behind(n)' \/ Flushed(n)
    BY <1>3 DEF ReceiveError, FlushOwn, FlushNames, DropList, Flushed
  <1>4. ASSUME NEW m \in Managers, LoseMessage(m) PROVE Behind(n)'
    BY <1>4 DEF LoseMessage
  <1>5. ASSUME NEW m \in Managers, Restart(m) PROVE Behind(n)' \/ Renewed(n)
    <2>1. CASE n = m
      BY <1>5, <2>1, NameAssumption DEF Restart, Renewed, Idle
    <2>2. CASE n # m
      <3>1. CASE n \in lost \/ inbox[n] > 0
        BY <1>5, <2>2, <3>1 DEF Restart
      <3>2. CASE ~(n \in lost \/ inbox[n] > 0)
        <4>1. PICK v \in Writers : op[v].pc = "flush" \/ (op[v].pc = "publish" /\ op[v].at # n)
          BY <1>0, <3>2
        <4>2. CASE op[v].at = m
          BY <1>5, <2>2, <4>2 DEF Restart
        <4>3. CASE op[v].at # m
          <5>1. op'[v] = op[v]
            BY <1>5, <4>3 DEF Restart
          <5>2. QED
            BY <4>1, <5>1
        <4>4. QED
          BY <4>2, <4>3
      <3>3. QED
        BY <3>1, <3>2
    <2>3. QED
      BY <2>1, <2>2
  <1>6. CASE UNCHANGED <<op, inbox, lost>>
    BY <1>6
  <1>7. QED
    <2>1. CASE Next
      BY <2>1, <1>1, <1>2, <1>3, <1>4, <1>5, <1>6
         DEF Next, Request, StartRequest, QueryMappings, QueryConfigs, QueryFails, StoreNames,
             GetCanaries, ListCanaries, ListFails, StoreCanaries, CreateConfig, ExpireNames,
             ExpireList, history
    <2>2. CASE UNCHANGED vars
      BY <2>2, <1>6 DEF vars, history
    <2>3. QED
      BY <2>1, <2>2

(* The argument for the list needs nothing else: it is read and stored by  *)
(* one action, which records when what it stores is outdated.              *)
THEOREM CanaryListAlwaysHasCause == Spec => []CanaryListHasCause
  <1>1. Init => CanaryListHasCause
    BY DEF Init, CanaryListHasCause
  <1>2. Typed /\ CanaryListHasCause /\ [Next]_vars => CanaryListHasCause'
    <2> SUFFICES ASSUME Typed, CanaryListHasCause, [Next]_vars,
                        NEW m \in Managers, list'[m] \notin {"unset", Active'},
                        ~Behind(m)'
                 PROVE m \in late'
      BY DEF CanaryListHasCause
    <2> USE DEF Typed
    <2>1. ~Behind(m) \/ Flushed(m) \/ Renewed(m)
      BY BehindStays
    <2>2. ~Behind(m)
      BY <2>1 DEF Flushed, Renewed
    <2>3. ASSUME NEW n \in Managers, StoreCanaries(n) PROVE m \in late'
      <3>1. CASE m = n
        <4>1. list'[m] = flight[m].found /\ UNCHANGED <<canary, op, inbox, lost>>
          BY <2>3, <3>1 DEF StoreCanaries, dbvars
        <4>2. flight[m].found # Active /\ ~Pending(m)
          BY <2>2, <4>1 DEF Behind, Active
        <4>3. QED
          BY <2>3, <3>1, <4>2 DEF StoreCanaries
      <3>2. CASE m # n
        <4>1. list'[m] = list[m] /\ UNCHANGED canary
          BY <2>3, <3>2 DEF StoreCanaries, dbvars
        <4>2. m \in late
          BY <2>2, <4>1 DEF CanaryListHasCause, Active
        <4>3. QED
          BY <2>3, <3>2, <4>2 DEF StoreCanaries
      <3>3. QED
        BY <3>1, <3>2
    <2>4. ASSUME NEW w \in Writers, NEW n \in Managers, Commit(w, n) PROVE m \in late'
      BY <2>4, CommitBehind
    <2>5. CASE UNCHANGED <<canary, list, late>>
      BY <2>2, <2>5 DEF CanaryListHasCause, Active
    <2>6. ASSUME NEW n \in Managers, DropList(n), UNCHANGED canary PROVE m \in late'
      BY <2>2, <2>6 DEF DropList, CanaryListHasCause, Active
    <2>7. QED
      <3>1. CASE Next
        BY <3>1, <2>3, <2>4, <2>5, <2>6
           DEF Next, Request, StartRequest, QueryMappings, QueryConfigs, QueryFails, StoreNames,
               GetCanaries, ListCanaries, ListFails, Write, ChangeMapping, DeleteConfig,
               CreateOnetime, ChangeCanary, CreateConfig, Flush, FlushOwn, Publish, PublishFails,
               Deliver, ReceiveError, LoseMessage, ExpireNames, ExpireList, Restart, DropList,
               dbvars, cachevars, history
      <3>2. CASE UNCHANGED vars
        BY <3>2, <2>5 DEF vars, dbvars, cachevars, history
      <3>3. QED
        BY <3>1, <3>2
  <1>3. QED
    BY <1>1, <1>2, TypeCorrect, PTL DEF Spec, TypeOK

-----------------------------------------------------------------------------
(* Freshness of the resolved names.  An answer is wrong when the database  *)
(* no longer says so; for pipeline and instance configurations only an     *)
(* answer that delivers too much is held against the cache, as creating    *)
(* them flushes nothing.                                                   *)
Wrong(f) == f # Delivered /\ (Onetime \/ f = "in")
Misread(f) == \/ f = "in" /\ ~mapped
              \/ Onetime /\ f = "out" /\ mapped

(* No entry and no request is ahead of the epoch.                          *)
KeysOld ==
  /\ \A m \in Managers : \A e \in names[m] : e.key <= epoch[m]
  /\ \A a \in Agents : req[a].pc # "idle" => req[a].key <= epoch[req[a].at]

NamesInv == \A m \in Managers : \A e \in Cached(m) : Wrong(e.found) => Behind(m)

(* A request whose epoch is still the current one has read what is still   *)
(* true, or its process is behind: the mappings, then the whole answer.    *)
Answered(a) == req[a].pc \in {"store", "canaries", "wait"}

ReadInv ==
  \A a \in Agents, m \in Managers, f \in {"in", "out"} :
    req[a].at = m /\ req[a].found = f /\ req[a].key = epoch[m] =>
      /\ req[a].pc = "configs" /\ Misread(f) => Behind(m)
      /\ Answered(a) /\ Wrong(f) => Behind(m)

FreshInv == Typed /\ KeysOld /\ NamesInv /\ ReadInv

LEMMA KeysOldStep == ASSUME Typed, KeysOld, [Next]_vars PROVE KeysOld'
  <1> USE DEF Typed, KeysOld, dbvars, cachevars
  <1>1. ASSUME NEW a \in Agents, Request(a) PROVE KeysOld'
    <2>1. ASSUME NEW m \in Managers, StartRequest(a, m) PROVE KeysOld'
      <3>1. UNCHANGED <<names, epoch>> /\ \A b \in Agents : b # a => req'[b] = req[b]
        BY <2>1 DEF StartRequest
      <3>2. req'[a].at = m /\ req'[a].key = epoch[m]
        BY <2>1 DEF StartRequest
      <3>3. ASSUME NEW b \in Agents, req'[b].pc # "idle"
            PROVE req'[b].key <= epoch'[req'[b].at]
        <4>1. CASE b = a
          BY <3>1, <3>2, <4>1
        <4>2. CASE b # a
          BY <3>1, <3>3, <4>2
        <4>3. QED
          BY <4>1, <4>2
      <3>4. QED
        BY <3>1, <3>3
    <2>2. CASE StoreNames(a)
      <3>1. req[a].at \in Managers /\ req[a].key <= epoch[req[a].at]
        BY <2>2 DEF StoreNames
      <3>2. UNCHANGED epoch /\ \A b \in Agents : /\ req'[b].pc # "idle" => req[b].pc # "idle"
                                                 /\ req'[b].key = req[b].key
                                                 /\ req'[b].at = req[b].at
        BY <2>2 DEF StoreNames
      <3>3. ASSUME NEW m \in Managers, NEW e \in names'[m] PROVE e.key <= epoch'[m]
        <4>1. CASE m = req[a].at
          <5>1. e \in names[m] \/ e = [key |-> req[a].key, found |-> req[a].found]
            BY <2>2, <3>1, <4>1, <3>3 DEF StoreNames, StoreKey
          <5>2. QED
            BY <3>1, <3>2, <4>1, <5>1
        <4>2. CASE m # req[a].at
          BY <2>2, <3>1, <3>2, <3>3, <4>2 DEF StoreNames
        <4>3. QED
          BY <4>1, <4>2
      <3>4. QED
        BY <3>2, <3>3
    <2>3. CASE \/ QueryMappings(a) \/ QueryConfigs(a) \/ QueryFails(a) \/ GetCanaries(a)
      <3>1. UNCHANGED <<names, epoch>>
        BY <2>3 DEF QueryMappings, QueryConfigs, QueryFails, GetCanaries
      <3>2. \A b \in Agents : req'[b].pc # "idle" => /\ req[b].pc # "idle"
                                                     /\ req'[b].key = req[b].key
                                                     /\ req'[b].at = req[b].at
        <4>1. CASE QueryMappings(a)
          BY <4>1 DEF QueryMappings
        <4>2. CASE QueryConfigs(a)
          BY <4>2 DEF QueryConfigs
        <4>3. CASE QueryFails(a)
          BY <4>3 DEF QueryFails, Idle
        <4>4. CASE GetCanaries(a)
          <5>1. \/ req' = [req EXCEPT ![a] = Idle]
                \/ req' = [req EXCEPT ![a].pc = "wait"]
            BY <4>4 DEF GetCanaries
          <5>2. CASE req' = [req EXCEPT ![a] = Idle]
            BY <5>2 DEF Idle
          <5>3. CASE req' = [req EXCEPT ![a].pc = "wait"]
            BY <4>4, <5>3 DEF GetCanaries
          <5>4. QED
            BY <5>1, <5>2, <5>3
        <4>5. QED
          BY <2>3, <4>1, <4>2, <4>3, <4>4
      <3>3. QED
        BY <3>1, <3>2
    <2>4. QED
      BY <1>1, <2>1, <2>2, <2>3 DEF Request
  <1>2. ASSUME NEW m \in Managers, ListFails(m) \/ StoreCanaries(m) PROVE KeysOld'
    <2>1. UNCHANGED <<names, epoch>>
      BY <1>2 DEF ListFails, StoreCanaries
    <2>2. \A b \in Agents : req'[b].pc # "idle" => req'[b] = req[b]
      BY <1>2 DEF ListFails, StoreCanaries, Answer, Idle
    <2>3. QED
      BY <2>1, <2>2
  <1>3. ASSUME NEW m \in Managers, FlushNames(m), UNCHANGED <<names, req>> PROVE KeysOld'
    <2>1. \A n \in Managers : epoch[n] <= epoch'[n] /\ epoch[n] \in Nat /\ epoch'[n] \in Nat
      BY <1>3 DEF FlushNames
    <2>2. QED
      BY <1>3, <2>1
  <1>4. ASSUME NEW m \in Managers, Restart(m) PROVE KeysOld'
    <2>1. \A n \in Managers : /\ n = m => names'[n] = {}
                              /\ n # m => names'[n] = names[n] /\ epoch'[n] = epoch[n]
      BY <1>4 DEF Restart
    <2>2. \A a \in Agents : req'[a].pc # "idle" => req'[a] = req[a] /\ req[a].at # m
      BY <1>4 DEF Restart, Idle
    <2>3. QED
      BY <2>1, <2>2
  <1>5. ASSUME NEW m \in Managers, ExpireNames(m) PROVE KeysOld'
    BY <1>5 DEF ExpireNames
  <1>6. CASE UNCHANGED <<names, epoch, req>>
    BY <1>6
  <1>7. QED
    <2>1. CASE Next
      <3>1. ASSUME NEW w \in Writers, Write(w) PROVE KeysOld'
        <4>1. CASE Flush(w)
          BY <4>1, <1>3 DEF Flush, FlushOwn
        <4>2. CASE ~Flush(w)
          BY <3>1, <4>2, <1>6
             DEF Write, ChangeMapping, DeleteConfig, CreateOnetime, ChangeCanary, Commit,
                 Publish, PublishFails
        <4>3. QED
          BY <4>1, <4>2
      <3>2. ASSUME NEW m \in Managers, Deliver(m) \/ ReceiveError(m) \/ LoseMessage(m)
            PROVE KeysOld'
        BY <3>2, <1>3, <1>6 DEF Deliver, ReceiveError, LoseMessage, FlushOwn
      <3>3. QED
        BY <2>1, <3>1, <3>2, <1>1, <1>2, <1>4, <1>5, <1>6
           DEF Next, ListCanaries, CreateConfig, ExpireList
    <2>2. CASE UNCHANGED vars
      BY <2>2, <1>6 DEF vars
    <2>3. QED
      BY <2>1, <2>2

(* What changes an epoch, a set of names and a request that is reading.    *)
LEMMA EpochSteps ==
  ASSUME Typed, [Next]_vars, NEW m \in Managers
  PROVE \/ epoch'[m] = epoch[m]
        \/ epoch'[m] = epoch[m] + 1 /\ UNCHANGED <<names, req>>
        \/ names'[m] = {} /\ \A a \in Agents : req'[a].at # m
  <1> USE DEF Typed, cachevars
  <1>1. ASSUME NEW n \in Managers, FlushOwn(n), UNCHANGED req
        PROVE \/ epoch'[m] = epoch[m]
              \/ epoch'[m] = epoch[m] + 1 /\ UNCHANGED <<names, req>>
    BY <1>1 DEF FlushOwn, FlushNames
  <1>2. ASSUME NEW n \in Managers, Restart(n)
        PROVE \/ epoch'[m] = epoch[m]
              \/ names'[m] = {} /\ \A a \in Agents : req'[a].at # m
    BY <1>2, NameAssumption DEF Restart, Idle
  <1>3. CASE Next
    BY <1>1, <1>2, <1>3
       DEF Next, Request, StartRequest, QueryMappings, QueryConfigs, QueryFails, StoreNames,
           GetCanaries, ListCanaries, ListFails, StoreCanaries, Write, ChangeMapping,
           DeleteConfig, CreateOnetime, ChangeCanary, Commit, CreateConfig, Flush, Publish,
           PublishFails, Deliver, ReceiveError, LoseMessage, ExpireNames, ExpireList
  <1>4. QED
    BY <1>3 DEF vars

LEMMA NamesSteps ==
  ASSUME Typed, [Next]_vars, NEW m \in Managers
  PROVE names'[m] \subseteq names[m] \/ \E a \in Agents : StoreNames(a) /\ req[a].at = m
  <1> USE DEF Typed, cachevars
  <1>1. ASSUME NEW a \in Agents, StoreNames(a), req[a].at # m PROVE names'[m] \subseteq names[m]
    BY <1>1 DEF StoreNames
  <1>2. ASSUME NEW n \in Managers, ExpireNames(n) \/ Restart(n) PROVE names'[m] \subseteq names[m]
    BY <1>2 DEF ExpireNames, Restart
  <1>3. CASE Next
    BY <1>1, <1>2, <1>3
       DEF Next, Request, StartRequest, QueryMappings, QueryConfigs, QueryFails,
           GetCanaries, ListCanaries, ListFails, StoreCanaries, Write, ChangeMapping,
           DeleteConfig, CreateOnetime, ChangeCanary, Commit, CreateConfig, Flush, FlushOwn,
           Publish, PublishFails, Deliver, ReceiveError, LoseMessage, ExpireList
  <1>4. QED
    BY <1>3 DEF vars

(* An answer comes from the cache or from the database, and stays what it  *)
(* is until the request ends.                                              *)
LEMMA ReadSteps ==
  ASSUME Typed, [Next]_vars, NEW a \in Agents
  PROVE \/ req'[a] = req[a] \/ QueryMappings(a) \/ QueryConfigs(a)
        \/ \E m \in Managers : StartRequest(a, m)
        \/ /\ Answered(a) /\ Answered(a)'
           /\ \A x \in {"at", "key", "found"} : req'[a][x] = req[a][x]
        \/ req'[a].pc = "idle"
  <1> USE DEF Typed, cachevars
  <1>1. ASSUME NEW b \in Agents, Request(b), b # a PROVE req'[a] = req[a]
    BY <1>1 DEF Request, StartRequest, QueryMappings, QueryConfigs, QueryFails,
         StoreNames, GetCanaries
  <1>2. CASE StoreNames(a) \/ (GetCanaries(a) /\ req'[a] # Idle)
    <2>1. \/ req' = [req EXCEPT ![a].pc = "canaries"]
          \/ req' = [req EXCEPT ![a].pc = "wait"]
      BY <1>2 DEF StoreNames, GetCanaries
    <2>2. QED
      BY <1>2, <2>1 DEF StoreNames, GetCanaries, Answered
  <1>3. CASE QueryFails(a) \/ (GetCanaries(a) /\ req'[a] = Idle)
    BY <1>3 DEF QueryFails, Idle
  <1>4. ASSUME NEW n \in Managers, ListFails(n) \/ StoreCanaries(n) \/ Restart(n)
        PROVE req'[a] = req[a] \/ req'[a].pc = "idle"
    BY <1>4 DEF ListFails, StoreCanaries, Restart, Answer, Idle
  <1>5. CASE Next
    <2>1. ASSUME NEW b \in Agents, Request(b)
          PROVE \/ req'[a] = req[a] \/ QueryMappings(a) \/ QueryConfigs(a)
                \/ \E m \in Managers : StartRequest(a, m)
                \/ /\ Answered(a) /\ Answered(a)'
                   /\ \A x \in {"at", "key", "found"} : req'[a][x] = req[a][x]
                \/ req'[a].pc = "idle"
      BY <2>1, <1>1, <1>2, <1>3 DEF Request
    <2>2. QED
      BY <2>1, <1>4, <1>5
         DEF Next, ListCanaries, Write, ChangeMapping, DeleteConfig, CreateOnetime, ChangeCanary,
             Commit, CreateConfig, Flush, FlushOwn, Publish, PublishFails, Deliver, ReceiveError,
             LoseMessage, ExpireNames, ExpireList
  <1>6. QED
    BY <1>5 DEF vars

LEMMA FreshStep == ASSUME FreshInv, [Next]_vars PROVE NamesInv' /\ ReadInv'
  <1> USE DEF FreshInv
  <1>0. Typed /\ Typed' /\ KeysOld /\ KeysOld'
    BY TypedStep, KeysOldStep
  <1> USE DEF Typed
  (* A write leaves every process behind.                                  *)
  <1>1. ASSUME NEW w \in Writers, NEW m \in Managers, Commit(w, m)
        PROVE NamesInv' /\ ReadInv'
    <2>1. \A n \in Managers : Behind(n)'
      BY <1>1, CommitBehind
    <2>2. \A a \in Agents : req'[a].pc # "idle" => req'[a].at \in Managers
      BY <1>0
    <2>3. QED
      BY <2>1, <2>2 DEF NamesInv, ReadInv
  (* Creating a configuration only makes answers right.                    *)
  <1>2. CASE CreateConfig
    <2>1. UNCHANGED <<mapped, epoch, names, req, op, inbox, lost>> /\ ~Onetime /\ exists'
      BY <1>2 DEF CreateConfig, cachevars, history
    <2>2. \A f : Wrong(f)' => Wrong(f)
      BY <2>1 DEF Wrong, Delivered
    <2>3. \A f : Misread(f)' => Misread(f)
      BY <2>1 DEF Misread
    <2>4. \A n \in Managers : Behind(n) => Behind(n)'
      BY <2>1 DEF Behind, Pending
    <2>5. QED
      BY <2>1, <2>2, <2>3, <2>4 DEF NamesInv, ReadInv, Answered, Cached
  (* Anything else leaves the answers as right as they were.  Here for a   *)
  (* process that is not flushed and does not restart.                     *)
  <1>3. ASSUME UNCHANGED <<mapped, exists>> PROVE NamesInv' /\ ReadInv'
    <2>1. (\A f : Wrong(f)' <=> Wrong(f)) /\ (\A f : Misread(f)' <=> Misread(f))
      BY <1>3 DEF Wrong, Misread, Delivered
    <2>2. ASSUME NEW m \in Managers, ~Behind(m)'
          PROVE /\ Behind(m) => /\ Cached(m)' = {}
                                /\ \A a \in Agents : req'[a].pc # "idle" /\ req'[a].at = m
                                                       => req'[a].key # epoch'[m]
                /\ ~Behind(m) => \A e \in Cached(m) : ~Wrong(e.found)
      <3>1. CASE Flushed(m)
        BY <3>1 DEF Flushed, Cached, KeysOld, NamesInv
      <3>2. CASE Renewed(m)
        BY <3>2 DEF Renewed, Cached, NamesInv
      <3>3. CASE ~Behind(m)
        BY <3>3 DEF NamesInv
      <3>4. QED
        BY <2>2, <3>1, <3>2, <3>3, BehindStays
    <2>3. ASSUME NEW m \in Managers, NEW e \in Cached(m)', Wrong(e.found)', ~Behind(m)'
          PROVE FALSE
      <3>1. ~Behind(m) /\ (\A d \in Cached(m) : ~Wrong(d.found)) /\ Wrong(e.found)
        BY <2>1, <2>2, <2>3
      <3>2. e \notin Cached(m)
        BY <3>1
      <3>3. e \in names'[m] /\ e.key = epoch'[m]
        BY <2>3 DEF Cached
      (* A new entry, as the epoch never goes back but by starting anew.   *)
      <3>4. PICK a \in Agents : StoreNames(a) /\ req[a].at = m
        <4>1. CASE names'[m] \subseteq names[m]
          BY <3>2, <3>3, <4>1, EpochSteps DEF Cached, KeysOld
        <4>2. QED
          BY <4>1, NamesSteps
      <3>5. e = [key |-> req[a].key, found |-> req[a].found] /\ UNCHANGED epoch
        BY <3>2, <3>3, <3>4 DEF StoreNames, StoreKey, Cached
      <3>6. QED
        BY <3>1, <3>3, <3>4, <3>5 DEF StoreNames, ReadInv, Answered
    <2>4. ASSUME NEW a \in Agents, NEW m \in Managers, NEW f \in {"in", "out"},
                 req'[a].at = m, req'[a].found = f, req'[a].key = epoch'[m],
                 \/ req'[a].pc = "configs" /\ Misread(f)'
                 \/ Answered(a)' /\ Wrong(f)',
                 ~Behind(m)'
          PROVE FALSE
      <3>1. ~Behind(m)
        BY <2>2, <2>4 DEF Answered
      <3>2. CASE req'[a] = req[a] /\ epoch'[m] = epoch[m]
        BY <2>1, <2>4, <3>1, <3>2 DEF ReadInv, Answered
      <3>3. CASE QueryMappings(a)
        <4>1. req'[a].pc = "configs" /\ f = IF mapped THEN "in" ELSE "out"
          BY <2>4, <3>3 DEF QueryMappings
        <4>2. Misread(f)
          BY <2>1, <2>4, <4>1 DEF Answered
        <4>3. QED
          BY <4>1, <4>2 DEF Misread
      <3>4. CASE QueryConfigs(a)
        <4>1. /\ req[a].pc = "configs" /\ req[a].at = m /\ req[a].key = epoch[m]
              /\ req[a].found \in {"in", "out"}
              /\ f = IF exists THEN req[a].found ELSE "out"
              /\ req'[a].pc = "store"
          BY <2>4, <3>4 DEF QueryConfigs, cachevars, Answered
        <4>2. ~Misread(req[a].found) /\ Wrong(f)
          BY <2>1, <2>4, <3>1, <4>1 DEF ReadInv, Answered
        <4>3. CASE exists
          BY <4>1, <4>2, <4>3 DEF Misread, Wrong, Delivered
        <4>4. CASE ~exists
          BY <4>1, <4>2, <4>4 DEF Misread, Wrong, Delivered
        <4>5. QED
          BY <4>3, <4>4
      <3>5. CASE req'[a] = req[a]
        <4>1. epoch'[m] = epoch[m]
          BY <2>4, <3>5, EpochSteps DEF KeysOld, Answered
        <4>2. QED
          BY <3>2, <3>5, <4>1
      (* What is answered from the cache was stored under the epoch.       *)
      <3>6. ASSUME NEW n \in Managers, StartRequest(a, n) PROVE FALSE
        <4>1. req'[a].at = n /\ n = m /\ UNCHANGED <<names, epoch>>
          BY <2>4, <3>6 DEF StartRequest, cachevars
        <4>2. CASE Cached(m) = {}
          BY <2>4, <3>6, <4>1, <4>2 DEF StartRequest, Answered
        <4>3. CASE Cached(m) # {}
          <5>1. \E e \in Cached(m) : req'[a].found = e.found
            BY <3>6, <4>1, <4>3 DEF StartRequest
          <5>2. Wrong(f)
            BY <2>1, <2>4, <3>6, <4>1, <4>3 DEF StartRequest
          <5>3. QED
            BY <2>4, <3>1, <5>1, <5>2 DEF NamesInv
        <4>4. QED
          BY <4>2, <4>3
      <3>7. CASE /\ Answered(a) /\ Answered(a)'
                 /\ \A x \in {"at", "key", "found"} : req'[a][x] = req[a][x]
        <4>1. req'[a].at = req[a].at /\ req'[a].key = req[a].key /\ req'[a].found = req[a].found
          BY <3>7
        <4>2. epoch'[m] = epoch[m]
          BY <2>4, <3>7, <4>1, EpochSteps DEF KeysOld, Answered
        <4>3. Wrong(f)
          BY <2>1, <2>4, <3>7 DEF Answered
        <4>4. QED
          BY <2>4, <3>1, <3>7, <4>1, <4>2, <4>3 DEF ReadInv
      <3>8. QED
        BY <2>4, <3>3, <3>4, <3>5, <3>6, <3>7, ReadSteps DEF Answered
    <2>5. QED
      BY <2>3, <2>4 DEF NamesInv, ReadInv
  <1>4. QED
    <2>1. CASE Next
      BY <2>1, <1>1, <1>2, <1>3
         DEF Next, Request, StartRequest, QueryMappings, QueryConfigs, QueryFails, StoreNames,
             GetCanaries, ListCanaries, ListFails, StoreCanaries, Write, ChangeMapping,
             DeleteConfig, CreateOnetime, ChangeCanary, Flush, Publish, PublishFails,
             Deliver, ReceiveError, LoseMessage, ExpireNames, ExpireList, Restart, dbvars
    <2>2. CASE UNCHANGED vars
      BY <2>2, <1>3 DEF vars, dbvars
    <2>3. QED
      BY <2>1, <2>2

LEMMA FreshInvariant == Spec => []FreshInv
  <1>1. Init => FreshInv
    <2> SUFFICES ASSUME Init PROVE FreshInv
      OBVIOUS
    <2>1. Typed
      BY TypedInit
    <2>2. QED
      BY <2>1 DEF Init, FreshInv, KeysOld, NamesInv, ReadInv, Cached, Idle, Answered
  <1>2. FreshInv /\ [Next]_vars => FreshInv'
    BY TypedStep, KeysOldStep, FreshStep DEF FreshInv
  <1>3. QED
    BY <1>1, <1>2, PTL DEF Spec

(* What FreshInv says of the answers on their way.                         *)
LEMMA AnswersKnown ==
  ASSUME FreshInv, NEW a \in Agents, Resolved(a), Wrong(req[a].found)
  PROVE Overtaken(a) \/ Behind(req[a].at)
  <1>1. req[a].at \in Managers /\ req[a].found \in {"in", "out"} /\ Answered(a)
    BY DEF FreshInv, Typed, Resolved, Answered
  <1>2. QED
    BY <1>1 DEF FreshInv, ReadInv, Overtaken

(* What was withdrawn from an agent -- by a mapping, a tag, a selector or a*)
(* deletion -- is not served from the cache once every flush has arrived,  *)
(* whichever requests overlapped the write: they store the old names under *)
(* the old epoch.  And a request still delivers it only if it was overtaken*)
(* by a flush.                                                             *)
THEOREM WithdrawnAlwaysFlushed == Spec => []WithdrawnIsFlushed
  <1>1. FreshInv => WithdrawnIsFlushed
    BY AnswersKnown DEF FreshInv, NamesInv, Wrong, WithdrawnIsFlushed, Delivered
  <1>2. QED
    BY <1>1, FreshInvariant, PTL

(* For onetime commands, whose creation flushes too, the names are exactly *)
(* what the database delivers, in the cache as in the answers.             *)
THEOREM OnetimeNamesFresh == Spec => [](Onetime => NamesFresh)
  <1>1. FreshInv => (Onetime => NamesFresh)
    BY AnswersKnown DEF FreshInv, NamesInv, Wrong, NamesFresh
  <1>2. QED
    BY <1>1, FreshInvariant, PTL
=============================================================================
