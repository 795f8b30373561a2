---------------------------- MODULE ConfigCache ----------------------------
(***************************************************************************)
(* The three-tier configuration cache of internal/cache/manager.go, for    *)
(* one cache key: the database row (L3, the source of truth), the Redis    *)
(* entry (L2, shared by all processes) and one freecache entry per process *)
(* (L1).  Keys do not interact, so one key is the whole story.             *)
(*                                                                         *)
(* Readers run Get{Pipeline,Instance}Config and GetOnetimeCommand, writers *)
(* the Create/Update/Delete wrappers followed by invalidate, sweepers the  *)
(* body of reconcileCache.  Every call to L1, to Redis and to the database *)
(* is a step of its own: nothing in the code makes two of them atomic.     *)
(* singleflight hands one pointer to everyone who joined a call, so a      *)
(* handler that edits its configuration before it writes it edits what     *)
(* the others are about to marshal into the tiers.                         *)
(***************************************************************************)
EXTENDS Integers, FiniteSets

CONSTANTS
  Managers,   (* processes, each with a cache.Manager                      *)
  Readers,    (* goroutines that may be inside a Get at the same time      *)
  Writers,    (* goroutines that may be inside a write at the same time    *)
  Sweepers,   (* goroutines that may be inside reconcileCache              *)
  HasRedis,   (* FALSE is the all-in-one mode: rdb = nil                   *)
  Ticks,      (* how far time.Now().UnixMilli() may move between writes    *)
  MaxClock,   (* bound on the version stamps                               *)
  MaxWrites,  (* bound on the contents composed and the deletions          *)
  MaxFaults,  (* bound on crashes, lost connections and failed Redis calls *)
  Absent,     (* no row, or no entry                                       *)
  Nowhere,    (* the process of an idle goroutine                          *)
  L2          (* the name of the shared tier                               *)

ASSUME TypeAssumption ==
  /\ HasRedis \in BOOLEAN
  /\ Ticks \subseteq Nat
  /\ MaxClock \in Nat /\ MaxWrites \in Nat /\ MaxFaults \in Nat

ASSUME NameAssumption ==
  /\ L2 \notin Managers
  /\ Nowhere \notin Managers
  /\ Absent \notin [ver : Nat, rev : Nat]
  /\ Readers \cap Writers = {}
  /\ Readers \cap Sweepers = {}
  /\ Writers \cap Sweepers = {}

(* Without Redis there is a single process (cmd/allinone).                 *)
ASSUME AllInOneAssumption ==
  ~HasRedis => /\ \A m, n \in Managers : m = n
               /\ Sweepers = {}

(* Operators named X_Fault are faulty variants of the operator X below     *)
(* them: no action uses them, they show that the properties can fail.      *)

VARIABLES
  db,       (* the row in the database                                     *)
  writes,   (* edits and deletions so far: the identity of a content       *)
  clock,    (* the wall clock in milliseconds, where versions come from    *)
  l1,       (* the entry each process has in memory                        *)
  l2,       (* the entry in Redis                                          *)
  flight,   (* the singleflight call of each process                       *)
  proc,     (* the goroutines                                              *)
  object,   (* what the configuration object each of them holds says now   *)
  inbox,    (* invalidation messages on the way to each process            *)
  link,     (* the subscription connection of each process                 *)
  faults,   (* failures so far                                             *)
  late,     (* history: tiers filled with what the database has no longer, *)
            (* or does not have yet                                        *)
  lost      (* history: tiers whose invalidation a failure swallowed       *)

history == <<late, lost>>
vars == <<db, writes, clock, l1, l2, flight, proc, object, inbox, link,
          faults, late, lost>>

(* A row: the Version the admin handler stamped on it, and which edit made *)
(* its Detail.  A onetime command without a version has the one derived    *)
(* from its creation (onetimeCacheVersion).                                *)
Row == [ver : Nat, rev : Nat]
Entry == Row \cup {Absent}

Goroutines == Readers \cup Writers \cup Sweepers
Tiers == Managers \cup {L2}

PC == {"idle",
       "askL2", "askDB", "wait", "copyL1", "fillL1", "fillL2",     \* a Get
       "edit", "stamp", "update",       \* an update of what a Get returned
       "write",                         \* a write of an object of one's own
       "compare",                       \* a reconciliation
       "dropL1", "dropL2", "publish"}   \* invalidate

(* A goroutine: where it is, the bytes or the listed row it has a private  *)
(* copy of, and the goroutines that got their object from the same call.   *)
Proc == [pc : PC, at : Managers \cup {Nowhere}, raw : Entry, mates : SUBSET Goroutines]
Idle == [pc |-> "idle", at |-> Nowhere, raw |-> Absent, mates |-> {}]
NoFlight == [st |-> "none", row |-> Absent]

(***************************************************************************)
(* Staleness.  A tier is stale when it holds something else than the       *)
(* database; its invalidation is pending while some invalidate call still  *)
(* has to reach it, or a published message still has to.                   *)
(***************************************************************************)
Held(t) == IF t = L2 THEN l2 ELSE l1[t]
Stale(t) == Held(t) # Absent /\ Held(t) # db

Pending(t) ==
  \/ t # L2 /\ inbox[t] > 0
  \/ \E g \in Writers \cup Sweepers :
       \/ proc[g].pc = "dropL1" /\ (HasRedis \/ proc[g].at = t)
       \/ proc[g].pc = "dropL2"
       \/ proc[g].pc = "publish" /\ t # L2

-----------------------------------------------------------------------------
Init ==
  /\ db \in {Absent, [ver |-> 1, rev |-> 0]}
  /\ writes = 0
  /\ clock = 1
  /\ l1 = [m \in Managers |-> Absent]
  /\ l2 = Absent
  /\ flight = [m \in Managers |-> NoFlight]
  /\ proc = [g \in Goroutines |-> Idle]
  /\ object = [g \in Goroutines |-> Absent]
  /\ inbox = [m \in Managers |-> 0]
  /\ link = [m \in Managers |-> "up"]
  /\ faults = 0
  /\ late = {}
  /\ lost = {}

Goto(g, pc) == proc' = [proc EXCEPT ![g].pc = pc]
Finish(g) ==
  /\ proc' = [proc EXCEPT ![g] = Idle]
  /\ object' = [object EXCEPT ![g] = Absent]

CanFail == faults < MaxFaults
Fail == CanFail /\ faults' = faults + 1

(* l1.Set: a fill with something else than the database has, while no      *)
(* invalidation is on its way, comes too late, or too early.               *)
SetL1(m, row) ==
  /\ l1' = [l1 EXCEPT ![m] = row]
  /\ late' = IF row # db /\ ~Pending(m) THEN late \cup {m} ELSE late \ {m}
  /\ lost' = lost \ {m}

DelL1(m) ==
  /\ l1' = [l1 EXCEPT ![m] = Absent]
  /\ late' = late \ {m}
  /\ lost' = lost \ {m}

DelL2 ==
  /\ l2' = Absent
  /\ late' = late \ {L2}
  /\ lost' = lost \ {L2}

-----------------------------------------------------------------------------
(***************************************************************************)
(* A Get, by a reader or by a writer that looks for what it will edit.  An *)
(* L1 hit returns a copy at once and changes nothing.                      *)
(***************************************************************************)
MissL1(r, m) ==
  /\ proc[r] = Idle
  /\ l1[m] = Absent
  /\ proc' = [proc EXCEPT ![r].pc = IF HasRedis THEN "askL2" ELSE "askDB", ![r].at = m]
  /\ UNCHANGED <<db, writes, clock, l1, l2, flight, object, inbox, link, faults, history>>

HitL2(r) ==
  /\ proc[r].pc = "askL2"
  /\ l2 # Absent
  /\ proc' = [proc EXCEPT ![r].pc = "copyL1", ![r].raw = l2]
  /\ UNCHANGED <<db, writes, clock, l1, l2, flight, object, inbox, link, faults, history>>

MissL2(r) ==
  /\ proc[r].pc = "askL2"
  /\ \/ l2 = Absent /\ UNCHANGED faults
     \/ l2 # Absent /\ Fail                 \* GET failed: treated as a miss
  /\ Goto(r, "askDB")
  /\ UNCHANGED <<db, writes, clock, l1, l2, flight, object, inbox, link, history>>

(* The raw L2 value is stored in L1 and a copy returned.                   *)
CopyToL1(r) ==
  /\ proc[r].pc = "copyL1"
  /\ SetL1(proc[r].at, proc[r].raw)
  /\ Finish(r)
  /\ UNCHANGED <<db, writes, clock, l2, flight, inbox, link, faults>>

(* sf.Do: join the call in flight for this key, or start it.               *)
JoinFlight(r) ==
  LET m == proc[r].at IN
  /\ proc[r].pc = "askDB"
  /\ Goto(r, "wait")
  /\ flight' = IF flight[m].st = "none"
                 THEN [flight EXCEPT ![m].st = "query"] ELSE flight
  /\ UNCHANGED <<db, writes, clock, l1, l2, object, inbox, link, faults, history>>

QueryDB(m) ==
  /\ flight[m].st = "query"
  /\ flight' = [flight EXCEPT ![m] = [st |-> "got", row |-> db]]
  /\ UNCHANGED <<db, writes, clock, l1, l2, proc, object, inbox, link, faults, history>>

(* A database error goes to everyone who joined.                           *)
Waiting(m) == {g \in Goroutines : proc[g].pc = "wait" /\ proc[g].at = m}
QueryFails(m) ==
  /\ flight[m].st = "query"
  /\ Fail
  /\ flight' = [flight EXCEPT ![m] = NoFlight]
  /\ proc' = [g \in Goroutines |-> IF g \in Waiting(m) THEN Idle ELSE proc[g]]
  /\ UNCHANGED <<db, writes, clock, l1, l2, object, inbox, link, history>>

(* The call returns to everyone who joined it: ErrRecordNotFound, or one   *)
(* pointer to the row, which each of them goes on to backfill.             *)
Landed_ErrorIgnored(g, row, mates) ==
  [proc[g] EXCEPT !.pc = "fillL1", !.mates = mates]
Landed(g, row, mates) ==
  IF row = Absent THEN Idle ELSE [proc[g] EXCEPT !.pc = "fillL1", !.mates = mates]

LandFlight(m) ==
  /\ flight[m].st = "got"
  /\ flight' = [flight EXCEPT ![m] = NoFlight]
  /\ proc' = [g \in Goroutines |->
       IF g \in Waiting(m) THEN Landed(g, flight[m].row, Waiting(m)) ELSE proc[g]]
  /\ object' = [g \in Goroutines |->
       IF g \in Waiting(m) THEN flight[m].row ELSE object[g]]
  /\ UNCHANGED <<db, writes, clock, l1, l2, inbox, link, faults, history>>

(* Those that still hold the object g holds: calls of one process overlap, *)
(* so nobody waits for a second one while another holds the first.         *)
Sharers(g) == {h \in proc[g].mates : proc[h].mates = proc[g].mates}

(* json.Marshal reads Version and then Detail, as does the map an UPDATE   *)
(* is made of.  While others hold the object that may be well before the   *)
(* bytes are used, and Detail well after Version (a second reading).       *)
Marshal(g) ==
  /\ proc[g].pc \in {"fillL1", "update"}
  /\ (Sharers(g) \cap Writers) \ {g} # {}
  /\ proc' = [proc EXCEPT ![g].raw =
       [ver |-> IF @ = Absent THEN object[g].ver ELSE @.ver, rev |-> object[g].rev]]
  /\ UNCHANGED <<db, writes, clock, l1, l2, flight, object, inbox, link, faults, history>>

Marshalled(g) == IF proc[g].raw = Absent THEN object[g] ELSE proc[g].raw

(* What comes after the backfill: a read returns, a writer goes on.        *)
Filled(g) ==
  IF g \in Readers THEN Finish(g)
  ELSE /\ proc' = [proc EXCEPT ![g].pc = "edit", ![g].raw = Absent]
       /\ UNCHANGED object

(* backfill, first half: L1 is set whatever the script answers later.      *)
BackfillL1(r) ==
  /\ proc[r].pc = "fillL1"
  /\ SetL1(proc[r].at, Marshalled(r))
  /\ IF HasRedis
       THEN /\ proc' = [proc EXCEPT ![r].pc = "fillL2", ![r].raw = Marshalled(r)]
            /\ UNCHANGED object
       ELSE Filled(r)
  /\ UNCHANGED <<db, writes, clock, l2, flight, inbox, link, faults>>

(* backfillScript's test: a positive version, and either nothing in Redis  *)
(* or something strictly older.                                            *)
ScriptAccepts_Always(row) == row.ver > 0
ScriptAccepts(row) ==
  /\ row.ver > 0
  /\ l2 # Absent => l2.ver < row.ver

BackfillL2(r) ==
  LET row == proc[r].raw IN
  /\ proc[r].pc = "fillL2"
  /\ IF ScriptAccepts(row)
       THEN /\ l2' = row
            /\ late' = IF row # db /\ ~Pending(L2) THEN late \cup {L2} ELSE late \ {L2}
            /\ lost' = lost \ {L2}
       ELSE UNCHANGED <<l2, history>>
  /\ Filled(r)
  /\ UNCHANGED <<db, writes, clock, l1, flight, inbox, link, faults>>

(* The script failed: a warning is logged and the read succeeds.           *)
BackfillL2Fails(r) ==
  /\ proc[r].pc = "fillL2"
  /\ Fail
  /\ Filled(r)
  /\ UNCHANGED <<db, writes, clock, l1, l2, flight, inbox, link, history>>

Read(r) ==
  \/ \E m \in Managers : MissL1(r, m)
  \/ HitL2(r) \/ MissL2(r) \/ CopyToL1(r) \/ JoinFlight(r)
  \/ Marshal(r) \/ BackfillL1(r) \/ BackfillL2(r) \/ BackfillL2Fails(r)

-----------------------------------------------------------------------------
(***************************************************************************)
(* A write.  The handler sets Detail and then Version on the object it has *)
(* from its Get, for everyone who holds it, and nothing is written yet.    *)
(***************************************************************************)
EditDetail(w) ==
  /\ proc[w].pc = "edit"
  /\ writes < MaxWrites
  /\ writes' = writes + 1
  /\ object' = [g \in Goroutines |->
       IF g \in Sharers(w) THEN [object[g] EXCEPT !.rev = writes + 1] ELSE object[g]]
  /\ Goto(w, "stamp")
  /\ UNCHANGED <<db, clock, l1, l2, flight, inbox, link, faults, history>>

EditVersion(w) ==
  /\ proc[w].pc = "stamp"
  /\ \E t \in Ticks :
       /\ clock + t <= MaxClock
       /\ clock' = clock + t
       /\ object' = [g \in Goroutines |->
            IF g \in Sharers(w) THEN [object[g] EXCEPT !.ver = clock + t] ELSE object[g]]
  /\ Goto(w, "update")
  /\ UNCHANGED <<db, writes, l1, l2, flight, inbox, link, faults, history>>

(* The Detail is the one there is, or invalid, or only wanted for history. *)
LeaveUnchanged(w) ==
  /\ proc[w].pc = "edit"
  /\ Finish(w)
  /\ UNCHANGED <<db, writes, clock, l1, l2, flight, inbox, link, faults, history>>

(* An object of one's own, a new one or the copy an L1 or L2 hit returns:  *)
(* what happens to it before it is written shows to nobody.                *)
Stamp(w, m) ==
  /\ proc[w] = Idle
  /\ writes < MaxWrites
  /\ writes' = writes + 1
  /\ \E t \in Ticks :
       /\ clock + t <= MaxClock
       /\ clock' = clock + t
       /\ object' = [object EXCEPT ![w] = [ver |-> clock + t, rev |-> writes + 1]]
  /\ proc' = [proc EXCEPT ![w] =
       [pc |-> "write", at |-> m, raw |-> Absent, mates |-> {w}]]
  /\ UNCHANGED <<db, l1, l2, flight, inbox, link, faults, history>>

(* What the wrappers do next; they call invalidate unless they failed.     *)
StartInvalidate_RedisForgotten(g, m) ==
  /\ proc' = [proc EXCEPT ![g] = [Idle EXCEPT !.pc = "publish", !.at = m]]
  /\ object' = [object EXCEPT ![g] = Absent]
StartInvalidate(g, m) ==
  /\ proc' = [proc EXCEPT ![g] = [Idle EXCEPT !.pc = "dropL1", !.at = m]]
  /\ object' = [object EXCEPT ![g] = Absent]

(* CREATE inserts a missing row; UPDATE ... WHERE name overwrites an       *)
(* existing one.                                                           *)
Writable(w) == proc[w].pc = "write" \/ (proc[w].pc = "update" /\ db # Absent)

CommitRow(w) ==
  /\ Writable(w)
  /\ db' = Marshalled(w)
  /\ StartInvalidate(w, proc[w].at)
  /\ UNCHANGED <<writes, clock, l1, l2, flight, inbox, link, faults, history>>

(* CREATE of an existing name: the primary key refuses it, the wrapper     *)
(* returns before it invalidates.                                          *)
CreateRefused(w) ==
  /\ proc[w].pc = "write"
  /\ db # Absent
  /\ Finish(w)
  /\ UNCHANGED <<db, writes, clock, l1, l2, flight, inbox, link, faults, history>>

(* UPDATE of a row that is gone affects no row and reports no error.       *)
UpdateNothing(w) ==
  /\ proc[w].pc \in {"write", "update"}
  /\ db = Absent
  /\ StartInvalidate(w, proc[w].at)
  /\ UNCHANGED <<db, writes, clock, l1, l2, flight, inbox, link, faults, history>>

DeleteRow(w, m) ==
  /\ proc[w] = Idle
  /\ writes < MaxWrites
  /\ writes' = writes + 1
  /\ db' = Absent
  /\ StartInvalidate(w, m)
  /\ UNCHANGED <<clock, l1, l2, flight, inbox, link, faults, history>>

(* The database reports an error and the wrapper returns at once.  Nothing *)
(* was written, or the answer to a committed statement was lost: then      *)
(* nobody invalidates what the tiers hold.                                 *)
WriteFails(w) ==
  /\ proc[w].pc \in {"write", "update"}
  /\ Fail
  /\ Finish(w)
  /\ UNCHANGED <<db, writes, clock, l1, l2, flight, inbox, link, history>>

NobodyTold == lost' = lost \cup {t \in Tiers : Held(t) # Absent}

AnswerLost(w) ==
  /\ Writable(w)
  /\ Fail
  /\ db' = Marshalled(w)
  /\ NobodyTold
  /\ Finish(w)
  /\ UNCHANGED <<writes, clock, l1, l2, flight, inbox, link, late>>

DeleteFails(w) ==
  /\ proc[w] = Idle
  /\ writes < MaxWrites
  /\ writes' = writes + 1
  /\ Fail
  /\ \/ UNCHANGED <<db, lost>>
     \/ db' = Absent /\ NobodyTold
  /\ UNCHANGED <<clock, l1, l2, flight, proc, object, inbox, link, late>>

Write(w) ==
  \/ \E m \in Managers : Stamp(w, m) \/ DeleteRow(w, m)
  \/ EditDetail(w) \/ EditVersion(w) \/ LeaveUnchanged(w)
  \/ CommitRow(w) \/ CreateRefused(w) \/ UpdateNothing(w)
  \/ WriteFails(w) \/ AnswerLost(w) \/ DeleteFails(w)

-----------------------------------------------------------------------------
(***************************************************************************)
(* invalidate: own L1, then Redis DEL, then PUBLISH to every subscriber,   *)
(* the publisher's own subscription included.                              *)
(***************************************************************************)
DropL1(g) ==
  /\ proc[g].pc = "dropL1"
  /\ DelL1(proc[g].at)
  /\ IF HasRedis THEN Goto(g, "dropL2") /\ UNCHANGED object ELSE Finish(g)
  /\ UNCHANGED <<db, writes, clock, l2, flight, inbox, link, faults>>

DropL2(g) ==
  /\ proc[g].pc = "dropL2"
  /\ DelL2
  /\ Goto(g, "publish")
  /\ UNCHANGED <<db, writes, clock, l1, flight, object, inbox, link, faults>>

(* DEL failed: the entry stays, at best with five minutes to live.         *)
DropL2Fails(g) ==
  /\ proc[g].pc = "dropL2"
  /\ Fail
  /\ lost' = IF l2 # Absent THEN lost \cup {L2} ELSE lost
  /\ Goto(g, "publish")
  /\ UNCHANGED <<db, writes, clock, l1, l2, flight, object, inbox, link, late>>

Publish(g) ==
  /\ proc[g].pc = "publish"
  /\ inbox' = [m \in Managers |-> IF link[m] = "up" THEN inbox[m] + 1 ELSE inbox[m]]
  /\ lost' = lost \cup {m \in Managers : link[m] # "up" /\ l1[m] # Absent}
  /\ Finish(g)
  /\ UNCHANGED <<db, writes, clock, l1, l2, flight, link, faults, late>>

PublishFails(g) ==
  /\ proc[g].pc = "publish"
  /\ Fail
  /\ lost' = lost \cup {m \in Managers : l1[m] # Absent}
  /\ Finish(g)
  /\ UNCHANGED <<db, writes, clock, l1, l2, flight, inbox, link, late>>

Invalidate(g) ==
  DropL1(g) \/ DropL2(g) \/ DropL2Fails(g) \/ Publish(g) \/ PublishFails(g)

-----------------------------------------------------------------------------
(***************************************************************************)
(* subscribeInvalidations.  A connection is "up", "broken" (ReceiveMessage *)
(* has not reported it yet) or "down" (reported, and not re-established).  *)
(***************************************************************************)
Deliver(m) ==
  /\ inbox[m] > 0
  /\ inbox' = [inbox EXCEPT ![m] = @ - 1]
  /\ DelL1(m)
  /\ UNCHANGED <<db, writes, clock, l2, flight, proc, object, link, faults>>

(* The connection breaks: what was on the way is gone.                     *)
Disconnect(m) ==
  /\ HasRedis
  /\ link[m] = "up"
  /\ Fail
  /\ link' = [link EXCEPT ![m] = "broken"]
  /\ inbox' = [inbox EXCEPT ![m] = 0]
  /\ lost' = IF inbox[m] > 0 /\ l1[m] # Absent THEN lost \cup {m} ELSE lost
  /\ UNCHANGED <<db, writes, clock, l1, l2, flight, proc, object, late>>

(* ReceiveMessage returns an error: l1.Clear.  The client library has then *)
(* tried to reconnect once, with or without success.                       *)
FlushOnError(m) ==
  /\ link[m] # "up"
  /\ \E outcome \in {"up", "down"} : link' = [link EXCEPT ![m] = outcome]
  /\ DelL1(m)
  /\ UNCHANGED <<db, writes, clock, l2, flight, proc, object, inbox, faults>>

(* After the backoff the next ReceiveMessage dials and subscribes again:   *)
(* that is no error, and nothing is flushed.                               *)
Resubscribe(m) ==
  /\ link[m] = "down"
  /\ link' = [link EXCEPT ![m] = "up"]
  /\ UNCHANGED <<db, writes, clock, l1, l2, flight, proc, object, inbox, faults, history>>

-----------------------------------------------------------------------------
(***************************************************************************)
(* reconcileCache: list the database, then compare.  The versions that it  *)
(* first gives to onetime commands without one are those a row already     *)
(* counts as having (see Row), and only the reconciler looks at them.      *)
(***************************************************************************)
ListDB(s, m) ==
  /\ proc[s] = Idle
  /\ proc' = [proc EXCEPT ![s] = [Idle EXCEPT !.pc = "compare", !.at = m, !.raw = db]]
  /\ UNCHANGED <<db, writes, clock, l1, l2, flight, object, inbox, link, faults, history>>

(* A listed config is compared by Version ...                              *)
Outdated(row) == row # Absent /\ row.ver # l2.ver

(* ... and a key under the prefix that was not listed is one that was      *)
(* deleted (cleanupDeletedConfigCacheKeys).                                *)
Mismatch_ListedOnly(row) == l2 # Absent /\ Outdated(row)
Mismatch(row) == l2 # Absent /\ (Outdated(row) \/ row = Absent)

Compare(s) ==
  /\ proc[s].pc = "compare"
  /\ IF Mismatch(proc[s].raw) THEN StartInvalidate(s, proc[s].at) ELSE Finish(s)
  /\ UNCHANGED <<db, writes, clock, l1, l2, flight, inbox, link, faults, history>>

(* GET failed, or the reconcile lock was lost and its context cancelled.   *)
CompareFails(s) ==
  /\ proc[s].pc = "compare"
  /\ Fail
  /\ Finish(s)
  /\ UNCHANGED <<db, writes, clock, l1, l2, flight, inbox, link, history>>

Sweep(s) == (\E m \in Managers : ListDB(s, m)) \/ Compare(s) \/ CompareFails(s)

-----------------------------------------------------------------------------
(***************************************************************************)
(* The environment: entries expire or are evicted, processes restart.      *)
(***************************************************************************)
ExpireL1(m) ==
  /\ l1[m] # Absent
  /\ DelL1(m)
  /\ UNCHANGED <<db, writes, clock, l2, flight, proc, object, inbox, link, faults>>

ExpireL2 ==
  /\ l2 # Absent
  /\ DelL2
  /\ UNCHANGED <<db, writes, clock, l1, flight, proc, object, inbox, link, faults>>

(* A restart loses the memory of the process and every call in it.  New    *)
(* subscribes before the server opens.  An invalidate cut short is lost    *)
(* for every tier it had not reached.                                      *)
Restart(m) ==
  LET cut == \E g \in Writers \cup Sweepers :
               proc[g].at = m /\ proc[g].pc \in {"dropL1", "dropL2", "publish"}
  IN
  /\ Fail
  /\ l1' = [l1 EXCEPT ![m] = Absent]
  /\ flight' = [flight EXCEPT ![m] = NoFlight]
  /\ proc' = [g \in Goroutines |-> IF proc[g].at = m THEN Idle ELSE proc[g]]
  /\ object' = [g \in Goroutines |-> IF proc[g].at = m THEN Absent ELSE object[g]]
  /\ inbox' = [inbox EXCEPT ![m] = 0]
  /\ link' = [link EXCEPT ![m] = "up"]
  /\ late' = late \ {m}
  /\ lost' = IF cut
               THEN {n \in Managers \ {m} : l1[n] # Absent}
                    \cup {t \in {L2} : l2 # Absent} \cup (lost \ {m})
               ELSE lost \ {m}
  /\ UNCHANGED <<db, writes, clock, l2>>

-----------------------------------------------------------------------------
Subscriber(m) == Deliver(m) \/ Disconnect(m) \/ FlushOnError(m) \/ Resubscribe(m)

Next ==
  \/ \E g \in Readers \cup Writers : Read(g)
  \/ \E w \in Writers : Write(w) \/ Invalidate(w)
  \/ \E s \in Sweepers : Sweep(s) \/ Invalidate(s)
  \/ \E m \in Managers : QueryDB(m) \/ QueryFails(m) \/ LandFlight(m)
  \/ \E m \in Managers : Subscriber(m)
  \/ \E m \in Managers : ExpireL1(m) \/ Restart(m)
  \/ ExpireL2

Spec == Init /\ [][Next]_vars

(***************************************************************************)
(* Fairness: a goroutine that has started runs on, the reconciler's ticker *)
(* fires again and again, an L1 entry expires (300 s), a broken connection *)
(* is noticed.  Nobody has to read or to write, nothing has to fail, and   *)
(* the 30 day expiry of L2 is not counted on.                              *)
(***************************************************************************)
Fairness ==
  /\ \A r \in Readers \cup Writers :
       WF_vars(HitL2(r) \/ MissL2(r) \/ CopyToL1(r)
               \/ JoinFlight(r) \/ BackfillL1(r) \/ BackfillL2(r))
  /\ \A w \in Writers :
       WF_vars(EditDetail(w) \/ EditVersion(w) \/ LeaveUnchanged(w)
               \/ CommitRow(w) \/ CreateRefused(w) \/ UpdateNothing(w) \/ Invalidate(w))
  /\ \A s \in Sweepers : WF_vars(Sweep(s) \/ Invalidate(s))
  /\ \A m \in Managers :
       /\ WF_vars(QueryDB(m) \/ LandFlight(m))
       /\ WF_vars(Deliver(m))
       /\ WF_vars(FlushOnError(m))
       /\ WF_vars(ExpireL1(m))

FairSpec == Spec /\ Fairness

-----------------------------------------------------------------------------
(* Types, and which goroutine may be where.                                *)
TypeOK ==
  /\ db \in Entry
  /\ writes \in Nat /\ clock \in Nat /\ faults \in Nat
  /\ l1 \in [Managers -> Entry]
  /\ l2 \in Entry
  /\ flight \in [Managers -> [st : {"none", "query", "got"}, row : Entry]]
  /\ proc \in [Goroutines -> Proc]
  /\ object \in [Goroutines -> Entry]
  /\ inbox \in [Managers -> Nat]
  /\ link \in [Managers -> {"up", "broken", "down"}]
  /\ late \subseteq Tiers /\ lost \subseteq Tiers
  /\ \A g \in Goroutines :
       /\ proc[g].pc = "idle" <=> proc[g].at = Nowhere
       /\ proc[g].pc \in {"copyL1", "fillL2"} => proc[g].raw # Absent
       /\ proc[g].pc \in {"fillL1", "fillL2", "edit", "stamp", "update", "write"}
            => object[g] # Absent
       /\ proc[g].mates # {} => object[g] # Absent

(* A tier that disagrees with the database is about to be invalidated,     *)
(* unless a read that overlapped the write filled it too late, or too      *)
(* early with what the handler had not written yet, or a crash or a failed *)
(* call swallowed the invalidation: there is no other way to become stale. *)
(* This is what the order "database, own L1, Redis, publish" of the write  *)
(* wrappers and of invalidate buys.                                        *)
StaleHasCause == \A t \in Tiers : Stale(t) => Pending(t) \/ t \in late \cup lost

(* Whatever readers of whatever age do, the entry in Redis is only ever    *)
(* replaced by a strictly newer version (backfillScript); going back takes *)
(* a deletion in between.                                                  *)
L2NeverRegresses == [][l2 # Absent /\ l2' # Absent /\ l2' # l2 => l2'.ver > l2.ver]_vars
=============================================================================
