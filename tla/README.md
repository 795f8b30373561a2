# ConfigServer: TLA+ models and proofs

This directory holds a TLA+ development of ConfigServer, the server that hands
collection pipelines, process-level ("instance") configurations and one-time
commands to log-collection agents (LoongCollector/iLogtail protocol v2) and
lets administrators edit, group and canary-release them. Every module is
translated from the Go code under `src/`; file and line references below are
to that tree, `PROJECT.json` gives them for each definition.

## 1. The system

One binary can run three ways: `cmd/allinone` (agent API, admin API and web UI
in one process, one `cache.Manager`, no Redis), or distributed as N
`cmd/configserver` processes and `cmd/admin` processes, each with its own
`cache.Manager`, sharing one SQL database and one Redis. Nothing else
coordinates the processes: the database is the truth, Redis is a cache, a
message bus, the agent registry, the session store and the home of two locks.

| Component | State it keeps | Operations | Talks to |
|---|---|---|---|
| configuration cache (`internal/cache/manager.go`) | L1 per process, L2 in Redis, singleflight calls | `Get*`, `Create*`, `Update*`, `Delete*`, `invalidate`, `backfill`, `subscribeInvalidations`, `reconcileCache` | Redis GET/DEL/PUBLISH, scripts; database |
| reconcile lock (same file) | one Redis key with a TTL, a token per holder | acquire, renew, release, the reconciling run | Redis SETNX and two scripts |
| resolve cache (same file) | epoch, resolved name sets, list of active canaries, per process | `GetConfigsForAgent`, `invalidateResolveCache`, `getActiveCanaries`, `hydrateAgentConfigSet` | database, Pub/Sub, configuration cache |
| agent registry (same file) | `agentsMap`, its LRU list, `statusesMap` per process; agent keys and status hashes in Redis | `UpsertAgent`, `evictOldestAgentLocked`, `evictStaleAgents`, `UpsertAgentConfigStatus`, reads | Redis; heartbeats |
| store (`internal/store/gormdb`) | the tables | group, mapping, configuration, canary, user, role, history and audit operations | the database |
| matching (`gormdb.GetConfigsForAgent`, `internal/model`) | none | tags, IP selectors, version constraints, canary bucket | - |
| canary releases (`internal/server/admin/handler.go`, `internal/model/canary.go`) | the `canary_releases` rows and the main configuration rows | create, update, set percent, pause, resume, promote, abort | store, history, audit |
| admin configuration API (`handler.go`) | history and audit rows | create, update, delete, rollback of configurations and groups | configuration cache, store |
| agent API (`internal/server/agent/handler.go`) | none of its own | heartbeat, fetch, status report | registry, resolve cache, configuration cache |
| authentication (`auth.go`, `otp.go`, `reset.go`, `email.go`) | sessions, pending OTP logins, reset tokens, users, roles | first-administrator setup, login, OTP, password reset, role checks | Redis or memory, store, SMTP |
| metrics (`internal/metrics/collector.go`) | one Redis lease | collect, push under a lease | Redis, HTTP |
| start-up and configuration (`cmd/*`, `internal/config`) | none | load YAML, wire components | - |
| wire format (`proto/`, `protocol/`) | none | generated code and schema | - |
| web UI (`webui/`) | browser state | pages that call the admin API | admin API |

### What is hard here

* **Concurrency without transactions.** Every cache and registry operation is
  a sequence of separate calls to process memory, Redis and the database.
  Handlers read a row, decide, and write it back (`gorm.Save`) with nothing
  that would notice a change in between.
* **Failure.** Processes die between the database write and the invalidation,
  Pub/Sub loses what was published while a subscriber was away, Redis calls
  fail and are only logged, a database answer may be lost after the commit.
* **Ordering.** Fills by slow readers land after invalidations; two versions
  can carry the same millisecond; a result computed under one cache epoch is
  stored after the next began.
* **Time.** TTLs and leases bound most staleness; locks expire under their
  holders; a heartbeat races with eviction.

### What makes each component correct

| Component | Properties |
|---|---|
| configuration cache | a tier differs from the database only for a known reason and not for ever; Redis does not go back to an older version |
| reconcile lock | one reconciliation at a time although holders pause, die and lose answers; nobody deletes the key of a live run; the lock does not stay taken |
| resolve cache | nothing withdrawn from an agent stays resolved; every request that waits for the canary list gets an answer; once writes stop everybody resolves what the database says |
| configuration, canary and history handlers | content, canary and history change in whole steps; pausing, aborting and promoting last; what was replaced can be restored |
| agent registry | bounded, its two maps and Redis agree, a live agent is not forgotten |
| agent API | an agent that keeps asking ends up with exactly the configurations assigned to it, at their current content |
| matching, canary eligibility | selectors and constraints mean the sets they describe; raising the percentage only adds agents |
| groups, users, roles | one change does not undo another; a rollback restores the whole group |
| authentication | a token, code or session is good once, or until it expires or is revoked, in every process |
| metrics lease | one replica pushes per interval |

## 2. The modules

```
ReleaseLifecycle  <-- refined by --  ConfigRelease  <-- ConfigReleaseProofs
CachedRegister    <-- refined by --  ConfigCopies   <-- ConfigCacheProofs, MC_ConfigCache
                                          |
                                     ConfigCache
                                     ResolveCache   <-- ResolveCacheProofs
                                     ReconcileLock  <-- ReconcileLockProofs
                                     AgentDelivery  <-- AgentDeliveryProofs
                                     AgentRegistry  <-- AgentRegistryProofs
                                     Targeting      <-- TargetingProofs
                                     GroupAdmin, Accounts  <-- MC_Administration  <-- AdministrationProofs
```

(`<--` without a label, and `|` downwards, is EXTENDS. `MC_*` extend a module for TLC.)

The modules meet at interfaces that each states as a constant, a guard or a
history variable. `ConfigRelease` and `GroupAdmin` read through the cache of
`ConfigCache`: `StaleReads` lets a read return any earlier content. `CachedRegister` says what else
a tier can have, and `CacheImplementsRegister` proves it of the cache: the content of an edit that was
shown before it was written. The modules above `ConfigCache` leave these out; what they prove is about contents
the database has had. `ConfigCache` runs `Sweep`, the
body of `reconcileCache`, whenever its `Sweepers` may; `ReconcileLock` shows
that in the distributed mode there is one at a time. `ResolveCache` knows which
configurations reach an agent and whether the canary overlays them,
`ConfigCache` which content they then have. `AgentDelivery` abstracts both to
`view[p]`, whose parts are the database of earlier times and are refreshed when
a request reads them. `Targeting` says which agents a mapping and a canary reach, which
`ResolveCache` and `AgentDelivery` take as given; `GroupAdmin` makes the structural
writes that `ResolveCache` flushes for. `AgentRegistry` stores what the requests of
`AgentDelivery` report; the delivery does not read it.

### ConfigCache - one cache key in three tiers

Source: `internal/cache/manager.go` 217-713, 719-756, 1038-1111. One key, because keys do not
interact. `db` is the row, `l2` the Redis entry, `l1[m]` the entry in the memory of
process m, `flight[m]` its singleflight call, `inbox[m]` and `link[m]` its
subscription, `proc[g]` a goroutine in the middle of a `Get`, of a write
with its `invalidate`, or of `reconcileCache`. Every call to L1, Redis or the
database is a step of its own. An entry is a version (the millisecond of the
write) and a revision (the identity of its content), which coincide except
for two writes in one millisecond. `late` and `lost` are history: the tiers
that a read filled after the write's invalidation or before the write, and those a failure kept
the invalidation from. Failures: crash and restart, lost connection, failed
DEL, PUBLISH, GET, script, query and statement, a commit whose answer is lost.

`sf.Do` returns one pointer to everyone who joined the call. `object[g]` is what the object
goroutine g holds says now, `proc[g].mates` who got it with g, `Sharers(g)` who still has it.
A handler sets `Detail` and `Version` on it (`EditDetail`, `EditVersion`) before it calls `Update*`,
and for all sharers; `proc[g].raw` are the bytes one of them has made of it, which may be older than
the object is by the time they are used, or half edited (`Marshal` before `EditVersion`, or twice). A handler that got a copy
from an L1 or L2 hit, or makes a new object, edits for itself alone (`Stamp`). Three steps are coarser than the
code: reading the clock and storing it are one (`EditVersion`); the version that `backfill` gets as an argument is the one in
the bytes; and a slice is copied whole, where the unsynchronised assignment of `cfg.Detail` could be
seen half (pointer of one, length of the other), a data race that has no defined outcome.

### ConfigCopies and CachedRegister - what a reader may rely on

`ConfigCopies` is `ConfigCache` with two more history variables, `past`, the rows the
database has had, and `drafts`, what an edited object said while somebody else held it; no action reads them, so
its behaviours are those of `ConfigCache`. `CachedRegister` is the abstract specification: the database is a
register, a tier that answers holds a row the register has had, or one with the content of a draft (under the
draft's version or an earlier one: `Torn`), and a row in Redis is replaced by a newer version
only, or deleted. It leaves open when a tier is filled or invalidated, by whom, and how
long it may stay behind: these are `StaleHasCause` and `Converges`. `SweepRepairs` is about the
step in which the reconciler compares its listing with Redis: if the row it has listed is still the
one in the database and Redis has another, it goes on to invalidate. This needs versions that tell contents
apart, hence distinct milliseconds and no drafts: bytes with a new `Detail` under the old `Version` are, to the
reconciler and to the script of `backfill`, the row of that version. Where this has happened, `Converges` promises no more than a content
under the right version (`Lookalike`).

### ReconcileLock - who reconciles

Source: `manager.go` 263-278, 379-457. `lock` is the Redis key with its
remaining life, `runs[r]` the run of replica r (its token, the renewer's
timer), `delayed` the release scripts Redis will execute although their caller
gave up. Time passes in `Tick`; a live renewer is at most `MaxPause` late.
The one timing assumption is `Interval + MaxPause < TTL`: with the code's TTL
and its third as interval, a process may be paused for almost two thirds of the
TTL. Without it OneScanner is false, and no lock with a lease can do better.

### ResolveCache - which configurations an agent gets

Source: `manager.go` 767-979, 983-1111, 1693-1723 and `gormdb.go` 423-571. One agent, one
configuration and its canary: a result is `in` or `out`, the cached list of
rolling canaries `on` or `off`. `names[m]` are the cached results with the epoch
in their key, `epoch[m]` the current epoch; `req[a]` is a request between the
store's separate queries for mappings and configurations, the `Set` of the
result and the wait for the canary list; `op[w]` a write between its commit,
its own flush and the publication. A request has been overtaken when the epoch in its key is no longer its
process's. `Onetime` chooses between a onetime command
and a pipeline or instance configuration: only the creation of the former
flushes.

### ConfigRelease and ReleaseLifecycle - administrators at work

Source: `internal/server/admin/handler.go` 251-512, 1377-1391, 1517-1585,
1858-2331 and `gormdb.go` 256-290, 779-806. `ReleaseLifecycle` is the abstract
specification: the content, the canary and the set of contents one can roll back to,
changed by Create, Replace, Start, Adjust and Finish. `ConfigRelease` has the
handlers: a request of administrator a is `op[a]`, which
holds what the handler has read and what it is about to write; reading, writing the
configuration, `saveHistory` and writing the canary are separate steps,
between which others act, calls fail and processes die. The percentage stands
for everything in the payload besides the content. The refinement maps the
abstract `log` to `Log`: what is in the history, about to be put there, or was
dropped by a failing `saveHistory` (the code logs that failure and goes on, so
the abstract specification cannot promise more). `outdated` remembers that some
write went over a content or canary that differs from what the request had
read.

### AgentDelivery - what an agent ends up with

Source: `internal/server/agent/handler.go` 57-356, 476-515, `manager.go` 859-979 and,
for the agent, `protocol/v2/README.md`. One agent, because the server treats
every request on its own. `row`, `assigned`, `canary` and `covered` are the
database as far as it concerns the agent, `view[p]` the caches of process p,
`link` the request or answer under way, `held` what the agent has. A
configuration or command is a version (for a command its generation, `CreatedAt`)
and a content that is its length. Lengths matter because answers longer than
`MaxInline` only announce versions, which the agent then asks for with
`FetchConfig`. The protocol is ambiguous about which version that request
carries: its README says both that it is built from the announcement (line 259)
and that it describes what the agent holds (lines 162-163). `AsksFor` chooses; the runs
use "held", because with "announced" the server finds the versions equal and
sends nothing, so that no long configuration ever arrives. `Hash` is what server and agent
compare of a command: content and generation, or the content alone when it is no JSON object
(`Plain`; a command without a creation time counts as one, too), because
`onetimeDetailWithGeneration` finds no place for the generation in it. `held` keeps the generation for
the properties even then, the agent does not see it. `overdue` are the
generations past their `expire_time`, in whatever unit (the code compares
seconds, README.md:516 documents milliseconds). `steady` is history: what was
assigned and stored in every cache from the start on.

### AgentRegistry - who is there

Source: `manager.go` 217-252 and 1113-1579, `agent/handler.go` 57-83 and 358-419,
`internal/metrics/collector.go` 70-302. `seen[p]`, `lru[p]` and `noted[p]` are
the agents, the LRU list and the statuses in the memory of process p (the list is a function
that gives for each agent the agents from it to the back, so that "moved to the front", "pushed
out" and "in order" are about sets), `listed` and
`hash` the agents' keys and status hashes in Redis; an entry is the age of its heartbeat
in ticks. `req[a]` is a heartbeat or status report on its way through memory
and Redis, `sweep[p]` the run of `evictStaleAgents` between its loops. `mode` is without
Redis, with Redis, or with a Redis that has HEXPIRE. Eviction by size leaves the statuses
of the evicted agent behind, as the code does, because it looks for them under a
prefix no key has; `orphans` remembers whose. The lists that administrators and
metrics see are operators on the state.

### Targeting - who gets what

Source: `internal/model/semver.go`, `ip_selector.go`, `canary.go`, `gormdb.go`
410-519, `manager.go` 1338-1361 and `handler.go` 2388-2417. Pure functions, on parsed values: a version is a
sequence of numbers that a word may end, a selector a set of addresses, ranges and
prefixes, an address a family and a number, a prefix an address of its network and its size, the
hash a constant. The state is
one agent, one group and one canary of a configuration that the group or the default group may map
(`mapped`), which are edited one field at a time, so that what
an edit does to what the agent `Gets` is an action property. The reference definitions
that the operators are compared with are of a different kind: versions as numbers in a
large base, selectors as sets of addresses, the agents page as what is served.

### GroupAdmin - groups and onetime commands

Source: `handler.go` 525-1002 and 1377-1391, 1517-1750, `gormdb.go` 109-252 and 283-378. A request
`op[a]` is the list of the statements its handler has yet to execute (`todo`), with what it
has read (`image`, `detail`) and is to write (`new`); each statement is an
action of its own, because each is its own transaction. `group` is the row,
the tags and the mappings of one group, `command` the content of one onetime command,
`files` the other configurations there are. A history entry has, besides what
the table stores, the state before and after its request: `UndoRestores`
compares the rollback with them. `Abort` ends a request anywhere, `Skip` is an
error the code ignores. `forfeited` are contents of the command that were
deleted without being noted.

The handlers of onetime commands do not read the table: the existence check of a creation (931),
the snapshot of a deletion (982) and the branch of a rollback (1734) ask
`Manager.GetOnetimeCommand`, which answers from L1, from Redis or from a query under way. `Told` is
what such a read may answer, everything the command has been and its absence (`stored`); `Believing`
keeps in mind that a request was told something else than what the table has: it counts as one that was
interfered with (`clean`). How old an answer may be and why is `StaleHasCause` in `ConfigCache`; here
any earlier state will do. The contents of a command are never edited in place, so no draft
gets into the tiers under its key. Groups are read from the table.

### Accounts - users, roles, sessions, tokens

Source: `auth.go` 60-545, `otp.go` 74-336, `reset.go` 27-191, `email.go` 52-106,
`handler.go` 1070-1364, `gormdb.go` 629-723. The same technique with `call[c]` for one account, which is either the
built-in administrator or a user that administrators manage. `sessions`, `pending` and `resets`
are the three stores of tokens, shared in Redis or in the memory of the only process.
Tokens and TOTP secrets are numbers never drawn before; a code is named by
the secret it was made from, and 0 is the code of the empty secret, which `OTPLoginStep` accepts when
the account has stopped asking for codes while a login waited for its second step: it compares with
`user.TOTPSecret` (otp.go:323) and does not look at `TOTPEnabled`. `Expire` is the TTL of a token, or the restart of the
process that keeps it in memory.

## 3. What the runs check

| Run | Instance | Shows |
|---|---|---|
| config | 2 processes with Redis, an existing row; either 2 readers (one stays at one process), 1 writer, 2 writes, or 1 reader, 1 writer, the reconciler (at one process), 1 write, 1 failure, or 1 reader and 1 writer that gets what it edits from the same call at one process, 1 write, and the reconciler and 1 failure once the edit was shown | `TypeOK`, `StaleHasCause`, `ImplementsRegister`, `Converges` |
| lock | 2 replicas, 4 tokens, TTL 4, interval 1, pause 2, 2 failures | `TypeOK`, `OneScanner`, `LockKept`, `ScansGoOn` |
| resolve_onetime | 2 processes, 1 request, 2 writers, 2 writes | `NamesFresh` for onetime commands |
| resolve_live | 2 processes, 1 write; either 2 requests at one process, or 1 request and 1 failure, from a mapped configuration under a canary | `TypeOK`, `WithdrawnIsFlushed`, `CanaryListHasCause`, `Settles` |
| release_serial | 1 administrator, 2 contents, 2 percentages, 2 failures | `TypeOK`, `Refines` |
| release_overlap | 2 administrators, stale reads, 1 failure | `StopHoldsUnlessOutdated`, `SerialUnlessOutdated`, `PromotedIsKept` |
| release_abort | 2 administrators, no failure | `AbortedStaysGone` of two comments fails |
| delivery | 2 processes, 1 failure; either 2 configurations, 2 lengths, 3 writes, from any stored and overlaid configurations, or 1 command with a content that is a JSON object or not, 5 writes | `TypeOK`, `SameVersionSameContent`, `NoUnfoundedRemoval`, `RunsOnce`, `Delivered` |
| delivery_canary | 2 processes, 1 configuration, 3 writes, 1 failure | `CanaryArrives` fails |
| registry | 2 changes of the agents, 1 failure, stale after 2 ticks, Redis TTL 3; either 3 agents in one memory for 2, or 2 agents between 2 processes, or the statuses of 1 agent's 2 configurations | `TypeOK`, `OldestIsLast`, `StatusHasAgent`, `SeenIsListed`, `GoneIsForgotten` |
| targeting | 26 agents against 192 groups with two canaries and against 96 canaries with an empty group, rolling or paused, mapped by either group or not, octets of 4 values, 4 buckets, all single edits | `VersionsAreNumbers`, `SelectorsAreSets`, `StatsAreDelivery`, `ListedAreServed`, `SpreadsOnly` |
| administration | 2 administrators with 3 or 4 requests on a group or command, or 2 callers with 3 or 4 calls on an account with two passwords; 1 failure | `TypesOK`, `UndoRestores`, `CommandsRecoverable`, `TokensOnce`, `EnabledIsConfirmed`, `RolesExist`, `ChangesKept` |

A run that asks its questions of several situations has a *focus* in its MC module: an
initial choice, never changed afterwards, that says which actions are taken and which failures happen,
so that one instance covers situations whose product would be too large. `config`,
`resolve_live`, `delivery` and `registry` have two or three; `administration` has eight, five for
`GroupAdmin` (the row; tags and deletion; mappings and deletion; the command; and one administrator
at a time with one more request, so that something is created, deleted, changed and rolled
back) and three for `Accounts` (logins and resets; codes and changes by the user; roles).

Every property of a passing run fails when one definition of the model is
replaced by a faulty variant of it (`PROJECT.json`, "mutants"; the variants are
the operators named `X_Fault` next to `X`).

**Bounds.** The caches need two processes for anything about Pub/Sub and Redis,
one read overlapping one write for a late fill, two reads for an older fill
over a newer one, two writes for versions that differ, and a writer and a reader of one call for an edit that is shown; the runs have
these, and no property counts higher. Values are compared, never computed
with, so the third would behave as the second. One failure at a time is enough
to make each failing call matter; two in the lock and in `release_serial`, where a
retry may fail again. The registry needs one agent more than there is room for, and ticks enough to
tell online, stale and expired apart. In `targeting` every selector is seen with addresses at,
inside and outside its ends, every constraint with versions below, at and above its own. A rollback takes two
requests, something it restores over takes a third; an account, its token and two who present it take four.
Counters (`clock`, `epoch`, `writes`, `changes`, `requests`, `calls`, `drawn`,
`faults`, `failures`, `outages`) grow only through guarded actions whose bounds are constants
(`MaxClock`, `MaxWrites` and so on). Runs whose properties are invariants or action properties use
symmetry. Deadlock is not checked where the bounds make a model stop; in the
lock, which must not, it is. Writes are stamped in distinct milliseconds
in the runs (`Ticks = {1}`). `TypeOK`, `StaleHasCause` and `ImplementsRegister` do not depend on that, their
proofs assume nothing about `Ticks`; `SweepRepairs` does, and its theorem says so.

**Fairness.** A goroutine that has started runs on, because Go schedules it and its calls
to Redis and the database return, with an answer or an error; messages to a connected subscriber are
delivered, a broken connection is noticed, the reconciler's ticker fires again, and
freecache entries expire (300 s for configurations, less for resolved
names). Nobody is assumed to read or to write, no failure to happen, and the 30 day
expiry of Redis entries is not relied upon. In the lock weak fairness
is on time, on the replicas' tickers, on the end of a run, which is finite, and on its release.
In `AgentDelivery` the agent goes on sending heartbeats and the servers answering
them, and an outdated cache entry that is read infinitely often is refreshed
(strong fairness, because it is refreshed by a request that reads it after its
TTL); no administrator and no loss is assumed. In `AgentRegistry` a running agent sends heartbeats, requests and sweeps
are carried out, and time passes once they have been: a tick is minutes, they take
seconds.

**Where the code falls short of what is said about it.** Two runs show it; `PROJECT.json`
("findings") quotes the lines. `release_abort`: whoever read a canary before
its abort writes it back, and the release goes on. `delivery_canary`: a canary
too long for a heartbeat is announced, `FetchConfig` answers with the
stable content, and the agents never get it. The models contain more of the kind:

* A read that overlaps a write fills L1 after the invalidation and is served
  from there, and a read that shares its object with an update fills L1 and Redis with what is not written yet, and is never
  written when the update fails (`late` in `ConfigCache`, `drafts` in `ConfigCopies`), although README.md:386 promises no
  dirty reads.
* A half-edited object, new `Detail` under the old `Version`, passes the script of `backfill` and the
  comparison of the reconciler; if the update then fails, Redis keeps it until it expires or the next write (`Lookalike`).
* L1 is flushed when the connection to Redis breaks, not when it is back, so a
  message between the two is lost (`lost`); the comment at manager.go:730-733
  says otherwise.
* Creating a configuration that a group maps already flushes no resolved names
  (`ResolveCache`, `Onetime = FALSE`), contrary to the comment at manager.go:939.
* The content of the first of two overlapping updates is recorded in no history; a
  canary edited during its promotion is deleted with the edit; a list of canaries
  queried before an abort is cached after it.
* The generation of a command goes into its content only when that is a JSON object
  (agent/handler.go:481-489). A command written in YAML, as in README.md:505-525, that is deleted and created
  again with the same content has the same hash and is not sent to an agent that still has the
  first (`Unrecognised`, which `Delivered` excepts), although agent/handler.go:217-221 and 469-472 say that
  creating it again makes the agents run it again. 473-475 and onetime_generation_test.go:112-123 name the
  fallback, not this consequence.
* A command is cancelled when it is unassigned or when the caches of the process that
  answers do not know it yet, not only when it was deleted, as the comment at
  agent/handler.go:189-192 says.

`StaleHasCause`, `SerialUnlessOutdated`, `StopHoldsUnlessOutdated`,
`CanaryListHasCause` and `NoUnfoundedRemoval` say exactly when these can happen.

In the registry:

* The statuses of an agent that a full registry evicts stay (`orphans`):
  `evictOldestAgentLocked` deletes keys with the prefix `id + "\x00"` (manager.go:1184), the
  keys are joined with ":" (1117), and the comment at 1163 says they are deleted.
* Every process deletes the Redis entries of an agent it has not heard from, although it
  may be alive at another; its next heartbeat there brings it back (`SeenIsListed` is an "eventually").
* `needFullState` asks for a known agent whose stored sequence number is 0, but a restarted server knows no
  agent, and asks none for its full state (agent/handler.go:71-78).

In matching:

* A group with a version constraint alone is served to all agents of those versions
  (gormdb.go:480-491), although model.go:34 says the constraint limits the delivery.
* `agentMatchesGroup` lists all agents for a group that selects by address or version, and treats an
  empty tag value as a missing tag: `ListedAreServed` holds for groups with tags only.
* `GetCanaryStats` and `GetCanaryAgents` look neither at the status of the release nor at the groups that map the
  configuration (handler.go:2363-2417, 2478-2517): an agent of a paused release, or one that does not get the
  configuration at all, is counted as "canary", although handler.go:2333 announces "which hosts are receiving
  the canary version" (`CountedInVain`).
* The constraint "||" matches nothing and "," everything; a range may begin in
  one address family and end in the other.

In the administration:

* Rows are saved whole (`EditsKept`, `FieldsGuarded`, `overlapped`): of two overlapping changes one is lost, and a
  group or user that was deleted in between is inserted again.
* Rolling back a deletion brings the group back with its tags and mappings, but keeps tags that are
  there now when it had none, and mappings of configurations that do not exist, contrary to
  the comment at handler.go:1669. The deletion of a group that is not there succeeds, and its rollback
  creates an empty group.
* Rolling back `add_config` for a configuration that was mapped before unmaps it (`UndoRestores`
  asks only for requests that changed something); the first selector of a group cannot be rolled back.
* Rolling back the deletion of a command replaces the command that is there, records its content nowhere
  (`forfeited`) and restores no mappings.
* The deletion of a command notes what it read through the caches (handler.go:982, manager.go:569-611). With
  a stale entry in L1 or L2 the history gets an earlier content, the one in the table is deleted and
  noted nowhere (`forfeited`), and the rollback brings the earlier one back, although nobody
  interfered: `CommandsRecoverable` and `UndoRestores` hold of requests that were told the truth. Likewise a stale entry
  makes the creation of a deleted command a success or a conflict that inserts nothing (handler.go:931-938), and
  an answer from before the creation, of a query that is still under way, makes a rollback
  skip the deletion and fail at the insertion.
* Tags, mappings and permissions can be set for groups and roles that do not exist (`strays`).
* `SetUserEmail` for a user that does not exist dereferences nil (reset.go:179-186), which ends the
  request, where the other handlers answer 404.

## 4. What is proved

TLAPS proves these for every value of the constants; each `*Proofs` module holds
one component's theorems.

| Theorem | Statement | Argument |
|---|---|---|
| `ConfigCacheProofs!TypeCorrect` | `Spec => []TypeOK` | inductive as it stands |
| `ConfigCacheProofs!StaleAlwaysHasCause` | `Spec => []StaleHasCause` | `IInv == TypeOK /\ AllInOneInv /\ StaleHasCause`; without Redis no goroutine is in a Redis step, so there is no tier whose message could be missing. Each step either leaves a tier and the database alone, or makes an invalidation pending, or enters `late` or `lost` |
| `ConfigCacheProofs!L2VersionsGrow` | `L2NeverRegresses` | from `TypeOK`: only `BackfillL2` replaces an entry, behind the script's comparison |
| `ConfigCacheProofs!CacheImplementsRegister` | `SpecPast => ImplementsRegister`: the cache refines `CachedRegister` | `CopiesAreKnown`: every row that is on its way to a tier -- in a tier, in the result of a singleflight call, in the object or the bytes of a goroutine that backfills, in the listing of the reconciler -- is one of `past`, or has the content of a draft under a version that was known. It is inductive with `SharersAgree`: who holds one object sees the same in it, so that whoever is about to backfill an object that is edited has been shown the edit. Each step that changes the database, the drafts or a tier is a Write, Show, ChangeL1, FillL2 or DropL2 of the register (`TiersMove`, `DraftsGrow`) |
| `ConfigCacheProofs!ReconcilerSeesStaleRedis` | if every write has a later millisecond than the one before (`0 \notin Ticks`): `SpecPast => SweepRepairs` | `VersionsTellRowsApart` on top: while there are no drafts, versions of rows, and of those stamped but not written, differ, so that comparing versions is comparing rows. Without the assumption the theorem is false: the reconciler cannot tell two writes in one millisecond apart (section 1, hazards) |
| `ReconcileLockProofs!LockTypeCorrect`, `OneScannerAlways`, `LockIsKept` | `TypeOK`, `OneScanner`, `LockKept` | `IInv == TypeOK /\ TokensApart /\ LockOutlivesTimer`: no two runs and no delayed release share a token, and the key of a live run lives longer than its timer can still be late; `Interval + MaxPause < TTL` makes it inductive |
| `ResolveCacheProofs!TypeCorrect` | `TypeOK` | `WaitersHaveCall` needs that the answer of a call releases all who wait for it |
| `ResolveCacheProofs!OnetimeNamesFresh`, `WithdrawnAlwaysFlushed` | `Onetime => NamesFresh`, `WithdrawnIsFlushed` | `FreshInv`: no cached key is newer than the epoch; what a request has read under the current epoch, up to the answer it takes to the agent, is true or its process is behind. One proof serves both, with `Wrong` and `Misread` for what counts as wrong |
| `ResolveCacheProofs!CanaryListAlwaysHasCause` | `CanaryListHasCause` | inductive with the types: a flush drops the list, and what a query stores afterwards either is current or enters `late` |
| `AgentDeliveryProofs!TypeCorrect` | `TypeOK` | inductive as it stands |
| `AgentDeliveryProofs!SameVersionAlwaysSameContent` | `SameVersionSameContent` | `CopiesAgree`: of all copies of a configuration, in the database, in caches, on the way and with the agent, those with one version are equal; a write stamps a version that no copy has |
| `AgentDeliveryProofs!NothingRemovedWithoutCause` | `NoUnfoundedRemoval` | `SteadyKnown`: what is steady is assigned and stored in the database and in every cache, so every process finds it |
| `ConfigReleaseProofs!TypeCorrect` | `TypeOK` | with `Prepared`: a request about to write has something to write |
| `ConfigReleaseProofs!StopHoldsCorrect` | `StopHoldsUnlessOutdated` | `StopInv` adds `SaveInv`: an edit keeps the status it read, so only a resume ends a pause |
| `ConfigReleaseProofs!SerialUnlessWrittenOver` | `SerialUnlessOutdated` | `Intents`: at every place of its handler a request holds what it has read and is to write, consistent with each other and with what it has recorded, so that its write is Create, Replace, Start, Adjust or Finish of `ReleaseLifecycle` and every other step a stutter; one refinement lemma per step |
| `ConfigReleaseProofs!PromotedContentIsKept` | `PromotedIsKept` | `KeptInv` adds `EarlierIsKept`: as long as nobody writes over what he has not read, whatever was in force is in force or in `Log`, and a promotion past its write has had its content in force (`earlier`) |
| `ConfigReleaseProofs!AloneRefines` | one administrator, `~StaleReads`: `Spec => Refines` | `AloneInv`: what the only request has read is what is there, so nothing is ever written over, and the lemmas of `SerialUnlessWrittenOver` apply to every step |
| `AgentDeliveryProofs!CommandsRunOnce` | `RunsOnce` | `OnceInv`: of a command that was assigned all along every cache has the row, an answer says nothing of it or has the row, and an agent that ran it holds it or its deadline has passed; an answer that repeats it therefore finds it held |
| `AgentRegistryProofs!TypeIsOK`, `TheOldestIsLast`, `EveryStatusHasAgent` | `TypeOK`, `OldestIsLast`, `StatusHasAgent` | `IInv`: the map and the list of a process have the same agents and both are finite, the list is in the order of the ages, the statuses are few enough and have an agent, `orphans` excepted. That exactly one agent is at the back of a list that is not empty is the existence of a minimal set among finitely many, `FS_StrictSubsetOrderingWellFounded`; an agent pushed out makes room for one |
| `TargetingProofs!SelectorsMatchWhatTheySay` | `SelectorsAreSets` | `Stored`: what is stored was accepted. The rest is arithmetic: the numbers with quotient q are an interval (`QuotientIsInterval`), for the last part of an address as for a prefix of any size |
| `TargetingProofs!CountedIsDelivered`, `WideningKeeps`, `ListedAreAlwaysServed` | `StatsAreDelivery`, `SpreadsOnly`, `ListedAreServed` | eligibility is what `Category` calls "canary", and delivery asks for a rolling release and a mapped group on top; the bucket depends on the agent alone, and every condition of targeting, of matching and of mapping grows with what it is given; tags with one value per name are what the map built from them says |
| `TargetingProofs!VersionsAreOrdered` | `CompareVersions` is a total preorder on `Seq(Nat \cup {Text})`, and 0 only for versions that differ in zeros at the end | the first segment where two differ, which exists by the same argument on finite sets (`LeastIs`), decides (`FirstDecides`), whatever the lengths |
| `TargetingProofs!ClausesCutVersions` | `>=` and `>` take a final, `<=` and `<` an initial part of all versions, two and two complementary | from the order alone |
| `TargetingProofs!AlternativesAreIntervals` | an alternative of a version constraint, whatever its clauses, takes with two versions every one between them | each clause does, by the order: `>=` and `>` take a final, `<=` and `<` an initial part, `=` what is equal to both ends |
| `AdministrationProofs!TypeCorrect` | `AccountsTypeOK` | `BaseInv`: every call is at a place of its handler (`OnPlan`), writes what fits its action (`Fits`) and has read the row before it saves it |
| `AdministrationProofs!TokenWorksOnce` | `TokensOnce` | `TokenInv`: a token in a store, or consumed by a call that is not at its end, has not been used; the stores are disjoint and no two calls hold the same one |
| `AdministrationProofs!EnabledIsAlwaysConfirmed` | `EnabledIsConfirmed` | `CodesInv`: also the rows that calls have read ask only for confirmed codes, and who is about to save "enable" has confirmed the secret in the row it saves |
| `AdministrationProofs!RolesAlwaysExist` | `RolesExist` | `RolesInv`: a call that no other overtook still has the row as it is, and the role it names is yet to be looked up or exists |
| `AdministrationProofs!GroupsTypeCorrect` | `GroupsTypeOK` | `GroupsInv`: a request's `todo` is one of the tails of its handler's statements (`OnPath`), what the statements so far had to fill in is there (`Filled`), a rollback writes what the entry it undoes has noted (`Restores`), and that entry is in the history, whose entries have a value to go back to (`Sound`) |
| `AdministrationProofs!RollbacksUndo` | `UndoRestores` | `HonestInv` on top: a request that nobody interfered with knows how the state it started from and the state there is are related after each of its statements (`Honest`), and what it puts into the history is true of the two states between which it ran (`True`); a request that a cache told of another command than the one in the table counts as interfered with from then on (`Believing`). At the end of a rollback the two meet |
| `AdministrationProofs!EditsStay` | `EditsKept` | from `GroupsInv`: who saves a row has read one, and saves it with the fields its action is about |
| `AdministrationProofs!FieldsAreGuarded` | `FieldsGuarded`: a saved row changes only fields whose guard -- password shown, code confirmed, token mailed, administrator -- holds of the row as it is then, unless another call changed it in between | `AdmittedInv`: a call that is past its checks has shown what they ask for of the row it has read, which is the row there is as long as nobody overtook it; what it is about to save differs from that row in the fields of its action only (`WritesItsFields`) |
| `AdministrationProofs!ChangesAreKept` | `SpecWithin => ChangesKept` | `EditsStay` and `FieldsAreGuarded`, through `BothAtOnce` |
| `AdministrationProofs!CommandsStay` | `CommandsRecoverable` | `RecoverInv`: a deletion that is still to be noted took the content it has read and started from; a deletion that somebody interfered with, or that a stale cache entry told of another content, has given the content up |
| `AdministrationProofs!BothAtOnce`, `TypesCorrect` | `SpecWithin => SpecGroups /\ SpecAccounts`, `TypesOK` | in `MC_Administration` one module moves while the other rests, so the composition implements both and has every property above |

The theorems rest on the named assumptions of the modules: bounds are natural
numbers, the names of goroutines, tiers and absent values differ, without Redis there is one
process, and the timing of the lock. TLC evaluates all of them in the runs. None bounds the
number of processes, requests, contents or failures.

Only model-checked:

* The liveness properties `Converges`, `ScansGoOn`, `Settles`, `Delivered`, `SeenIsListed` and
  `GoneIsForgotten`, which need reasoning about fairness and ENABLED.
* `VersionsAreNumbers`: the number a version spells is a sum over its segments, and what a fold
  computes can only be shown by induction over data. `VersionsAreOrdered` and `ClausesCutVersions` prove what the
  property is for, without the number.
* `Refines` is false of several administrators, and no run asks it of them: a pause that overlaps an edit of the
  payload undoes the edit, which is neither an edit nor a pause. `SerialUnlessWrittenOver` is what holds of them.

Proved and not asked by a run of its own, because a property that a run asks implies or contains it:
`L2NeverRegresses` (in `ImplementsRegister`), `EditsKept` and `FieldsGuarded` (in `ChangesKept`). `SweepRepairs` is
proved only; the step it is about is part of the run `config`, where `Converges` depends on it.

Not proved although it could be said: that the ages of agents in Redis lag behind those in memory by no more than the
heartbeats under way, which `SeenIsListed` shows on the instance of `registry`.

## 5. What is not modelled

Logging, the audit log, validation and formatting are left out everywhere, and a
configuration's content is an identity. Of the components of section 1 these
have no module or are modelled in part:

* **Authorisation**: which permission a route asks for (`routeToPermission`, `hasPermission` in auth.go)
  is a table look-up on the user's role, with no state of its own; CSRF cookies compare two values
  of one request; mail is sent through an external server, and its loss is only logged.
* **Metrics**: what a collection counts is in `AgentRegistry` (`Online`, `Unlabelled`); rendering and
  push are output. The lease that keeps replicas from pushing in the same interval is not renewed; pushes are
  snapshots that may be repeated, so an overlap changes nothing that a property could be about. `ReconcileLock`
  has the same calls with a renewal.
* **Configuration loading and start-up**: sequential; their outcome is constants of the modules.
* **Wire format**: generated code. **Web UI**: runs in the browser.
* Compressed heartbeats (an agent that leaves out what has not changed), because the server asks for
  full state only by the flag above and treats every heartbeat as complete.
