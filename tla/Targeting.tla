------------------------------ MODULE Targeting -----------------------------
(***************************************************************************)
(* Who gets what: version constraints (internal/model/semver.go), IP       *)
(* selectors (ip_selector.go), canary eligibility (canary.go) and groups   *)
(* (Store.GetConfigsForAgent, agentMatchesGroup), as operators on parsed   *)
(* values, and what an administrator sees of them: the categories of       *)
(* GetCanaryStats and GetCanaryAgents and the pages of ListAgentsPaged.    *)
(*                                                                         *)
(* The state is one agent, one group and one configuration with a canary,  *)
(* which the group or the default group may map; administrators edit all   *)
(* but the agent (ConfigRelease and GroupAdmin have the handlers).         *)
(*                                                                         *)
(* Operators named X_Fault are faulty variants of the operator X below     *)
(* them: no action uses them, they show that the properties can fail.      *)
(***************************************************************************)
EXTENDS Integers, Sequences, FiniteSetsExt

CONSTANTS
  Octet,       (* values of an address' last part (256)                    *)
  Addresses,   (* [fam, n]: family 4 or 6, and the address as a number     *)
  Buckets,     (* 100                                                      *)
  BucketOf,    (* FNV-32a of a key and the configuration's name, % Buckets *)
  Fleet,       (* the registered agents                                    *)
  Groups, Canaries,  (* what administrators may store                      *)
  Text,        (* a version segment Atoi rejects                           *)
  NoAddress, NoKey, Invalid

ASSUME NumberAssumption == Octet \in Nat \ {0} /\ Buckets \in Nat \ {0}
ASSUME BucketAssumption == \A k \in DOMAIN BucketOf : BucketOf[k] \in 0..Buckets - 1

AnyAddress == [fam : {4, 6}, n : Nat]
AnyTag == [name : STRING, value : STRING]

(* What stands in a selector; a prefix, whose address may be any of its    *)
(* network, has size addresses.                                            *)
Item ==
  [kind : {"addr"}, addr : AnyAddress] \cup [kind : {"range"}, start : AnyAddress, end : AnyAddress]
  \cup [kind : {"short"}, start : AnyAddress, octet : Int] \cup [kind : {"prefix"}, addr : AnyAddress, size : Nat \ {0}]

ASSUME AddressAssumption == Addresses \subseteq AnyAddress /\ NoAddress \notin Addresses
ASSUME AgentAssumption ==
  \A a \in Fleet : /\ a.ip \in Addresses \cup {NoAddress} /\ a.tags \subseteq AnyTag
                   /\ a.ids \in [1..3 -> DOMAIN BucketOf \cup {NoKey}]
ASSUME EditAssumption ==
  /\ \A g \in Groups : g.tags \subseteq AnyTag /\ g.ips \subseteq Item
  /\ \A cr \in Canaries : cr.percent \in 0..Buckets /\ cr.ips \subseteq Item

VARIABLES
  agent,   (* [version, ip, tags, ids] as a heartbeat reports them         *)
  group,   (* [tags, ips, constraint]                                      *)
  canary,  (* [percent, tags, ips, constraint]                             *)
  status,  (* of the canary: "rolling" or "paused"                         *)
  mapped   (* the groups, "default" and "group", that map the              *)
           (* configuration, which exists                                  *)

vars == <<agent, group, canary, status, mapped>>

-----------------------------------------------------------------------------
(***************************************************************************)
(* semver.go.  A version is a sequence of segments, each a number (labels  *)
(* like "-beta" are cut off) or Text.  A constraint is a sequence of       *)
(* alternatives, these of clauses [op, ver]; <<>> stands for a blank one.  *)
(***************************************************************************)
(* Segments from the first Text on are dropped.                            *)
VersionSegments(v) ==
  LET texts == {i \in DOMAIN v : v[i] = Text}
  IN  SubSeq(v, 1, IF texts = {} THEN Len(v) ELSE Min(texts) - 1)

Segment(s, i) == IF i <= Len(s) THEN s[i] ELSE 0

CompareSegments(s, t, n) ==
  LET differ == {i \in 1..n : Segment(s, i) # Segment(t, i)}
  IN  IF differ = {} THEN 0
      ELSE IF Segment(s, Min(differ)) < Segment(t, Min(differ)) THEN -1 ELSE 1

CompareVersions_Shorter(a, b) ==
  CompareSegments(VersionSegments(a), VersionSegments(b), Min({Len(VersionSegments(a)), Len(VersionSegments(b))}))
CompareVersions(a, b) ==
  CompareSegments(VersionSegments(a), VersionSegments(b), Max({Len(VersionSegments(a)), Len(VersionSegments(b))}))

MatchClause(clause, v) ==
  LET cmp == CompareVersions(v, clause.ver)
  IN  CASE clause.op = ">=" -> cmp >= 0
        [] clause.op = ">"  -> cmp > 0
        [] clause.op = "<=" -> cmp <= 0
        [] clause.op = "<"  -> cmp < 0
        [] clause.op = "="  -> cmp = 0
        [] OTHER -> FALSE

(* A constraint of blank alternatives only ("||") matches nothing, an      *)
(* alternative of blank clauses only (",") everything.                     *)
MatchVersionConstraint(constraint, v) ==
  \/ constraint = <<>>
  \/ \E g \in DOMAIN constraint :
       /\ constraint[g] # <<>>
       /\ \A c \in DOMAIN constraint[g] : constraint[g][c] = <<>> \/ MatchClause(constraint[g][c], v)

-----------------------------------------------------------------------------
(***************************************************************************)
(* ip_selector.go.  An item is an address, a range up to an address, a     *)
(* range within the last octet or a prefix.  netip orders the families     *)
(* before the numbers.                                                     *)
(***************************************************************************)
AtMost(x, y) == x.fam < y.fam \/ (x.fam = y.fam /\ x.n <= y.n)

RangeEnd_Relative(start, octet) == [start EXCEPT !.n = @ + octet]
RangeEnd(start, octet) == [start EXCEPT !.n = (start.n \div Octet) * Octet + octet]

(* parseIPSelectorItem                                                     *)
ParseItem(item) ==
  CASE item.kind = "short" ->
         IF item.start.fam = 4 /\ item.octet \in 0..Octet - 1 /\ AtMost(item.start, RangeEnd(item.start, item.octet))
         THEN [kind |-> "range", start |-> item.start, end |-> RangeEnd(item.start, item.octet)]
         ELSE Invalid
    [] item.kind = "range" -> IF AtMost(item.start, item.end) THEN item ELSE Invalid
    [] OTHER -> item

(* NormalizeIPSelector refuses a selector with an invalid item.            *)
Accepted(items) == \A i \in items : ParseItem(i) # Invalid

Matches(rule, x) ==
  CASE rule.kind = "addr"   -> x = rule.addr
    [] rule.kind = "range"  -> AtMost(rule.start, x) /\ AtMost(x, rule.end)
    [] rule.kind = "prefix" -> x.fam = rule.addr.fam /\ x.n \div rule.size = rule.addr.n \div rule.size

IPSelectorMatches(items, x) == x # NoAddress /\ \E i \in items : Matches(ParseItem(i), x)

-----------------------------------------------------------------------------
(***************************************************************************)
(* canary.go.  ids are InstanceID, Hostid and Hostname.                    *)
(***************************************************************************)
StableKey(a) ==
  LET given == {i \in DOMAIN a.ids : a.ids[i] # NoKey}
  IN  IF given = {} THEN NoKey ELSE a.ids[Min(given)]

CanaryTargeted(cr, a) ==
  /\ MatchVersionConstraint(cr.constraint, a.version)
  /\ cr.ips = {} \/ IPSelectorMatches(cr.ips, a.ip)
  /\ cr.tags = {} \/ cr.tags \cap a.tags # {}

CanaryEligible_Inclusive(cr, a) ==
  CanaryTargeted(cr, a) /\ StableKey(a) # NoKey /\ BucketOf[StableKey(a)] <= cr.percent

CanaryEligible_NewDraw(cr, a) ==
  CanaryTargeted(cr, a) /\ StableKey(a) # NoKey /\ (BucketOf[StableKey(a)] - cr.percent) % Buckets < cr.percent

CanaryEligible(cr, a) ==
  CanaryTargeted(cr, a) /\ StableKey(a) # NoKey /\ BucketOf[StableKey(a)] < cr.percent

(* GetCanaryStats and GetCanaryAgents look at the bucket first.            *)
Category(cr, a) ==
  IF StableKey(a) = NoKey THEN "unknown"
  ELSE IF ~CanaryTargeted(cr, a) THEN "not_targeted"
  ELSE IF BucketOf[StableKey(a)] < cr.percent THEN "canary"
  ELSE "stable"

-----------------------------------------------------------------------------
(***************************************************************************)
(* Groups other than the default one, which every agent is in.             *)
(***************************************************************************)
(* GetConfigsForAgent: any tag, any rule, or the mere existence of a       *)
(* version constraint selects a group; then the constraint is applied.     *)
MatchedGroup(g, a) ==
  /\ \/ g.tags \cap a.tags # {}
     \/ IPSelectorMatches(g.ips, a.ip)
     \/ g.constraint # <<>>
  /\ MatchVersionConstraint(g.constraint, a.version)

(* ... and the names of what the groups of the agent map.                  *)
Resolved(g, maps, a) == "default" \in maps \/ ("group" \in maps /\ MatchedGroup(g, a))

(* hydrateAgentConfigSet: the row, or the canary if it is rolling and the  *)
(* agent is eligible; getActiveCanaries drops the others.                  *)
Content(cr, st, a) == IF st = "rolling" /\ CanaryEligible(cr, a) THEN "canary" ELSE "stable"

(* What the agent gets of the configuration.                               *)
Gets == IF Resolved(group, mapped, agent) THEN Content(canary, status, agent) ELSE "nothing"

(* agentMatchesGroup: the tags in a map, where a missing name has value "".*)
TagValue(tags, name) == IF \E t \in tags : t.name = name THEN (CHOOSE t \in tags : t.name = name).value ELSE ""

AgentMatchesGroup_All(a, tags) == \A t \in tags : TagValue(a.tags, t.name) = t.value
AgentMatchesGroup(a, tags) == tags = {} \/ \E t \in tags : TagValue(a.tags, t.name) = t.value

-----------------------------------------------------------------------------
Init ==
  /\ agent \in Fleet
  /\ group \in Groups /\ Accepted(group.ips)
  /\ canary \in Canaries /\ Accepted(canary.ips)
  /\ status \in {"rolling", "paused"}
  /\ mapped \in SUBSET {"default", "group"}

(* An administrator changes one thing at a time; what does not parse is    *)
(* refused.                                                                *)
Change(old, new, f) == new = [old EXCEPT ![f] = new[f]]

EditGroup ==
  /\ group' \in Groups \ {group}
  /\ Accepted(group'.ips)
  /\ \E f \in {"tags", "ips", "constraint"} : Change(group, group', f)
  /\ UNCHANGED <<agent, canary, status, mapped>>

EditCanary ==
  /\ canary' \in Canaries \ {canary}
  /\ Accepted(canary'.ips)
  /\ \E f \in {"percent", "tags", "ips", "constraint"} : Change(canary, canary', f)
  /\ UNCHANGED <<agent, group, status, mapped>>

(* setCanaryStatus                                                         *)
SetStatus ==
  /\ status' \in {"rolling", "paused"} \ {status}
  /\ UNCHANGED <<agent, group, canary, mapped>>

(* AddGroupConfig, RemoveGroupConfig                                       *)
Map ==
  /\ \E g \in {"default", "group"} : mapped' \in {mapped \cup {g}, mapped \ {g}}
  /\ mapped' # mapped
  /\ UNCHANGED <<agent, group, canary, status>>

Next == EditGroup \/ EditCanary \/ SetStatus \/ Map

Spec == Init /\ [][Next]_vars

-----------------------------------------------------------------------------
(***************************************************************************)
(* Properties                                                              *)
(***************************************************************************)
(* The versions at hand.                                                   *)
Bounds(constraint) ==
  UNION {{constraint[g][c].ver : c \in {c \in DOMAIN constraint[g] : constraint[g][c] # <<>>}} :
         g \in DOMAIN constraint}
Versions == {agent.version} \cup Bounds(group.constraint) \cup Bounds(canary.constraint)

(* Versions are ordered like the numbers they spell in a base above all    *)
(* segments, the shorter ones padded with zeros: neither 1.9 and 1.10 nor  *)
(* 1.2 and 1.2.0 are told apart wrongly, and the operators of a constraint *)
(* cut the versions in two.                                                *)
Longest == 4
Base == 1 + Max({0} \cup UNION {{v[i] : i \in {i \in DOMAIN v : v[i] # Text}} : v \in Versions})
Number(v) ==
  LET s == VersionSegments(v)
  IN  MapThenSumSet(LAMBDA i : s[i] * Base^(Longest - i), DOMAIN s)

VersionsAreNumbers ==
  \A v, w \in Versions :
    /\ CompareVersions(v, w) < 0 <=> Number(v) < Number(w)
    /\ CompareVersions(v, w) = 0 <=> Number(v) = Number(w)

(* An IP selector that was accepted matches the addresses its items        *)
(* describe: a short range is a part of the start's network.  Ranges from  *)
(* one family to the other, which are accepted as well, are left out.      *)
Described(item) ==
  {x \in Addresses :
     CASE item.kind = "addr"   -> x = item.addr
       [] item.kind = "short"  -> /\ x.fam = 4 /\ x.n \div Octet = item.start.n \div Octet
                                  /\ x.n % Octet \in (item.start.n % Octet)..item.octet
       [] item.kind = "range"  -> x.fam = item.start.fam /\ x.n \in item.start.n..item.end.n
       [] item.kind = "prefix" -> LET first == item.addr.n - (item.addr.n % item.size)
                                IN  x.fam = item.addr.fam /\ x.n \in first..(first + item.size - 1)}

OneFamily(item) == item.kind = "range" => item.start.fam = item.end.fam

SelectorsAreSets ==
  \A items \in {group.ips, canary.ips} :
    (\A i \in items : OneFamily(i)) =>
      (IPSelectorMatches(items, agent.ip) <=> agent.ip \in UNION {Described(i) : i \in items})

(* Whoever gets the canary is counted as "canary" by the statistics, which *)
(* look neither at the status nor at the mappings; so who is counted and   *)
(* does not get it is one the release is paused for, or one no group of    *)
(* which maps the configuration.                                           *)
CountedInVain == status = "paused" \/ ~Resolved(group, mapped, agent)

StatsAreDelivery ==
  /\ Gets = "canary" => Category(canary, agent) = "canary"
  /\ Category(canary, agent) = "canary" => Gets = "canary" \/ CountedInVain

(* A canary spreads: raising the percentage, widening a selector of it or  *)
(* of the group, resuming it and mapping the configuration once more take  *)
(* it from no agent that gets it, and the configuration from none.         *)
Wider(old, new) == new = {} \/ (old # {} /\ old \subseteq new)

CanaryWider(old, new) ==
  /\ old.percent <= new.percent /\ old.constraint = new.constraint
  /\ Wider(old.tags, new.tags) /\ Wider(old.ips, new.ips)
GroupWider(old, new) ==
  old.tags \subseteq new.tags /\ old.ips \subseteq new.ips /\ old.constraint = new.constraint

SpreadsOnly ==
  [][/\ CanaryWider(canary, canary') /\ GroupWider(group, group')
     /\ status' = "rolling" /\ mapped \subseteq mapped'
     => (Gets = "canary" => Gets' = "canary") /\ (Gets # "nothing" => Gets' # "nothing")]_vars

(* The agents listed for a group with tags, but neither rules nor a        *)
(* constraint, are those that get its configurations, as long as tags have *)
(* a value and agents one value per tag.                                   *)
ListedAreServed ==
  /\ group.tags # {} /\ group.ips = {} /\ group.constraint = <<>>
  /\ \A t \in group.tags : t.value # ""
  /\ \A s, t \in agent.tags : s.name = t.name => s = t
  => (AgentMatchesGroup(agent, group.tags) <=> MatchedGroup(group, agent))
=============================================================================
