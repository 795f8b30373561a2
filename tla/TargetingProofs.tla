--------------------------- MODULE TargetingProofs --------------------------
(* Proofs about Targeting, for any agents, groups and canaries of the given *)
(* shape, any width of an address' last part and any prefixes.              *)
EXTENDS Targeting, FiniteSetTheorems, WellFoundedInduction, TLAPS

(* ------------------------------------------------------------------------ *)
(* Division: a number lies in one of the intervals of length p, which its    *)
(* quotient names.                                                          *)
LEMMA ProductGrows ==
  ASSUME NEW p \in Nat, NEW a \in Int, NEW b \in Int, a <= b
  PROVE  p * a <= p * b
  <1>1. PICK d \in Nat : b = a + d
    BY SMT
  <1>2. p * b = p * a + p * d /\ p * d \in Nat
    BY <1>1, SMT
  <1>3. p * a \in Int
    BY SMT
  <1> QED BY <1>2, <1>3, SMT

LEMMA Quotient ==
  ASSUME NEW p \in Nat \ {0}, NEW n \in Nat
  PROVE  /\ n \div p \in Nat /\ n % p \in 0..p - 1
         /\ n = p * (n \div p) + (n % p)
  BY SMT

LEMMA QuotientIsInterval ==
  ASSUME NEW p \in Nat \ {0}, NEW n \in Nat, NEW q \in Nat
  PROVE  n \div p = q <=> n \in (p * q)..(p * q + p - 1)
  <1> DEFINE k == n \div p
             r == n % p
  <1>1. k \in Nat /\ r \in 0..p - 1 /\ n = p * k + r
    BY Quotient
  <1>2. p * k \in Int /\ p * q \in Int
    BY <1>1, SMT
  <1> HIDE DEF k, r
  <1>3. CASE k = q
    BY <1>1, <1>2, <1>3, SMT DEF k
  <1>4. CASE k + 1 <= q
    <2>1. p * (k + 1) <= p * q
      BY <1>1, <1>4, ProductGrows
    <2>2. p * (k + 1) = p * k + p
      BY <1>1, SMT
    <2> QED BY <1>1, <1>2, <1>4, <2>1, <2>2, SMT DEF k
  <1>5. CASE q + 1 <= k
    <2>1. p * (q + 1) <= p * k
      BY <1>1, <1>5, ProductGrows
    <2>2. p * (q + 1) = p * q + p
      BY SMT
    <2> QED BY <1>1, <1>2, <1>5, <2>1, <2>2, SMT DEF k
  <1> QED BY <1>1, <1>3, <1>4, <1>5, SMT

(* ------------------------------------------------------------------------ *)
(* An item that parses matches the addresses it describes.                  *)
LEMMA AddressIsRecord ==
  ASSUME NEW x \in AnyAddress, NEW y \in AnyAddress
  PROVE  x = y <=> x.fam = y.fam /\ x.n = y.n
  BY DEF AnyAddress

LEMMA RangeIsDescribed ==
  ASSUME NEW i \in Item, i.kind = "range", ParseItem(i) # Invalid, OneFamily(i), NEW x \in Addresses
  PROVE  Matches(ParseItem(i), x) <=> x \in Described(i)
  <1>1. i.start \in AnyAddress /\ i.end \in AnyAddress /\ x \in AnyAddress
    BY AddressAssumption DEF Item
  <1>2. ParseItem(i) = i /\ i.start.fam = i.end.fam
    BY DEF ParseItem, OneFamily
  <1>3. Matches(i, x) <=> AtMost(i.start, x) /\ AtMost(x, i.end)
    BY DEF Matches
  <1>4. x \in Described(i) <=> x.fam = i.start.fam /\ x.n \in i.start.n..i.end.n
    BY DEF Described
  <1> QED BY <1>1, <1>2, <1>3, <1>4 DEF AtMost, AnyAddress

LEMMA PartOfInterval ==
  ASSUME NEW p \in Nat \ {0}, NEW n \in Nat, NEW a \in Nat, NEW last \in 0..p - 1
  PROVE  /\ n \div p = a \div p
         /\ n % p \in (a % p)..last
         <=> a <= n /\ n <= (a \div p) * p + last
  <1> DEFINE q == a \div p
             k == n \div p
             r == n % p
             s == a % p
             base == p * q
  <1>1. q \in Nat /\ s \in 0..p - 1 /\ a = base + s
    BY Quotient
  <1>2. k \in Nat /\ r \in 0..p - 1 /\ n = p * k + r
    BY Quotient
  <1>3. k = q <=> n \in base..(base + p - 1)
    BY <1>1, QuotientIsInterval
  <1>4. base \in Int /\ q * p = base
    BY <1>1, SMT
  <1>5. k = q => n = base + r
    BY <1>2
  <1> HIDE DEF q, k, r, s, base
  <1>6. k = q /\ r \in s..last <=> a <= n /\ n <= base + last
    BY <1>1, <1>2, <1>3, <1>4, <1>5, SMT
  <1> QED BY <1>4, <1>6 DEF q, k, r, s

LEMMA ShortIsDescribed ==
  ASSUME NEW i \in Item, i.kind = "short", ParseItem(i) # Invalid, NEW x \in Addresses
  PROVE  Matches(ParseItem(i), x) <=> x \in Described(i)
  <1> DEFINE end == RangeEnd(i.start, i.octet)
  <1>1. /\ i.start \in AnyAddress /\ i.octet \in Int /\ x \in AnyAddress
        /\ x.n \in Nat /\ i.start.n \in Nat
    BY AddressAssumption DEF Item, AnyAddress
  <1>2. /\ i.start.fam = 4 /\ i.octet \in 0..Octet - 1
        /\ ParseItem(i) = [kind |-> "range", start |-> i.start, end |-> end]
    BY DEF ParseItem
  <1>3. end.fam = 4 /\ end.n = (i.start.n \div Octet) * Octet + i.octet
    BY <1>1, <1>2 DEF RangeEnd, AnyAddress
  <1>4. Matches(ParseItem(i), x) <=> AtMost(i.start, x) /\ AtMost(x, end)
    BY <1>2 DEF Matches
  <1> HIDE DEF end
  <1>5. Matches(ParseItem(i), x) <=> x.fam = 4 /\ i.start.n <= x.n /\ x.n <= end.n
    BY <1>1, <1>2, <1>3, <1>4 DEF AtMost, AnyAddress
  <1>6. x \in Described(i) <=> /\ x.fam = 4 /\ x.n \div Octet = i.start.n \div Octet
                               /\ x.n % Octet \in (i.start.n % Octet)..i.octet
    BY DEF Described
  <1>7. /\ x.n \div Octet = i.start.n \div Octet
        /\ x.n % Octet \in (i.start.n % Octet)..i.octet
        <=> i.start.n <= x.n /\ x.n <= (i.start.n \div Octet) * Octet + i.octet
    <2> DEFINE n == x.n
               a == i.start.n
               last == i.octet
    <2>1. n \in Nat /\ a \in Nat /\ last \in 0..Octet - 1
      BY <1>1, <1>2
    <2> HIDE DEF n, a, last
    <2>2. /\ n \div Octet = a \div Octet
          /\ n % Octet \in (a % Octet)..last
          <=> a <= n /\ n <= (a \div Octet) * Octet + last
      BY <2>1, PartOfInterval, NumberAssumption
    <2> QED BY <2>2 DEF n, a, last
  <1> QED BY <1>3, <1>5, <1>6, <1>7

LEMMA PrefixIsDescribed ==
  ASSUME NEW i \in Item, i.kind = "prefix", NEW x \in Addresses
  PROVE  Matches(ParseItem(i), x) <=> x \in Described(i)
  <1> DEFINE q == i.addr.n \div i.size
  <1>1. /\ i.addr \in AnyAddress /\ i.size \in Nat \ {0} /\ x \in AnyAddress
        /\ x.n \in Nat /\ i.addr.n \in Nat
    BY AddressAssumption DEF Item, AnyAddress
  <1>2. Matches(ParseItem(i), x) <=> x.fam = i.addr.fam /\ x.n \div i.size = q
    <2>1. ParseItem(i) = i
      BY DEF ParseItem
    <2>2. Matches(i, x) <=> x.fam = i.addr.fam /\ x.n \div i.size = q
      BY DEF Matches
    <2> QED BY <2>1, <2>2
  <1>3. /\ q \in Nat /\ i.addr.n % i.size \in 0..i.size - 1
        /\ i.addr.n = i.size * q + (i.addr.n % i.size)
    BY <1>1, Quotient
  <1>4. x.n \div i.size = q <=> x.n \in (i.size * q)..(i.size * q + i.size - 1)
    <2> DEFINE n == x.n
               p == i.size
    <2>1. n \in Nat /\ p \in Nat \ {0} /\ q \in Nat
      BY <1>1, <1>3
    <2> HIDE DEF n, p, q
    <2>2. n \div p = q <=> n \in (p * q)..(p * q + p - 1)
      BY <2>1, QuotientIsInterval
    <2> QED BY <2>2 DEF n, p
  <1>5. i.size * q \in Int
    BY <1>1, <1>3, SMT
  <1> HIDE DEF q
  <1>6. i.addr.n - (i.addr.n % i.size) = i.size * q
    BY <1>1, <1>3, <1>5, SMT
  <1>7. x \in Described(i) <=> x.fam = i.addr.fam /\ x.n \in (i.size * q)..(i.size * q + i.size - 1)
    BY <1>6 DEF Described
  <1> QED BY <1>2, <1>4, <1>7

LEMMA ItemIsDescribed ==
  ASSUME NEW i \in Item, ParseItem(i) # Invalid, OneFamily(i), NEW x \in Addresses
  PROVE  Matches(ParseItem(i), x) <=> x \in Described(i)
  <1>1. CASE i.kind = "addr"
    <2>1. ParseItem(i) = i
      BY <1>1 DEF ParseItem
    <2>2. Matches(i, x) <=> x = i.addr
      BY <1>1 DEF Matches
    <2>3. x \in Described(i) <=> x = i.addr
      BY <1>1 DEF Described
    <2> QED BY <2>1, <2>2, <2>3
  <1> QED BY <1>1, RangeIsDescribed, ShortIsDescribed, PrefixIsDescribed DEF Item

(* ------------------------------------------------------------------------ *)
(* What is stored has the shape of what administrators may write, and its   *)
(* selectors have been accepted: Stored is what the properties rest on.     *)
Stored ==
  /\ agent \in Fleet
  /\ group \in Groups /\ Accepted(group.ips)
  /\ canary \in Canaries /\ Accepted(canary.ips)

LEMMA InitStored == Init => Stored
  BY DEF Init, Stored

LEMMA NextStored == Stored /\ [Next]_vars => Stored'
  <1> SUFFICES ASSUME Stored, [Next]_vars PROVE Stored'
    OBVIOUS
  <1>1. CASE EditGroup
    BY <1>1 DEF EditGroup, Stored, Accepted, ParseItem, RangeEnd, AtMost
  <1>2. CASE EditCanary
    BY <1>2 DEF EditCanary, Stored, Accepted, ParseItem, RangeEnd, AtMost
  <1>3. ASSUME UNCHANGED <<agent, group, canary>> PROVE Stored'
    BY <1>3 DEF Stored, Accepted, ParseItem, RangeEnd, AtMost
  <1> QED BY <1>1, <1>2, <1>3 DEF Next, SetStatus, Map, vars

LEMMA AlwaysStored == Spec => []Stored
  BY InitStored, NextStored, PTL DEF Spec

LEMMA SelectorIsDescribed ==
  ASSUME NEW items \in SUBSET Item, Accepted(items), \A i \in items : OneFamily(i),
         NEW x \in Addresses \cup {NoAddress}
  PROVE  IPSelectorMatches(items, x) <=> x \in UNION {Described(i) : i \in items}
  <1>1. CASE x = NoAddress
    BY <1>1, AddressAssumption DEF IPSelectorMatches, Described
  <1>2. CASE x \in Addresses
    <2>1. \A i \in items : Matches(ParseItem(i), x) <=> x \in Described(i)
      BY <1>2, ItemIsDescribed DEF Accepted
    <2>2. x # NoAddress
      BY <1>2, AddressAssumption
    <2> QED BY <2>1, <2>2 DEF IPSelectorMatches
  <1> QED BY <1>1, <1>2

(* Whatever the addresses, the width of the last part and the prefixes, an  *)
(* agent is matched by an accepted selector (parseIPSelectorItem, matches)  *)
(* exactly when its address is one of those that the items stand for: short *)
(* ranges do not leave their network, prefixes contain all of theirs.       *)
THEOREM SelectorsMatchWhatTheySay == Spec => []SelectorsAreSets
  <1>1. Stored => SelectorsAreSets
    <2> SUFFICES ASSUME Stored, NEW items \in {group.ips, canary.ips}, \A i \in items : OneFamily(i)
                 PROVE  IPSelectorMatches(items, agent.ip) <=> agent.ip \in UNION {Described(i) : i \in items}
      BY DEF SelectorsAreSets
    <2>1. items \in SUBSET Item /\ Accepted(items)
      BY EditAssumption DEF Stored
    <2>2. agent.ip \in Addresses \cup {NoAddress}
      BY AgentAssumption DEF Stored
    <2> QED BY <2>1, <2>2, SelectorIsDescribed
  <1> QED BY <1>1, AlwaysStored, PTL

StatusKnown == status \in {"rolling", "paused"}

LEMMA AlwaysStatusKnown == Spec => []StatusKnown
  <1>1. Init => StatusKnown
    BY DEF Init, StatusKnown
  <1>2. StatusKnown /\ [Next]_vars => StatusKnown'
    <2> SUFFICES ASSUME StatusKnown, [Next]_vars PROVE StatusKnown'
      OBVIOUS
    <2>1. CASE SetStatus
      BY <2>1 DEF SetStatus, StatusKnown
    <2>2. CASE EditGroup \/ EditCanary \/ Map \/ UNCHANGED vars
      BY <2>2 DEF EditGroup, EditCanary, Map, vars, StatusKnown
    <2> QED BY <2>1, <2>2 DEF Next
  <1> QED BY <1>1, <1>2, PTL DEF Spec

(* The statistics and the agents page of a canary, which look at the bucket *)
(* first and neither at the status nor at the mappings, count every agent   *)
(* as "canary" that gets it, and no others but those that do not get it     *)
(* because the release is paused or no group of theirs maps it.             *)
THEOREM CountedIsDelivered == Spec => []StatsAreDelivery
  <1>1. CanaryEligible(canary, agent) <=> Category(canary, agent) = "canary"
    BY DEF Category, CanaryEligible
  <1>2. /\ Gets = "canary" => CanaryEligible(canary, agent)
        /\ CanaryEligible(canary, agent) /\ status \in {"rolling", "paused"} => Gets = "canary" \/ CountedInVain
    BY DEF Gets, Content, CountedInVain
  <1>3. StatusKnown => StatsAreDelivery
    BY <1>1, <1>2 DEF StatsAreDelivery, StatusKnown
  <1> QED BY <1>3, AlwaysStatusKnown, PTL

(* ------------------------------------------------------------------------ *)
(* The key of the bucket, if there is one, is one of the agent's ids.       *)
LEMMA KeyHasBucket ==
  ASSUME NEW a \in Fleet, StableKey(a) # NoKey
  PROVE  BucketOf[StableKey(a)] \in 0..Buckets - 1
  <1> DEFINE given == {i \in DOMAIN a.ids : a.ids[i] # NoKey}
  <1>1. a.ids \in [1..3 -> DOMAIN BucketOf \cup {NoKey}]
    BY AgentAssumption
  <1>2. given \subseteq 1..3 /\ given # {}
    BY <1>1 DEF StableKey
  <1>3. \E i \in given : \A j \in given : i <= j
    <2>1. CASE 1 \in given
      BY <1>2, <2>1
    <2>2. CASE 1 \notin given /\ 2 \in given
      BY <1>2, <2>2
    <2>3. CASE 1 \notin given /\ 2 \notin given
      BY <1>2, <2>3
    <2> QED BY <2>1, <2>2, <2>3
  <1>4. Min(given) \in given
    BY <1>3 DEF Min
  <1>5. StableKey(a) = a.ids[Min(given)]
    BY <1>2 DEF StableKey
  <1>6. StableKey(a) \in DOMAIN BucketOf
    BY <1>1, <1>4, <1>5
  <1> QED BY <1>6, BucketAssumption

LEMMA WiderTargetsMore ==
  ASSUME NEW a, NEW old, NEW new, old.constraint = new.constraint,
         Wider(old.tags, new.tags), Wider(old.ips, new.ips), CanaryTargeted(old, a)
  PROVE  CanaryTargeted(new, a)
  <1>1. MatchVersionConstraint(new.constraint, a.version)
    BY DEF CanaryTargeted
  <1>2. new.ips = {} \/ IPSelectorMatches(new.ips, a.ip)
    BY DEF CanaryTargeted, Wider, IPSelectorMatches
  <1>3. new.tags = {} \/ new.tags \cap a.tags # {}
    BY DEF CanaryTargeted, Wider
  <1> QED BY <1>1, <1>2, <1>3 DEF CanaryTargeted

LEMMA WiderGroupSelectsMore ==
  ASSUME NEW a, NEW old, NEW new, GroupWider(old, new), MatchedGroup(old, a)
  PROVE  MatchedGroup(new, a)
  <1>1. old.tags \cap a.tags # {} => new.tags \cap a.tags # {}
    BY DEF GroupWider
  <1>2. IPSelectorMatches(old.ips, a.ip) => IPSelectorMatches(new.ips, a.ip)
    BY DEF GroupWider, IPSelectorMatches
  <1>3. new.constraint = old.constraint
    BY DEF GroupWider
  <1> QED BY <1>1, <1>2, <1>3 DEF MatchedGroup

LEMMA WiderCanaryTakesMore ==
  ASSUME NEW a \in Fleet, NEW old \in Canaries, NEW new \in Canaries, CanaryWider(old, new),
         CanaryEligible(old, a)
  PROVE  CanaryEligible(new, a)
  <1>1. CanaryTargeted(old, a) /\ StableKey(a) # NoKey /\ BucketOf[StableKey(a)] < old.percent
    BY DEF CanaryEligible
  <1>2. CanaryTargeted(new, a)
    BY <1>1, WiderTargetsMore DEF CanaryWider
  <1>3. old.percent \in Int /\ new.percent \in Int /\ old.percent <= new.percent
    BY EditAssumption, NumberAssumption DEF CanaryWider
  <1>4. BucketOf[StableKey(a)] \in Int
    BY <1>1, KeyHasBucket, NumberAssumption
  <1>5. BucketOf[StableKey(a)] < new.percent
    BY <1>1, <1>3, <1>4
  <1> QED BY <1>1, <1>2, <1>5 DEF CanaryEligible

(* An edit that raises the percentage, widens a selector of the canary or   *)
(* of the group, or maps the configuration once more takes neither from an  *)
(* agent that gets it, as long as the release rolls: the bucket of an agent *)
(* depends on nothing that an edit changes, and groups only add up.         *)
THEOREM WideningKeeps == Spec => SpreadsOnly
  <1>1. ASSUME Stored, Stored', [Next]_vars,
               CanaryWider(canary, canary'), GroupWider(group, group'),
               status' = "rolling", mapped \subseteq mapped'
        PROVE  (Gets = "canary" => Gets' = "canary") /\ (Gets # "nothing" => Gets' # "nothing")
    <2>1. agent' = agent
      BY <1>1 DEF Next, EditGroup, EditCanary, SetStatus, Map, vars
    <2>2. agent \in Fleet /\ canary \in Canaries /\ canary' \in Canaries
      BY <1>1 DEF Stored
    <2>3. CanaryEligible(canary, agent) => CanaryEligible(canary', agent)
      BY <1>1, <2>2, WiderCanaryTakesMore
    <2>4. MatchedGroup(group, agent) => MatchedGroup(group', agent)
      BY <1>1, WiderGroupSelectsMore
    <2>5. Resolved(group, mapped, agent) => Resolved(group', mapped', agent)
      BY <1>1, <2>4 DEF Resolved
    <2>6. Gets' = IF Resolved(group', mapped', agent)
                  THEN IF CanaryEligible(canary', agent) THEN "canary" ELSE "stable"
                  ELSE "nothing"
      BY <1>1, <2>1 DEF Gets, Content
    <2>7. Gets # "nothing" => Resolved(group, mapped, agent)
      BY DEF Gets
    <2>8. Gets = "canary" => Resolved(group, mapped, agent) /\ CanaryEligible(canary, agent)
      BY DEF Gets, Content
    <2> QED BY <2>3, <2>5, <2>6, <2>7, <2>8
  <1>2. Stored /\ Stored' /\ [Next]_vars =>
          (/\ CanaryWider(canary, canary') /\ GroupWider(group, group')
           /\ status' = "rolling" /\ mapped \subseteq mapped'
           => (Gets = "canary" => Gets' = "canary") /\ (Gets # "nothing" => Gets' # "nothing"))
    BY <1>1
  <1> QED BY <1>2, AlwaysStored, PTL DEF Spec, SpreadsOnly

(* ------------------------------------------------------------------------ *)
(* The value agentMatchesGroup finds for a tag is that of the agent's only  *)
(* tag of that name.                                                        *)
LEMMA ValueOfTag ==
  ASSUME NEW tags \in SUBSET AnyTag, \A s, t \in tags : s.name = t.name => s = t,
         NEW tag \in AnyTag, tag.value # ""
  PROVE  TagValue(tags, tag.name) = tag.value <=> tag \in tags
  <1>1. CASE ~ \E t \in tags : t.name = tag.name
    BY <1>1 DEF TagValue
  <1>2. ASSUME NEW s \in tags, s.name = tag.name
        PROVE  TagValue(tags, tag.name) = tag.value <=> tag \in tags
    <2>1. (CHOOSE t \in tags : t.name = tag.name) = s
      BY <1>2
    <2>2. TagValue(tags, tag.name) = s.value
      BY <1>2, <2>1 DEF TagValue
    <2>3. s.value = tag.value => s = tag
      <3>1. s \in AnyTag
        BY <1>2
      <3>2. s = [name |-> s.name, value |-> s.value] /\ tag = [name |-> tag.name, value |-> tag.value]
        BY <3>1 DEF AnyTag
      <3> QED BY <1>2, <3>2
    <2>4. tag \in tags => s = tag
      BY <1>2
    <2> QED BY <1>2, <2>2, <2>3, <2>4
  <1> QED BY <1>1, <1>2

(* The agents that the console lists for a group of tags are those that     *)
(* GetConfigsForAgent gives its configurations.                             *)
THEOREM ListedAreAlwaysServed == Spec => []ListedAreServed
  <1>1. Stored => ListedAreServed
    <2> SUFFICES ASSUME Stored, group.tags # {}, group.ips = {}, group.constraint = <<>>,
                        \A t \in group.tags : t.value # "",
                        \A s, t \in agent.tags : s.name = t.name => s = t
                 PROVE  AgentMatchesGroup(agent, group.tags) <=> MatchedGroup(group, agent)
      BY DEF ListedAreServed
    <2>1. agent.tags \in SUBSET AnyTag /\ group.tags \in SUBSET AnyTag
      BY AgentAssumption, EditAssumption DEF Stored
    <2>2. \A t \in group.tags : TagValue(agent.tags, t.name) = t.value <=> t \in agent.tags
      BY <2>1, ValueOfTag
    <2>3. AgentMatchesGroup(agent, group.tags) <=> group.tags \cap agent.tags # {}
      BY <2>2 DEF AgentMatchesGroup
    <2>4. MatchedGroup(group, agent) <=> group.tags \cap agent.tags # {}
      BY DEF MatchedGroup, IPSelectorMatches, MatchVersionConstraint
    <2> QED BY <2>3, <2>4
  <1> QED BY <1>1, AlwaysStored, PTL

-----------------------------------------------------------------------------
(***************************************************************************)
(* Versions.                                                               *)
(***************************************************************************)
(* The least of some numbers: among the intervals below them, which are     *)
(* finite sets, one contains no other.                                      *)
LEMMA LeastIs ==
  ASSUME NEW n \in Nat, NEW S \in SUBSET (1..n), S # {}
  PROVE  Min(S) \in S /\ \A j \in S : Min(S) <= j
  <1> DEFINE below == {1..i : i \in S}
             U == 1..n
  <1>1. IsFiniteSet(U)
    BY FS_Interval
  <1>2. below # {}
    OBVIOUS
  <1>3. ASSUME NEW x \in below PROVE x \in FiniteSubsetsOf(U)
    <2>1. x \subseteq U
      OBVIOUS
    <2> HIDE DEF below, U
    <2>2. IsFiniteSet(x)
      BY <1>1, <2>1, FS_Subset
    <2> QED BY <2>1, <2>2 DEF FiniteSubsetsOf
  <1>4. \E x \in below : \A y \in below : y \subseteq x => y = x
    <2> HIDE DEF below, U
    <2>1. IsWellFoundedOn(StrictSubsetOrdering(U), FiniteSubsetsOf(U))
      BY FS_StrictSubsetOrderingWellFounded
    <2>2. below \subseteq FiniteSubsetsOf(U)
      BY <1>3
    <2>3. PICK x \in below : \A y \in below : ~(<<y, x>> \in StrictSubsetOrdering(U))
      BY <1>2, <2>1, <2>2, WFMin
    <2>4. ASSUME NEW y \in below, y \subseteq x, y # x PROVE FALSE
      <3>1. y \subseteq U /\ x \subseteq U
        BY <1>3 DEF FiniteSubsetsOf
      <3>2. <<y, x>> \in StrictSubsetOrdering(U)
        BY <2>4, <3>1 DEF StrictSubsetOrdering
      <3> QED BY <2>3, <3>2
    <2> QED BY <2>4
  <1>5. PICK i \in S : \A j \in S : 1..j \subseteq 1..i => 1..j = 1..i
    <2>1. PICK x \in below : \A y \in below : y \subseteq x => y = x
      BY <1>4
    <2>2. PICK i \in S : x = 1..i
      OBVIOUS
    <2>3. ASSUME NEW j \in S, 1..j \subseteq 1..i PROVE 1..j = 1..i
      <3>1. 1..j \in below
        OBVIOUS
      <3> QED BY <2>1, <2>2, <2>3, <3>1
    <2> QED BY <2>3
  <1>6. ASSUME NEW j \in S PROVE i <= j
    <2> SUFFICES ASSUME j < i PROVE FALSE
      OBVIOUS
    <2>1. 1..j \subseteq 1..i /\ i \in 1..i /\ i \notin 1..j
      OBVIOUS
    <2> QED BY <1>5, <2>1
  <1>7. \E k \in S : \A j \in S : k <= j
    BY <1>6
  <1> HIDE DEF below, U
  <1> QED BY <1>7 DEF Min

LEMMA SegmentsAreNumbers ==
  ASSUME NEW v \in Seq(Nat \cup {Text})
  PROVE  VersionSegments(v) \in Seq(Nat)
  <1> DEFINE texts == {i \in DOMAIN v : v[i] = Text}
             m == Min(texts)
             n == IF texts = {} THEN Len(v) ELSE m - 1
  <1>1. Len(v) \in Nat /\ DOMAIN v = 1..Len(v) /\ \A i \in 1..Len(v) : v[i] \in Nat \cup {Text}
    OBVIOUS
  <1>2. n \in 0..Len(v) /\ \A i \in 1..n : v[i] \in Nat
    <2>1. CASE texts = {}
      <3>1. \A i \in 1..Len(v) : v[i] # Text
        BY <1>1, <2>1
      <3> QED BY <1>1, <2>1, <3>1
    <2>2. CASE texts # {}
      <3>1. texts \subseteq 1..Len(v)
        BY <1>1
      <3>2. \A i \in 1..Len(v) : v[i] = Text => i \in texts
        BY <1>1
      <3>3. n = m - 1
        BY <2>2
      <3> HIDE DEF texts, n
      <3>4. m \in texts /\ \A j \in texts : m <= j
        BY <1>1, <2>2, <3>1, LeastIs
      <3> HIDE DEF m
      <3>5. m \in 1..Len(v)
        BY <3>1, <3>4
      <3>6. \A i \in 1..Len(v) : i < m => v[i] # Text
        BY <3>2, <3>4, <3>5
      <3>7. ASSUME NEW i \in 1..n PROVE v[i] \in Nat
        <4>1. i \in 1..Len(v) /\ i < m
          BY <1>1, <3>3, <3>5
        <4> QED BY <1>1, <3>6, <4>1
      <3>8. n \in 0..Len(v)
        BY <1>1, <3>3, <3>5
      <3> QED BY <3>7, <3>8
    <2> QED BY <2>1, <2>2
  <1>3. VersionSegments(v) = SubSeq(v, 1, n)
    BY DEF VersionSegments
  <1> HIDE DEF n
  <1>4. SubSeq(v, 1, n) = [i \in 1..n |-> v[i]]
    BY <1>1, <1>2
  <1> QED BY <1>2, <1>3, <1>4

(* The order of padded versions.                                            *)
Alike(s, t) == \A i \in Nat \ {0} : Segment(s, i) = Segment(t, i)
Precedes(s, t) ==
  \E i \in Nat \ {0} : Segment(s, i) < Segment(t, i) /\ \A j \in 1..(i - 1) : Segment(s, j) = Segment(t, j)

LEMMA SegmentIsNumber ==
  ASSUME NEW s \in Seq(Nat), NEW i \in Nat \ {0}
  PROVE  Segment(s, i) \in Nat
  BY DEF Segment

(* The first place where they differ decides.                               *)
LEMMA FirstDecides ==
  ASSUME NEW s \in Seq(Nat), NEW t \in Seq(Nat), NEW m \in Nat \ {0},
         Segment(s, m) # Segment(t, m), \A j \in 1..(m - 1) : Segment(s, j) = Segment(t, j)
  PROVE  Precedes(s, t) <=> Segment(s, m) < Segment(t, m)
  <1>1. Segment(s, m) \in Nat /\ Segment(t, m) \in Nat
    BY SegmentIsNumber
  <1>2. Segment(s, m) < Segment(t, m) => Precedes(s, t)
    BY DEF Precedes
  <1>3. ASSUME Precedes(s, t) PROVE Segment(s, m) < Segment(t, m)
    <2>1. PICK i \in Nat \ {0} : Segment(s, i) < Segment(t, i) /\ \A j \in 1..(i - 1) : Segment(s, j) = Segment(t, j)
      BY <1>3 DEF Precedes
    <2>2. Segment(s, i) \in Nat /\ Segment(t, i) \in Nat
      BY SegmentIsNumber
    <2>3. i < m => i \in 1..(m - 1)
      OBVIOUS
    <2>4. m < i => m \in 1..(i - 1)
      OBVIOUS
    <2>5. ~(i < m)
      BY <2>1, <2>2, <2>3
    <2>6. ~(m < i)
      BY <2>1, <2>4
    <2>7. i = m
      BY <2>5, <2>6
    <2> QED BY <2>1, <2>7
  <1> QED BY <1>2, <1>3

LEMMA CompareMeans ==
  ASSUME NEW s \in Seq(Nat), NEW t \in Seq(Nat), NEW n \in Nat, Len(s) <= n, Len(t) <= n
  PROVE  \/ CompareSegments(s, t, n) = 0 /\ Alike(s, t) /\ ~Precedes(s, t) /\ ~Precedes(t, s)
         \/ CompareSegments(s, t, n) = -1 /\ ~Alike(s, t) /\ Precedes(s, t) /\ ~Precedes(t, s)
         \/ CompareSegments(s, t, n) = 1 /\ ~Alike(s, t) /\ ~Precedes(s, t) /\ Precedes(t, s)
  <1> DEFINE differ == {i \in 1..n : Segment(s, i) # Segment(t, i)}
             m == Min(differ)
  <1>1. CompareSegments(s, t, n) = IF differ = {} THEN 0 ELSE IF Segment(s, m) < Segment(t, m) THEN -1 ELSE 1
    BY DEF CompareSegments
  <1>2. \A i \in Nat \ {0} : i > n => Segment(s, i) = Segment(t, i)
    BY DEF Segment
  <1>3. \A i \in Nat \ {0} : Segment(s, i) \in Nat /\ Segment(t, i) \in Nat
    BY SegmentIsNumber
  <1>4. CASE differ = {}
    <2>1. \A i \in 1..n : Segment(s, i) = Segment(t, i)
      BY <1>4
    <2>2. \A i \in Nat \ {0} : Segment(s, i) = Segment(t, i)
      <3> TAKE i \in Nat \ {0}
      <3>1. i \in 1..n \/ i > n
        OBVIOUS
      <3> QED BY <1>2, <2>1, <3>1
    <2>3. Alike(s, t)
      BY <2>2 DEF Alike
    <2>4. ~Precedes(s, t) /\ ~Precedes(t, s)
      BY <1>3, <2>2 DEF Precedes
    <2>5. CompareSegments(s, t, n) = 0
      BY <1>1, <1>4
    <2> QED BY <2>3, <2>4, <2>5
  <1>5. CASE differ # {}
    <2>1. m \in differ /\ \A j \in differ : m <= j
      <3>1. differ \subseteq 1..n
        OBVIOUS
      <3> HIDE DEF differ
      <3> QED BY <1>5, <3>1, LeastIs
    <2>2. CompareSegments(s, t, n) = IF Segment(s, m) < Segment(t, m) THEN -1 ELSE 1
      BY <1>1, <1>5
    <2> HIDE DEF m
    <2>3. m \in 1..n /\ m \in Nat \ {0} /\ Segment(s, m) # Segment(t, m)
      BY <2>1
    <2>4. ASSUME NEW j \in 1..(m - 1) PROVE Segment(s, j) = Segment(t, j)
      <3>1. j \in 1..n /\ ~(m <= j)
        BY <2>3
      <3>2. j \notin differ
        BY <2>1, <3>1
      <3> QED BY <3>1, <3>2
    <2> HIDE DEF differ
    <2>5. ~Alike(s, t)
      BY <2>3 DEF Alike
    <2>6. Precedes(s, t) <=> Segment(s, m) < Segment(t, m)
      BY <2>3, <2>4, FirstDecides
    <2>7. Precedes(t, s) <=> Segment(t, m) < Segment(s, m)
      BY <2>3, <2>4, FirstDecides
    <2> QED BY <1>3, <2>2, <2>3, <2>5, <2>6, <2>7
  <1> QED BY <1>4, <1>5

LEMMA VersionsMean ==
  ASSUME NEW v \in Seq(Nat \cup {Text}), NEW w \in Seq(Nat \cup {Text})
  PROVE  LET s == VersionSegments(v)  t == VersionSegments(w)  c == CompareVersions(v, w) IN
         \/ c = 0 /\ Alike(s, t) /\ ~Precedes(s, t) /\ ~Precedes(t, s)
         \/ c = -1 /\ ~Alike(s, t) /\ Precedes(s, t) /\ ~Precedes(t, s)
         \/ c = 1 /\ ~Alike(s, t) /\ ~Precedes(s, t) /\ Precedes(t, s)
  <1> DEFINE s == VersionSegments(v)
             t == VersionSegments(w)
             n == Max({Len(s), Len(t)})
  <1>1. s \in Seq(Nat) /\ t \in Seq(Nat)
    BY SegmentsAreNumbers
  <1>2. CompareVersions(v, w) = CompareSegments(s, t, n)
    BY DEF CompareVersions
  <1> HIDE DEF s, t
  <1>3. Len(s) \in Nat /\ Len(t) \in Nat
    BY <1>1
  <1>4. \E x \in {Len(s), Len(t)} : \A y \in {Len(s), Len(t)} : x >= y
    BY <1>3
  <1>5. n \in Nat /\ Len(s) <= n /\ Len(t) <= n
    BY <1>3, <1>4 DEF Max
  <1> HIDE DEF n
  <1> QED BY <1>1, <1>2, <1>5, CompareMeans DEF s, t

LEMMA PrecedesOrAlike ==
  ASSUME NEW r \in Seq(Nat), NEW s \in Seq(Nat), NEW t \in Seq(Nat),
         Precedes(r, s) \/ Alike(r, s), Precedes(s, t) \/ Alike(s, t)
  PROVE  Precedes(r, t) \/ Alike(r, t)
  <1>1. \A i \in Nat \ {0} : Segment(r, i) \in Nat /\ Segment(s, i) \in Nat /\ Segment(t, i) \in Nat
    BY SegmentIsNumber
  <1>2. CASE Alike(r, s)
    BY <1>2 DEF Alike, Precedes
  <1>3. CASE Alike(s, t)
    BY <1>3 DEF Alike, Precedes
  <1>4. CASE Precedes(r, s) /\ Precedes(s, t)
    <2>1. PICK i \in Nat \ {0} :
            Segment(r, i) < Segment(s, i) /\ \A j \in 1..(i - 1) : Segment(r, j) = Segment(s, j)
      BY <1>4 DEF Precedes
    <2>2. PICK k \in Nat \ {0} :
            Segment(s, k) < Segment(t, k) /\ \A j \in 1..(k - 1) : Segment(s, j) = Segment(t, j)
      BY <1>4 DEF Precedes
    <2>3. CASE i < k
      <3>1. Segment(r, i) < Segment(t, i) /\ \A j \in 1..(i - 1) : Segment(r, j) = Segment(t, j)
        BY <1>1, <2>1, <2>2, <2>3
      <3> QED BY <3>1 DEF Precedes
    <2>4. CASE k < i
      <3>1. Segment(r, k) < Segment(t, k) /\ \A j \in 1..(k - 1) : Segment(r, j) = Segment(t, j)
        BY <1>1, <2>1, <2>2, <2>4
      <3> QED BY <3>1 DEF Precedes
    <2>5. CASE i = k
      <3>1. Segment(r, i) < Segment(t, i) /\ \A j \in 1..(i - 1) : Segment(r, j) = Segment(t, j)
        BY <1>1, <2>1, <2>2, <2>5
      <3> QED BY <3>1 DEF Precedes
    <2> QED BY <2>3, <2>4, <2>5
  <1> QED BY <1>2, <1>3, <1>4

(* compareVersions is an order, for versions of any length and with any     *)
(* text in them: exactly one of <, = and > holds of two versions, "<=" is   *)
(* transitive, and those that are equal differ in zeros at the end only, so *)
(* that every clause of a constraint cuts all versions in two.              *)
THEOREM VersionsAreOrdered ==
  \A u, v, w \in Seq(Nat \cup {Text}) :
    /\ CompareVersions(v, w) \in {-1, 0, 1} /\ CompareVersions(w, v) = 0 - CompareVersions(v, w)
    /\ CompareVersions(v, w) = 0 <=>
         \A i \in Nat \ {0} : Segment(VersionSegments(v), i) = Segment(VersionSegments(w), i)
    /\ CompareVersions(u, v) <= 0 /\ CompareVersions(v, w) <= 0 => CompareVersions(u, w) <= 0
  <1> SUFFICES ASSUME NEW u \in Seq(Nat \cup {Text}), NEW v \in Seq(Nat \cup {Text}), NEW w \in Seq(Nat \cup {Text})
               PROVE  /\ CompareVersions(v, w) \in {-1, 0, 1} /\ CompareVersions(w, v) = 0 - CompareVersions(v, w)
                      /\ CompareVersions(v, w) = 0 <=>
                           \A i \in Nat \ {0} : Segment(VersionSegments(v), i) = Segment(VersionSegments(w), i)
                      /\ CompareVersions(u, v) <= 0 /\ CompareVersions(v, w) <= 0 => CompareVersions(u, w) <= 0
    OBVIOUS
  <1> DEFINE r == VersionSegments(u)
             s == VersionSegments(v)
             t == VersionSegments(w)
             M(c, x, y) ==
               \/ c = 0 /\ Alike(x, y) /\ ~Precedes(x, y) /\ ~Precedes(y, x)
               \/ c = -1 /\ ~Alike(x, y) /\ Precedes(x, y) /\ ~Precedes(y, x)
               \/ c = 1 /\ ~Alike(x, y) /\ ~Precedes(x, y) /\ Precedes(y, x)
  <1>1. /\ M(CompareVersions(v, w), s, t) /\ M(CompareVersions(w, v), t, s)
        /\ M(CompareVersions(u, v), r, s) /\ M(CompareVersions(u, w), r, t)
    BY VersionsMean
  <1>2. r \in Seq(Nat) /\ s \in Seq(Nat) /\ t \in Seq(Nat)
    BY SegmentsAreNumbers
  <1> HIDE DEF r, s, t
  <1>3. CompareVersions(v, w) = 0 <=> Alike(s, t)
    BY <1>1
  <1>4. CompareVersions(v, w) \in {-1, 0, 1} /\ CompareVersions(w, v) = 0 - CompareVersions(v, w)
    <2>1. Alike(s, t) => Alike(t, s)
      BY DEF Alike
    <2>2. Alike(t, s) => Alike(s, t)
      BY DEF Alike
    <2> QED BY <1>1, <2>1, <2>2
  <1>5. CompareVersions(u, v) <= 0 /\ CompareVersions(v, w) <= 0 => CompareVersions(u, w) <= 0
    <2>1. CompareVersions(u, v) <= 0 /\ CompareVersions(v, w) <= 0 => Precedes(r, t) \/ Alike(r, t)
      BY <1>1, <1>2, PrecedesOrAlike
    <2> QED BY <1>1, <2>1
  <1> QED BY <1>3, <1>4, <1>5 DEF Alike, s, t


(* What a clause does with the versions: ">=" and ">" take with a version   *)
(* every later one, "<=" and "<" every earlier one, "<" is what ">=" leaves *)
(* and ">" what "<=" leaves, and "=" takes what is between the two.  A     *)
(* version with zeros at its end is taken by the clauses that take it       *)
(* without them, each being no later than the other.                        *)
THEOREM ClausesCutVersions ==
  \A u, v, w \in Seq(Nat \cup {Text}) :
    LET Holds(op, x) == MatchClause([op |-> op, ver |-> w], x)
    IN  /\ CompareVersions(u, v) <= 0 =>
             /\ Holds(">=", u) => Holds(">=", v)
             /\ Holds(">", u) => Holds(">", v)
             /\ Holds("<=", v) => Holds("<=", u)
             /\ Holds("<", v) => Holds("<", u)
        /\ Holds("<", v) <=> ~Holds(">=", v)
        /\ Holds(">", v) <=> ~Holds("<=", v)
        /\ Holds("=", v) <=> Holds(">=", v) /\ Holds("<=", v)
  <1> SUFFICES ASSUME NEW u \in Seq(Nat \cup {Text}), NEW v \in Seq(Nat \cup {Text}), NEW w \in Seq(Nat \cup {Text})
               PROVE  LET Holds(op, x) == MatchClause([op |-> op, ver |-> w], x)
                      IN  /\ CompareVersions(u, v) <= 0 =>
                               /\ Holds(">=", u) => Holds(">=", v)
                               /\ Holds(">", u) => Holds(">", v)
                               /\ Holds("<=", v) => Holds("<=", u)
                               /\ Holds("<", v) => Holds("<", u)
                          /\ Holds("<", v) <=> ~Holds(">=", v)
                          /\ Holds(">", v) <=> ~Holds("<=", v)
                          /\ Holds("=", v) <=> Holds(">=", v) /\ Holds("<=", v)
    OBVIOUS
  <1> DEFINE Holds(op, x) == MatchClause([op |-> op, ver |-> w], x)
  <1>1. ASSUME NEW x \in Seq(Nat \cup {Text})
        PROVE  /\ Holds(">=", x) <=> CompareVersions(x, w) >= 0
               /\ Holds(">", x) <=> CompareVersions(x, w) > 0
               /\ Holds("<=", x) <=> CompareVersions(x, w) <= 0
               /\ Holds("<", x) <=> CompareVersions(x, w) < 0
               /\ Holds("=", x) <=> CompareVersions(x, w) = 0
    BY DEF MatchClause
  <1>2. /\ CompareVersions(u, w) \in {-1, 0, 1} /\ CompareVersions(w, u) = 0 - CompareVersions(u, w)
        /\ CompareVersions(v, w) \in {-1, 0, 1} /\ CompareVersions(w, v) = 0 - CompareVersions(v, w)
        /\ CompareVersions(u, v) \in {-1, 0, 1} /\ CompareVersions(v, u) = 0 - CompareVersions(u, v)
    BY VersionsAreOrdered
  <1>3. /\ CompareVersions(u, v) <= 0 /\ CompareVersions(v, w) <= 0 => CompareVersions(u, w) <= 0
        /\ CompareVersions(w, u) <= 0 /\ CompareVersions(u, v) <= 0 => CompareVersions(w, v) <= 0
        /\ CompareVersions(v, w) <= 0 /\ CompareVersions(w, u) <= 0 => CompareVersions(v, u) <= 0
    BY VersionsAreOrdered
  <1>4. /\ CompareVersions(v, w) <= 0 /\ CompareVersions(w, v) <= 0 <=> CompareVersions(v, w) = 0
    BY <1>2
  <1>5. ASSUME CompareVersions(u, v) <= 0
        PROVE  /\ CompareVersions(u, w) >= 0 => CompareVersions(v, w) >= 0
               /\ CompareVersions(v, w) <= 0 => CompareVersions(u, w) <= 0
    BY <1>2, <1>3, <1>5
  <1>6. ASSUME CompareVersions(u, v) <= 0
        PROVE  /\ CompareVersions(u, w) > 0 => CompareVersions(v, w) > 0
               /\ CompareVersions(v, w) < 0 => CompareVersions(u, w) < 0
    <2>1. CompareVersions(v, w) <= 0 => CompareVersions(u, w) <= 0
      BY <1>5, <1>6
    <2>2. CompareVersions(w, u) <= 0 => CompareVersions(w, v) <= 0
      BY <1>3, <1>6
    <2> QED BY <1>2, <2>1, <2>2
  <1> HIDE DEF Holds
  <1>7. CompareVersions(u, v) <= 0 =>
          /\ Holds(">=", u) => Holds(">=", v)
          /\ Holds(">", u) => Holds(">", v)
          /\ Holds("<=", v) => Holds("<=", u)
          /\ Holds("<", v) => Holds("<", u)
    BY <1>1, <1>5, <1>6
  <1>8. /\ Holds("<", v) <=> ~Holds(">=", v)
        /\ Holds(">", v) <=> ~Holds("<=", v)
        /\ Holds("=", v) <=> Holds(">=", v) /\ Holds("<=", v)
    BY <1>1, <1>2
  <1> QED BY <1>7, <1>8 DEF Holds

(* The order of VersionsAreOrdered, for two versions and for three.         *)
LEMMA ComparedTwo ==
  ASSUME NEW v \in Seq(Nat \cup {Text}), NEW w \in Seq(Nat \cup {Text})
  PROVE  CompareVersions(v, w) \in {-1, 0, 1} /\ CompareVersions(w, v) = 0 - CompareVersions(v, w)
  BY VersionsAreOrdered

LEMMA ComparedThree ==
  ASSUME NEW u \in Seq(Nat \cup {Text}), NEW v \in Seq(Nat \cup {Text}), NEW w \in Seq(Nat \cup {Text}),
         CompareVersions(u, v) <= 0, CompareVersions(v, w) <= 0
  PROVE  CompareVersions(u, w) <= 0
  BY VersionsAreOrdered

(* The versions that one alternative of a constraint takes are an interval: *)
(* with two versions all that lie between them, whatever its clauses are    *)
(* and in whatever order.  So what a constraint delivers is a union of as   *)
(* many intervals as it has alternatives, and "<1.0 >2.0" is empty.         *)
THEOREM AlternativesAreIntervals ==
  ASSUME NEW clauses \in Seq({<<>>} \cup [op : {">=", ">", "<=", "<", "="}, ver : Seq(Nat \cup {Text})]),
         NEW u \in Seq(Nat \cup {Text}), NEW v \in Seq(Nat \cup {Text}), NEW w \in Seq(Nat \cup {Text}),
         MatchVersionConstraint(<<clauses>>, u), MatchVersionConstraint(<<clauses>>, w),
         CompareVersions(u, v) <= 0, CompareVersions(v, w) <= 0
  PROVE  MatchVersionConstraint(<<clauses>>, v)
  <1> DEFINE All(x) == clauses # <<>> /\ \A c \in DOMAIN clauses : clauses[c] = <<>> \/ MatchClause(clauses[c], x)
  <1>1. \A x : MatchVersionConstraint(<<clauses>>, x) <=> All(x)
    <2>1. <<clauses>> # <<>> /\ DOMAIN <<clauses>> = {1} /\ <<clauses>>[1] = clauses
      OBVIOUS
    <2> QED BY <2>1 DEF MatchVersionConstraint
  <1>2. ASSUME NEW c \in DOMAIN clauses, clauses[c] # <<>>
        PROVE  MatchClause(clauses[c], v)
    <2> DEFINE clause == clauses[c]
               x == clause.ver
    <2>1. clause.op \in {">=", ">", "<=", "<", "="} /\ x \in Seq(Nat \cup {Text})
      BY <1>2
    <2>2. MatchClause(clause, u) /\ MatchClause(clause, w)
      BY <1>1, <1>2
    <2> HIDE DEF clause
    <2> HIDE DEF x
    <2>3. /\ CompareVersions(u, x) \in {-1, 0, 1} /\ CompareVersions(v, x) \in {-1, 0, 1}
          /\ CompareVersions(w, x) \in {-1, 0, 1}
          /\ CompareVersions(x, u) = 0 - CompareVersions(u, x)
          /\ CompareVersions(x, v) = 0 - CompareVersions(v, x)
          /\ CompareVersions(x, w) = 0 - CompareVersions(w, x)
      BY <2>1, ComparedTwo
    <2>4. /\ CompareVersions(x, u) <= 0 => CompareVersions(x, v) <= 0
          /\ CompareVersions(w, x) <= 0 => CompareVersions(v, x) <= 0
      BY <2>1, ComparedThree
    <2>5. /\ CompareVersions(v, x) <= 0 => CompareVersions(u, x) <= 0
          /\ CompareVersions(x, v) <= 0 => CompareVersions(x, w) <= 0
      BY <2>1, ComparedThree
    <2>6. MatchClause(clause, v)
      <3> DEFINE cu == CompareVersions(u, x)
                 cv == CompareVersions(v, x)
                 cw == CompareVersions(w, x)
      <3>1. /\ cu \in {-1, 0, 1} /\ cv \in {-1, 0, 1} /\ cw \in {-1, 0, 1}
            /\ cu >= 0 => cv >= 0
            /\ cw <= 0 => cv <= 0
            /\ cv <= 0 => cu <= 0
            /\ cv >= 0 => cw >= 0
        BY <2>3, <2>4, <2>5
      <3>2. /\ clause.op = ">=" => cu >= 0
            /\ clause.op = ">"  => cu > 0
            /\ clause.op = "<=" => cw <= 0
            /\ clause.op = "<"  => cw < 0
            /\ clause.op = "="  => cu = 0 /\ cw = 0
        BY <2>2 DEF MatchClause, x
      <3>3. MatchClause(clause, v) <=>
              CASE clause.op = ">=" -> cv >= 0
                [] clause.op = ">"  -> cv > 0
                [] clause.op = "<=" -> cv <= 0
                [] clause.op = "<"  -> cv < 0
                [] clause.op = "="  -> cv = 0
                [] OTHER -> FALSE
        BY DEF MatchClause, x
      <3> HIDE DEF cu, cv, cw
      <3> QED BY <2>1, <3>1, <3>2, <3>3
    <2> QED BY <2>6 DEF clause
  <1> QED BY <1>1, <1>2
=============================================================================
